---------------------------- MODULE RequestQueue ----------------------------
(***************************************************************************)
(* ModbusRequestQueue (csp_lib/modbus/clients/queue.py): callers submit    *)
(* requests for units of a serial bus, one background worker takes them    *)
(* round-robin by priority and puts them on the bus one at a time.         *)
(*                                                                         *)
(* An action is what runs between two suspension points of the asyncio     *)
(* event loop.  No critical section of the queue's lock awaits anything,   *)
(* so the lock is never contended and submit and _dequeue are each one     *)
(* step.  The worker loop does not suspend between two requests: while     *)
(* worker = "loop" it holds the event loop, and no other task moves until  *)
(* it waits for the event or for the bus.                                  *)
(*                                                                         *)
(* Clocks are timers counting down in ticks of half a second (the floor    *)
(* the worker keeps for a bus operation is one tick).  The event loop runs *)
(* what is ready before the next tick, unless the worker spins.            *)
(***************************************************************************)
EXTENDS Integers, FiniteSets

CONSTANTS
    Requests,      \* the calls of submit, each made at most once
    Units,         \* unit ids on the bus
    Timeouts,      \* request timeouts, in ticks
    MaxQueueSize,  \* max_queue_size; 0 is no limit
    DrainTimeout,  \* drain_timeout, in ticks
    NoRequest,     \* the worker has no request in hand
    Threshold,     \* consecutive failures that open the breaker
    Cooldown,      \* base cooldown, in ticks
    MaxCooldown,   \* cap of the exponential backoff, in ticks
    Factor,        \* backoff_factor
    JitterPercent  \* the jitter factors drawn from [0.8, 1.2), in percent

WRITE == 0
READ == 1
Priorities == {WRITE, READ}

\* The floor of worker_timeout: 0.5 s.
MinBusTicks == 1

ASSUME QueueAssumption ==
    /\ IsFiniteSet(Requests)
    /\ NoRequest \notin Requests
    /\ Timeouts \subseteq Nat \ {0}
    /\ MaxQueueSize \in Nat
    /\ DrainTimeout \in Nat

-----------------------------------------------------------------------------
(* The circuit breaker of csp_lib/core/resilience.py, a record: what each  *)
(* method of the class makes of it.  A running cooldown is the number of   *)
(* ticks it still has to run.                                              *)

MaxExponent == 5

ASSUME BreakerAssumption ==
    /\ Threshold \in Nat \ {0}
    /\ Cooldown \in Nat
    /\ MaxCooldown \in Nat
    /\ Factor \in Nat
    /\ \A k \in 0..MaxExponent : Factor^k \in Nat
    /\ JitterPercent \subseteq 80..120
    /\ JitterPercent # {}

CircuitState == {"closed", "open", "half_open"}

\* fails counts up to Threshold and trips up to MaxExponent: the code tells
\* larger values of _failure_count and _consecutive_failures apart nowhere.
Breaker == [state : CircuitState, fails : 0..Threshold,
            trips : 0..MaxExponent, left : Nat]

Lesser(a, b) == IF a <= b THEN a ELSE b

Fresh == [state |-> "closed", fails |-> 0, trips |-> 0, left |-> 0]

\* The cooldowns that the trips-th opening in a row may draw. A cooldown that
\* ends between two ticks has ended by the later one.
CooldownTicks(trips) ==
    LET base == Lesser(Cooldown * Factor^trips, MaxCooldown)
    IN  { (base * j + 99) \div 100 : j \in JitterPercent }

\* Reading the state moves an open breaker whose cooldown is over to half-open.
Observe(b) ==
    IF b.state = "open" /\ b.left = 0 THEN [b EXCEPT !.state = "half_open"] ELSE b

\* Mutant: an open breaker keeps nobody out.
AllowsAnyway(b) == TRUE

Allows(b) == Observe(b).state # "open"

\* The breakers record_failure may leave behind.
Failed(b) ==
    LET fails == Lesser(b.fails + 1, Threshold)
        trips == Lesser(b.trips + 1, MaxExponent)
    IN  IF fails = Threshold
        THEN { [state |-> "open", fails |-> fails, trips |-> trips, left |-> c] :
                 c \in CooldownTicks(trips) }
        ELSE { [b EXCEPT !.fails = fails] }

Elapse(b) == [b EXCEPT !.left = IF @ > 0 THEN @ - 1 ELSE 0]

-----------------------------------------------------------------------------
VARIABLES
    running,    \* _running
    event,      \* _event is set
    total,      \* _total_size
    keys,       \* the keys of _unit_queues
    ring,       \* the members of the deque _round_robin
    ahead,      \* the order of that deque: <<u, v>> when u stands before v
    heap,       \* the requests in the heaps of _unit_queues
    sequence,   \* _sequence
    breaker,    \* _circuit_breakers
    worker,     \* where the worker task stands
    current,    \* the request the worker has put on the bus
    busLeft,    \* ticks until the worker gives the bus operation up
    stopper,    \* where a call of stop stands
    drainLeft,  \* ticks until stop gives the worker up
    req,        \* unit, priority and sequence of each submitted request
    future,     \* the future of each request
    left,       \* ticks until the request's timeout; -1 when it is overdue
    caller      \* where the task that called submit stands

sizeVars == <<total, heap>>
schedVars == <<keys, ring, ahead>>
workerVars == <<worker, current, busLeft>>
stopVars == <<running, stopper, drainLeft>>
callVars == <<req, future, left, caller>>
vars == <<running, event, total, keys, ring, ahead, heap, sequence, breaker, worker,
          current, busLeft, stopper, drainLeft, req, future, left, caller>>

Resolved == {"result", "exception", "cancelled"}

TypeOK ==
    /\ running \in BOOLEAN
    /\ event \in BOOLEAN
    /\ total \in Nat
    /\ keys \subseteq Units
    /\ ring \subseteq Units
    /\ ahead \subseteq Units \X Units
    /\ heap \subseteq Requests
    /\ sequence \in Nat
    /\ breaker \in [Units -> Breaker]
    /\ worker \in {"none", "new", "loop", "wait", "bus", "done"}
    /\ current \in Requests \cup {NoRequest}
    /\ busLeft \in Nat
    /\ stopper \in {"idle", "drain"}
    /\ drainLeft \in Nat
    /\ req \in [Requests -> [unit : Units, priority : Priorities, sequence : Nat]
                              \cup {NoRequest}]
    /\ future \in [Requests -> {"none", "pending"} \cup Resolved]
    /\ left \in [Requests -> Int]
    /\ caller \in [Requests -> {"idle", "waiting", "ended"}]

Init ==
    /\ running = FALSE /\ event = FALSE
    /\ total = 0 /\ heap = {} /\ sequence = 0
    /\ keys = {} /\ ring = {} /\ ahead = {}
    /\ breaker = [u \in Units |-> Fresh]
    /\ worker = "none" /\ current = NoRequest /\ busLeft = 0
    /\ stopper = "idle" /\ drainLeft = 0
    /\ req = [r \in Requests |-> NoRequest]
    /\ future = [r \in Requests |-> "none"]
    /\ left = [r \in Requests |-> 0]
    /\ caller = [r \in Requests |-> "idle"]

-----------------------------------------------------------------------------
(* The heaps and the deque.                                                *)

Done(r) == future[r] \in Resolved

\* Mutant: FIFO, whatever the priorities.
BySequence(q, r) == req[q].sequence < req[r].sequence

\* ModbusRequest.__lt__
Before(q, r) ==
    \/ req[q].priority < req[r].priority
    \/ req[q].priority = req[r].priority /\ req[q].sequence < req[r].sequence

Queue(u) == { r \in heap : req[r].unit = u }

\* The requests _dequeue pops off the heap tops because they are resolved:
\* those with nothing unresolved before them in their heap.
Purged ==
    { r \in heap : /\ req[r].unit \in ring
                   /\ Done(r)
                   /\ \A q \in Queue(req[r].unit) : Before(q, r) => Done(q) }

Kept == heap \ Purged

Stale == { u \in ring : Queue(u) \subseteq Purged }

\* The tops of the heaps whose breaker lets a request through.
Candidates ==
    { r \in Kept : /\ req[r].unit \in ring
                   /\ Allows(breaker[req[r].unit])
                   /\ \A q \in Kept \ {r} : req[q].unit = req[r].unit => Before(r, q) }

\* Highest priority first, then the position of the unit in the deque.
Chosen ==
    { r \in Candidates :
        \A q \in Candidates \ {r} :
          \/ req[r].priority < req[q].priority
          \/ /\ req[r].priority = req[q].priority
             /\ <<req[r].unit, req[q].unit>> \in ahead }

\* Mutant: the purged requests are not counted off.
SizeAfterPopOnly(popped) == total - popped

\* Mutant: they are counted off twice.
SizeAfterTwice(popped) == total - popped - 2 * Cardinality(Purged)

SizeAfter(popped) == total - popped - Cardinality(Purged)

\* Mutant: the dict forgets the units and the deque keeps them.
RetireKeysOnly(us) == keys' = keys \ us /\ UNCHANGED ring

Retire(us) == keys' = keys \ us /\ ring' = ring \ us

\* Removing units from the deque, and adding one at its end.
Without(order, us) == { p \in order : p[1] \notin us /\ p[2] \notin us }

\* Mutant: appendleft.
AtFront(order, others, u) == order \cup { <<u, v>> : v \in others }

AtEnd(order, others, u) == order \cup { <<v, u>> : v \in others }

\* Mutant: the event is not set.
KeepEvent == UNCHANGED event

SetEvent == event' = TRUE

\* Mutant: the worker's answer replaces the caller's cancellation.
Overwrite(f, outcome) == outcome

\* set_result, set_exception and cancel, each behind its check of done().
Resolve(f, outcome) == IF f = "pending" THEN outcome ELSE f

-----------------------------------------------------------------------------
(* Callers.                                                                *)

\* While the worker runs its loop nothing else gets the event loop.
LoopFree == worker # "loop"

\* submit, up to its await; the breaker check comes first and reads the state.
Submit(r, u, p, t) ==
    /\ LoopFree
    /\ caller[r] = "idle"
    /\ running
    /\ Allows(breaker[u])
    /\ MaxQueueSize > 0 => total < MaxQueueSize
    /\ breaker' = [breaker EXCEPT ![u] = Observe(@)]
    /\ sequence' = sequence + 1
    /\ req' = [req EXCEPT ![r] = [unit |-> u, priority |-> p, sequence |-> sequence + 1]]
    /\ future' = [future EXCEPT ![r] = "pending"]
    /\ left' = [left EXCEPT ![r] = t]
    /\ caller' = [caller EXCEPT ![r] = "waiting"]
    /\ heap' = heap \cup {r}
    /\ total' = total + 1
    /\ keys' = keys \cup {u}
    /\ IF u \in keys
       THEN UNCHANGED <<ring, ahead>>
       ELSE /\ ring' = ring \cup {u}
            /\ ahead' = AtEnd(ahead, ring, u)
    /\ SetEvent
    /\ UNCHANGED <<workerVars, stopVars>>

\* submit raises: not running, breaker open, or queue full.  The call leaves no
\* trace but the breaker state it has read, so r stays free for another call.
Refuse(r, u) ==
    /\ LoopFree
    /\ caller[r] = "idle"
    /\ \/ ~running /\ UNCHANGED breaker
       \/ running /\ ~Allows(breaker[u]) /\ UNCHANGED breaker
       \/ /\ running /\ Allows(breaker[u])
          /\ MaxQueueSize > 0 /\ total >= MaxQueueSize
          /\ breaker' = [breaker EXCEPT ![u] = Observe(@)]
    /\ UNCHANGED <<event, sizeVars, schedVars, sequence, workerVars, stopVars, callVars>>

\* The future is resolved and the caller's task gets the loop.
Resume(r) ==
    /\ LoopFree
    /\ caller[r] = "waiting"
    /\ Done(r)
    /\ caller' = [caller EXCEPT ![r] = "ended"]
    /\ left' = [left EXCEPT ![r] = 0]
    /\ UNCHANGED <<event, sizeVars, schedVars, sequence, breaker, workerVars, stopVars,
                   req, future>>

\* Mutant: the caller awaits its future without a timeout.
NeverExpires(r) == FALSE

Expired(r) == left[r] <= 0

\* wait_for times out: future.cancel() does nothing to a resolved future.
TimeOut(r) ==
    /\ LoopFree
    /\ caller[r] = "waiting"
    /\ Expired(r)
    /\ caller' = [caller EXCEPT ![r] = "ended"]
    /\ future' = [future EXCEPT ![r] = Resolve(@, "cancelled")]
    /\ left' = [left EXCEPT ![r] = 0]
    /\ UNCHANGED <<event, sizeVars, schedVars, sequence, breaker, workerVars, stopVars, req>>

\* The caller's task is cancelled: shield keeps the future out of it.
CancelCaller(r) ==
    /\ LoopFree
    /\ caller[r] = "waiting"
    /\ caller' = [caller EXCEPT ![r] = "ended"]
    /\ UNCHANGED <<event, sizeVars, schedVars, sequence, breaker, workerVars, stopVars,
                   req, future, left>>

-----------------------------------------------------------------------------
(* Start and stop.                                                         *)

\* start; the clients call it under a reference they hold, never while a
\* stop of the same queue is draining.
Start ==
    /\ LoopFree
    /\ ~running
    /\ stopper = "idle"
    /\ running' = TRUE
    /\ worker' = "new"
    /\ UNCHANGED <<event, sizeVars, schedVars, sequence, breaker, current, busLeft,
                   stopper, drainLeft, callVars>>

\* stop, up to its wait for the worker.
Stop ==
    /\ LoopFree
    /\ running
    /\ running' = FALSE
    /\ SetEvent
    /\ stopper' = "drain"
    /\ drainLeft' = DrainTimeout
    /\ UNCHANGED <<sizeVars, schedVars, sequence, breaker, workerVars, callVars>>

\* drain_timeout is over: the worker is cancelled wherever it is suspended,
\* and the future of a request on the bus stays pending.
DrainExpires ==
    /\ LoopFree
    /\ stopper = "drain" /\ drainLeft = 0
    /\ worker # "done"
    /\ worker' = "done" /\ current' = NoRequest /\ busLeft' = 0
    /\ UNCHANGED <<event, sizeVars, schedVars, sequence, breaker, stopVars, callVars>>

\* Mutant: the heaps are cleared with their futures left alone.
Forgotten(f) == f

Swept(f) == Resolve(f, "cancelled")

\* The rest of stop, once the worker has ended: cancel what is still queued.
Flush ==
    /\ LoopFree
    /\ stopper = "drain" /\ worker = "done"
    /\ stopper' = "idle" /\ drainLeft' = 0 /\ worker' = "none"
    /\ future' = [r \in Requests |-> IF r \in heap THEN Swept(future[r]) ELSE future[r]]
    /\ heap' = {} /\ total' = 0
    /\ keys' = {} /\ ring' = {} /\ ahead' = {}
    /\ UNCHANGED <<running, event, sequence, breaker, current, busLeft, req, left, caller>>

-----------------------------------------------------------------------------
(* The worker.                                                             *)

\* The worker task gets the loop for the first time, or after event.wait().
Wake ==
    /\ \/ worker = "new"
       \/ worker = "wait" /\ event
    /\ worker' = "loop"
    /\ UNCHANGED <<event, sizeVars, schedVars, sequence, breaker, current, busLeft,
                   stopVars, callVars>>

Quit ==
    /\ worker = "loop"
    /\ ~running /\ total = 0
    /\ worker' = "done"
    /\ UNCHANGED <<event, sizeVars, schedVars, sequence, breaker, current, busLeft,
                   stopVars, callVars>>

\* What every _dequeue does before it picks: drop resolved tops and stale
\* units, and read the state of the breakers of the other units.
Sweep ==
    breaker' = [u \in Units |-> IF u \in ring \ Stale THEN Observe(breaker[u])
                                                      ELSE breaker[u]]

\* Mutant: no second look at the size after the event is cleared.
WaitAnyway(size) == "wait"

AfterClear(size) == IF size > 0 THEN "loop" ELSE "wait"

\* _dequeue finds nothing to serve.  With requests left behind open breakers
\* the worker goes round again without suspending; a stopped one gives up.
DequeueNone ==
    /\ worker = "loop"
    /\ running \/ total > 0
    /\ Candidates = {}
    /\ Sweep
    /\ heap' = Kept
    /\ total' = SizeAfter(0)
    /\ Retire(Stale)
    /\ ahead' = Without(ahead, Stale)
    /\ IF running
       THEN event' = FALSE /\ worker' = AfterClear(SizeAfter(0))
       ELSE worker' = "done" /\ UNCHANGED event
    /\ UNCHANGED <<sequence, current, busLeft, stopVars, callVars>>

\* _dequeue picks r and the worker puts it on the bus.  Nothing is awaited in
\* between, so the checks of the future and of the breaker that the worker
\* repeats find what _dequeue found (theorem DequeuedIsLive).
Serve(r) ==
    /\ worker = "loop"
    /\ running \/ total > 0
    /\ r \in Chosen
    /\ Sweep
    /\ heap' = Kept \ {r}
    /\ total' = SizeAfter(1)
    /\ LET u == req[r].unit
           rest == Without(ahead, Stale \cup {u})
       IN  IF \E q \in Kept \ {r} : req[q].unit = u
           THEN /\ Retire(Stale)
                /\ ahead' = AtEnd(rest, ring \ (Stale \cup {u}), u)
           ELSE /\ Retire(Stale \cup {u})
                /\ ahead' = rest
    /\ worker' = "bus"
    /\ current' = r
    /\ busLeft' = IF left[r] > MinBusTicks THEN left[r] ELSE MinBusTicks
    /\ UNCHANGED <<event, sequence, stopVars, callVars>>

\* The operation ends: the breaker is told and the future resolved, if the
\* caller has not cancelled it meanwhile.
BusEnds(outcome, after) ==
    /\ worker = "bus"
    /\ worker' = "loop" /\ current' = NoRequest /\ busLeft' = 0
    /\ \E b \in after : breaker' = [breaker EXCEPT ![req[current].unit] = b]
    /\ future' = [future EXCEPT ![current] = Resolve(@, outcome)]
    /\ UNCHANGED <<event, sizeVars, schedVars, sequence, stopVars, req, left, caller>>

BusOk == BusEnds("result", {Fresh})
BusFails == BusEnds("exception", Failed(breaker[req[current].unit]))

-----------------------------------------------------------------------------
(* The clock.                                                              *)

\* What the event loop has ready to run, timers that are due included.
Ready ==
    \/ worker = "new"
    \/ worker = "wait" /\ event
    \/ worker = "bus" /\ busLeft = 0
    \/ stopper = "drain" /\ (drainLeft = 0 \/ worker = "done")
    \/ \E r \in Requests : caller[r] = "waiting" /\ (Done(r) \/ Expired(r))

\* The time of a request runs while its caller waits or its future is open.
Timed(r) == caller[r] = "waiting" \/ future[r] = "pending"

CountDown(n) == IF n > 0 THEN n - 1 ELSE 0

\* Every breaker with requests waiting is open: the worker goes round and round
\* (clear, total > 0, continue) and nobody else gets the loop.
Spinning == worker = "loop" /\ running /\ Candidates = {} /\ Kept # {}

Tick ==
    /\ Spinning \/ (LoopFree /\ ~Ready)
    /\ breaker' = [u \in Units |-> Elapse(breaker[u])]
    /\ busLeft' = CountDown(busLeft)
    /\ drainLeft' = CountDown(drainLeft)
    /\ left' = [r \in Requests |->
                  IF Timed(r) /\ left[r] >= 0 THEN left[r] - 1 ELSE left[r]]
    /\ UNCHANGED <<event, sizeVars, schedVars, sequence, worker, current, running, stopper,
                   req, future, caller>>

-----------------------------------------------------------------------------
Next ==
    \/ \E r \in Requests :
         \/ \E u \in Units :
              \/ \E p \in Priorities, t \in Timeouts : Submit(r, u, p, t)
              \/ Refuse(r, u)
         \/ Resume(r) \/ TimeOut(r) \/ CancelCaller(r)
         \/ Serve(r)
    \/ Start \/ Stop \/ DrainExpires \/ Flush
    \/ Wake \/ Quit \/ DequeueNone
    \/ BusOk \/ BusFails
    \/ Tick

\* The event loop runs its ready callbacks in turn, so a task that is ready gets
\* the loop although the worker takes it away in between (strong fairness), and
\* time passes whatever the callers of start and stop do.  An operation on the
\* bus ends by the worker's timeout if by nothing else.
Fairness ==
    /\ WF_vars(Wake) /\ WF_vars(Quit) /\ WF_vars(DequeueNone)
    /\ WF_vars(\E r \in Requests : Serve(r))
    /\ WF_vars(BusFails /\ busLeft = 0)
    /\ WF_vars(DrainExpires) /\ WF_vars(Flush)
    /\ \A r \in Requests : SF_vars(Resume(r)) /\ SF_vars(TimeOut(r))
    /\ SF_vars(Tick)

Spec == Init /\ [][Next]_vars
FairSpec == Spec /\ Fairness

-----------------------------------------------------------------------------
(* Properties.                                                             *)

Pending(r) == future[r] = "pending"
InHand(r) == r \in heap \/ current = r

\* The counter the full-queue check and the worker rely on is the number of
\* requests in the heaps, whatever mix of pops, purges and flushes ran
\* (_total_size against _unit_queues), and never exceeds the limit.
SizeExact ==
    /\ total = Cardinality(heap)
    /\ MaxQueueSize > 0 => total <= MaxQueueSize

\* The dict and the deque name the same units, every queued request belongs to
\* one of them, and the deque holds no unit twice.
DequeAgrees ==
    /\ keys = ring
    /\ \A r \in heap : req[r].unit \in ring
    /\ ahead \subseteq ring \X ring
    /\ \A u, v \in ring :
         /\ u # v => <<u, v>> \in ahead \/ <<v, u>> \in ahead
         /\ ~(<<u, v>> \in ahead /\ <<v, u>> \in ahead)

\* The worker never sleeps on the event with requests in the queue and nobody
\* to wake it: the clear-then-recheck of _worker against the set of submit.
NoLostWakeup == worker = "wait" /\ heap # {} => event

\* A request that is unresolved is in the heaps or on the bus, unless a stop
\* ran out of drain_timeout: no path of _dequeue, _worker or stop loses one.
NothingDropped ==
    [][\A r \in Requests :
         InHand(r) /\ ~InHand(r)' =>
           \/ future'[r] \in Resolved
           \/ stopper = "drain" /\ drainLeft = 0]_vars

\* A request goes on the bus only when no unresolved request of a higher
\* priority waits for a unit whose breaker is not open.
WritesFirst ==
    [][\A r \in Requests :
         current' = r /\ current # r =>
           \A q \in heap : Pending(q) /\ Allows(breaker[req[q].unit])
                            => req[r].priority <= req[q].priority]_vars

\* The transitions of a unit's breaker are those of the diagram of class
\* CircuitBreaker: with one request on the bus no late answer closes a breaker
\* that another failure has opened, or re-arms its cooldown.
BreakerDiagram ==
    [][\A u \in Units :
         LET b == breaker[u]
             c == breaker'[u]
         IN  b.state = "open" /\ b # c =>
               \/ c = Elapse(b)
               \/ c.state = "half_open" /\ b.left = 0]_vars

\* No caller waits past its timeout by a whole tick: "每個請求的逾時控制"
\* (a timeout for every request) of the module's header.
OnTime == \A r \in Requests : caller[r] = "waiting" => left[r] >= 0

\* stop never has to kill a worker that is asleep: drain_timeout can only run
\* out on an operation on the bus, for the event wakes the worker to its end.
StopKillsOnlyOnBus ==
    [][worker' = "done" /\ drainLeft = 0 /\ worker # "loop" => worker \in {"bus", "done"}]_vars

\* A step drops no request without an answer, stop kills only what is on the bus, and a
\* breaker moves along its diagram only.
StepsSound == NothingDropped /\ StopKillsOnlyOnBus /\ BreakerDiagram

\* Every call of submit comes to an end, those whose request a stop abandons on
\* the bus included: nobody resolves their futures any more.
EveryCallEnds == \A r \in Requests : caller[r] = "waiting" ~> caller[r] # "waiting"

Promise == INSTANCE BusPromise WITH
    outcome <- future,
    spent <- { r \in Requests : future[r] # "none" /\ r \notin heap },
    wire <- current

\* The queue keeps the promise of BusPromise: each request is on the bus at most
\* once, alone, and never after its caller was told that it timed out.
KeepsPromise == Promise!Spec
=============================================================================
