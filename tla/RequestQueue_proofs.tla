------------------------ MODULE RequestQueue_proofs ------------------------
(***************************************************************************)
(* Theorems about RequestQueue for any sets of requests and units and any  *)
(* configuration.  The turns of the round-robin are about the history      *)
(* variable of MCRequestQueue, so this module extends that one.            *)
(***************************************************************************)
EXTENDS MCRequestQueue, FiniteSetTheorems, TLAPS

\* The one-line helpers of the actions are expanded everywhere.
USE DEF SizeAfter, Retire, SetEvent, Resolve, Swept, AfterClear, Expired

Request == [unit : Units, priority : Priorities, sequence : Nat]

\* What the steps rely on to keep the counters right: an idle call has no
\* future and is nowhere in the queue, what is queued or on the bus has been
\* submitted, and the worker holds a request exactly while it is on the bus.
Bookkeeping ==
    /\ \A r \in Requests : caller[r] = "idle" => future[r] = "none" /\ ~InHand(r)
    /\ \A r \in Requests : future[r] = "none" => ~InHand(r)
    /\ \A r \in heap : req[r] \in Request
    /\ worker = "bus" => current \in Requests /\ req[current] \in Request
    /\ worker # "bus" => current = NoRequest
    /\ current \notin heap

\* A queue that neither runs nor drains has no worker, so start makes the only one.
NoStrayWorker == stopper = "idle" => running \/ worker = "none"

Core == TypeOK /\ Bookkeeping /\ SizeExact /\ DequeAgrees /\ NoLostWakeup
IInv == Core /\ NoStrayWorker

-----------------------------------------------------------------------------
(* The breaker.                                                            *)

\* A cooldown is a whole number of ticks, whatever the backoff and the jitter.
LEMMA CooldownNat == \A t \in 0..MaxExponent : CooldownTicks(t) \subseteq Nat
<1> TAKE t \in 0..MaxExponent
<1> DEFINE base == Lesser(Cooldown * Factor^t, MaxCooldown)
<1>1. Factor^t \in Nat
  BY BreakerAssumption
<1>2. Cooldown * Factor^t \in Nat
  <2> DEFINE f == Factor^t
  <2>1. f \in Nat BY <1>1
  <2> HIDE DEF f
  <2>2. Cooldown * f \in Nat BY <2>1, BreakerAssumption
  <2> QED BY <2>2 DEF f
<1>3. base \in Nat
  <2> DEFINE x == Cooldown * Factor^t
  <2>1. x \in Nat BY <1>2
  <2> HIDE DEF x
  <2>2. Lesser(x, MaxCooldown) \in Nat BY <2>1, BreakerAssumption DEF Lesser
  <2> QED BY <2>2 DEF x
<1> HIDE DEF base
<1>4. ASSUME NEW j \in JitterPercent PROVE (base * j + 99) \div 100 \in Nat
  <2>1. j \in Nat BY BreakerAssumption
  <2>2. base * j \in Nat BY <2>1, <1>3
  <2> DEFINE y == base * j
  <2>3. y \in Nat BY <2>2
  <2> HIDE DEF y
  <2>4. (y + 99) \div 100 \in Nat BY <2>3
  <2> QED BY <2>4 DEF y
<1> QED BY <1>4 DEF CooldownTicks, base

\* Every method of the class leaves a breaker.
LEMMA BreakerType ==
    ASSUME NEW b \in Breaker
    PROVE  /\ Observe(b) \in Breaker
           /\ Elapse(b) \in Breaker
           /\ Failed(b) \subseteq Breaker
           /\ Fresh \in Breaker
<1>1. Fresh \in Breaker
  BY BreakerAssumption DEF Fresh, Breaker, CircuitState, MaxExponent
<1>2. Observe(b) \in Breaker
  BY DEF Observe, Breaker, CircuitState
<1>3. Elapse(b) \in Breaker
  BY DEF Elapse, Breaker
<1>4. Failed(b) \subseteq Breaker
  <2> DEFINE fails == Lesser(b.fails + 1, Threshold)
             trips == Lesser(b.trips + 1, MaxExponent)
  <2>1. fails \in 0..Threshold /\ trips \in 0..MaxExponent
    BY BreakerAssumption DEF Lesser, Breaker, MaxExponent
  <2>2. CooldownTicks(trips) \subseteq Nat BY <2>1, CooldownNat
  <2>3. [b EXCEPT !.fails = fails] \in Breaker BY <2>1 DEF Breaker
  <2>4. ASSUME NEW c \in CooldownTicks(trips)
        PROVE  [state |-> "open", fails |-> fails, trips |-> trips, left |-> c] \in Breaker
    BY <2>1, <2>2 DEF Breaker, CircuitState
  <2> QED BY <2>3, <2>4 DEF Failed
<1> QED BY <1>1, <1>2, <1>3, <1>4

-----------------------------------------------------------------------------
(* Cardinalities of what the steps leave in the heaps.                     *)

LEMMA HeapFinite ==
    ASSUME NEW S \in SUBSET Requests
    PROVE  /\ IsFiniteSet(S)
           /\ Cardinality(S) \in Nat
           /\ Cardinality(S) = 0 <=> S = {}
BY QueueAssumption, FS_Subset, FS_CardinalityType, FS_EmptySet

LEMMA AddOne ==
    ASSUME NEW S \in SUBSET Requests, NEW r \in Requests, r \notin S
    PROVE  Cardinality(S \cup {r}) = Cardinality(S) + 1
BY HeapFinite, FS_AddElement

LEMMA DropOne ==
    ASSUME NEW S \in SUBSET Requests, NEW r \in S
    PROVE  Cardinality(S \ {r}) = Cardinality(S) - 1
BY HeapFinite, FS_RemoveElement

LEMMA DropMany ==
    ASSUME NEW S \in SUBSET Requests, NEW T \in SUBSET S
    PROVE  Cardinality(S \ T) = Cardinality(S) - Cardinality(T)
<1>1. IsFiniteSet(S) /\ IsFiniteSet(T) /\ S \cap T = T
  BY HeapFinite
<1> QED BY <1>1, FS_Difference

-----------------------------------------------------------------------------
(* The worker repeats the checks of _dequeue for nothing: what _dequeue    *)
(* picks is unresolved and its breaker lets it through, for it is the top  *)
(* of a heap whose resolved tops are gone.                                 *)

LEMMA CandidateLive ==
    ASSUME TypeOK, Bookkeeping, DequeAgrees, NEW r \in Candidates
    PROVE  Pending(r) /\ Allows(breaker[req[r].unit])
<1>1. r \in Kept /\ Allows(breaker[req[r].unit])
  BY DEF Candidates
<1>2. \A q \in Kept \ {r} : req[q].unit = req[r].unit => Before(r, q)
  BY DEF Candidates
<1>3. r \in heap /\ r \in Requests /\ future[r] # "none"
  BY <1>1 DEF Kept, TypeOK, Bookkeeping, InHand
<1>4. ASSUME Done(r) PROVE FALSE
  <2>1. req[r].unit \in ring
    BY <1>3 DEF DequeAgrees
  <2>2. PICK q \in Queue(req[r].unit) : Before(q, r) /\ ~Done(q)
    BY <1>1, <1>3, <1>4, <2>1 DEF Kept, Purged
  <2>3. q \in heap /\ req[q].unit = req[r].unit
    BY <2>2 DEF Queue
  <2>4. q \in Kept \ {r}
    BY <1>4, <2>2, <2>3 DEF Kept, Purged
  <2>5. Before(r, q)
    BY <1>2, <2>3, <2>4
  <2>6. req[q] \in Request /\ req[r] \in Request
    BY <1>3, <2>3 DEF Bookkeeping
  <2> QED
    BY <2>2, <2>5, <2>6 DEF Before, Request, Priorities, READ, WRITE
<1> QED
  BY <1>1, <1>3, <1>4 DEF Pending, Done, Resolved, TypeOK

\* The two "continue" branches of _worker between _dequeue and the bus
\* operation (the future is done, the breaker is open) are never taken.
THEOREM DequeuedIsLive ==
    ASSUME TypeOK, Bookkeeping, DequeAgrees, NEW r \in Chosen
    PROVE  Pending(r) /\ Allows(breaker[req[r].unit])
BY CandidateLive DEF Chosen

-----------------------------------------------------------------------------
(* The order of the deque.                                                 *)

\* A strict total order: what a deque without duplicates is.
Orders(order, S) ==
    /\ order \subseteq S \X S
    /\ \A u, v \in S :
         /\ u # v => <<u, v>> \in order \/ <<v, u>> \in order
         /\ ~(<<u, v>> \in order /\ <<v, u>> \in order)

LEMMA WithoutOrder ==
    ASSUME NEW S, NEW order, NEW us, Orders(order, S)
    PROVE  Orders(Without(order, us), S \ us)
BY DEF Orders, Without

LEMMA AtEndOrder ==
    ASSUME NEW S, NEW order, NEW u, u \notin S, Orders(order, S)
    PROVE  Orders(AtEnd(order, S, u), S \cup {u})
<1>1. ASSUME NEW v, NEW w
      PROVE  <<v, w>> \in AtEnd(order, S, u) <=> <<v, w>> \in order \/ (v \in S /\ w = u)
  BY DEF AtEnd
<1>2. AtEnd(order, S, u) \subseteq (S \cup {u}) \X (S \cup {u})
  BY DEF AtEnd, Orders
<1> QED
  BY <1>1, <1>2 DEF Orders

-----------------------------------------------------------------------------
(* The invariant.                                                          *)

LEMMA InitCore == Init => Core
<1> SUFFICES ASSUME Init PROVE Core
  OBVIOUS
<1> USE DEF Init
<1>1. TypeOK
  <2>1. breaker \in [Units -> Breaker]
    BY BreakerAssumption DEF Fresh, Breaker, CircuitState, MaxExponent
  <2>2. current \in Requests \cup {NoRequest} /\ heap \subseteq Requests
    OBVIOUS
  <2>3. /\ req \in [Requests -> [unit : Units, priority : Priorities, sequence : Nat]
                                 \cup {NoRequest}]
        /\ future \in [Requests -> {"none", "pending"} \cup Resolved]
        /\ left \in [Requests -> Int]
        /\ caller \in [Requests -> {"idle", "waiting", "ended"}]
    OBVIOUS
  <2> QED
    BY <2>1, <2>2, <2>3 DEF TypeOK
<1>2. Bookkeeping
  BY QueueAssumption DEF Bookkeeping, InHand
<1>3. SizeExact
  BY QueueAssumption, FS_EmptySet DEF SizeExact
<1>4. DequeAgrees
  BY DEF DequeAgrees
<1>5. NoLostWakeup
  BY DEF NoLostWakeup
<1> QED
  BY <1>1, <1>2, <1>3, <1>4, <1>5 DEF Core

LEMMA SubmitCore ==
    ASSUME Core, NEW r \in Requests, NEW u \in Units, NEW p \in Priorities,
           NEW t \in Timeouts, Submit(r, u, p, t)
    PROVE  Core'
<1> USE DEF Core
<1>1. r \notin heap /\ r # current /\ r # NoRequest
  BY QueueAssumption DEF Submit, Bookkeeping, InHand
<1>2. [unit |-> u, priority |-> p, sequence |-> sequence + 1] \in Request
  BY DEF Request, TypeOK
<1>3. TypeOK'
  <2>1. breaker' \in [Units -> Breaker]
    BY BreakerType DEF Submit, TypeOK
  <2>2. left' \in [Requests -> Int]
    BY QueueAssumption DEF Submit, TypeOK
  <2>3. req' \in [Requests -> Request \cup {NoRequest}]
    BY <1>2 DEF Submit, TypeOK, Request
  <2>4. ahead' \subseteq Units \X Units
    BY DEF Submit, TypeOK, AtEnd
  <2>5. future' \in [Requests -> {"none", "pending"} \cup Resolved]
        /\ caller' \in [Requests -> {"idle", "waiting", "ended"}]
    BY DEF Submit, TypeOK
  <2>6. keys' \subseteq Units /\ ring' \subseteq Units /\ heap' \subseteq Requests
    BY DEF Submit, TypeOK
  <2>7. total' \in Nat /\ sequence' \in Nat
    BY DEF Submit, TypeOK
  <2>8. /\ event' \in BOOLEAN /\ running' \in BOOLEAN
        /\ worker' \in {"none", "new", "loop", "wait", "bus", "done"}
        /\ current' \in Requests \cup {NoRequest} /\ busLeft' \in Nat
        /\ stopper' \in {"idle", "drain"} /\ drainLeft' \in Nat
    BY DEF Submit, TypeOK, workerVars, stopVars
  <2> QED
    BY <2>1, <2>2, <2>3, <2>4, <2>5, <2>6, <2>7, <2>8 DEF TypeOK, Request
<1>4. Bookkeeping'
  BY <1>1, <1>2 DEF Submit, Bookkeeping, InHand, TypeOK, workerVars
<1>5. SizeExact'
  <2>1. Cardinality(heap \cup {r}) = total + 1
    BY <1>1, AddOne DEF SizeExact, TypeOK
  <2>2. heap' = heap \cup {r} /\ total' = total + 1
        /\ (MaxQueueSize > 0 => total < MaxQueueSize)
    BY DEF Submit
  <2> QED
    BY <2>1, <2>2, QueueAssumption DEF SizeExact, TypeOK
<1>6. DequeAgrees'
  <2>1. req'[r].unit = u /\ \A q \in heap : req'[q] = req[q]
    BY <1>1 DEF Submit, TypeOK
  <2>2. CASE u \in keys
    BY <2>1, <2>2 DEF Submit, DequeAgrees
  <2>3. CASE u \notin keys
    BY <2>1, <2>3 DEF Submit, DequeAgrees, AtEnd
  <2> QED
    BY <2>2, <2>3
<1>7. NoLostWakeup'
  BY DEF Submit, NoLostWakeup
<1> QED
  BY <1>3, <1>4, <1>5, <1>6, <1>7

LEMMA CallerCore ==
    ASSUME Core, NEW r \in Requests, NEW u,
           (u \in Units /\ Refuse(r, u)) \/ Resume(r) \/ TimeOut(r) \/ CancelCaller(r)
    PROVE  Core'
<1> USE DEF Core
<1>1. CASE u \in Units /\ Refuse(r, u)
  <2>1. TypeOK'
    BY <1>1, BreakerType
       DEF Refuse, TypeOK, sizeVars, schedVars, workerVars, stopVars, callVars
  <2> QED
    BY <1>1, <2>1
       DEF Refuse, Bookkeeping, InHand, SizeExact, DequeAgrees, NoLostWakeup, sizeVars,
           schedVars, workerVars, stopVars, callVars
<1>2. CASE Resume(r)
  <2>1. TypeOK'
    BY <1>2 DEF Resume, TypeOK, sizeVars, schedVars, workerVars, stopVars
  <2> QED
    BY <1>2, <2>1
       DEF Resume, Bookkeeping, InHand, SizeExact, DequeAgrees, NoLostWakeup, sizeVars,
           schedVars, workerVars, stopVars, TypeOK
<1>3. CASE TimeOut(r)
  <2>1. TypeOK'
    BY <1>3 DEF TimeOut, TypeOK, Resolved, sizeVars, schedVars, workerVars, stopVars
  <2> QED
    BY <1>3, <2>1
       DEF TimeOut, Bookkeeping, InHand, SizeExact, DequeAgrees, NoLostWakeup, sizeVars,
           schedVars, workerVars, stopVars, TypeOK
<1>4. CASE CancelCaller(r)
  <2>1. TypeOK'
    BY <1>4 DEF CancelCaller, TypeOK, sizeVars, schedVars, workerVars, stopVars
  <2> QED
    BY <1>4, <2>1
       DEF CancelCaller, Bookkeeping, InHand, SizeExact, DequeAgrees, NoLostWakeup,
           sizeVars, schedVars, workerVars, stopVars, TypeOK
<1> QED
  BY <1>1, <1>2, <1>3, <1>4

\* What a sweep of _dequeue leaves, before anything is picked.
LEMMA SweepFacts ==
    ASSUME Core, Sweep
    PROVE  /\ Purged \subseteq heap /\ Kept \subseteq heap
           /\ Cardinality(Kept) = total - Cardinality(Purged)
           /\ breaker' \in [Units -> Breaker]
           /\ \A q \in Kept : req[q].unit \in ring \ Stale
<1>1. Purged \subseteq heap /\ Kept \subseteq heap /\ heap \subseteq Requests
  BY DEF Purged, Kept, Core, TypeOK
<1>2. Cardinality(Kept) = total - Cardinality(Purged)
  BY <1>1, DropMany DEF Kept, Core, SizeExact
<1>3. breaker' \in [Units -> Breaker]
  BY BreakerType DEF Sweep, Core, TypeOK
<1>4. ASSUME NEW q \in Kept PROVE req[q].unit \in ring \ Stale
  <2>1. q \in heap /\ q \notin Purged
    BY DEF Kept
  <2>2. q \in Queue(req[q].unit) /\ req[q].unit \in ring
    BY <2>1 DEF Queue, Core, DequeAgrees
  <2> QED
    BY <2>1, <2>2 DEF Stale
<1> QED
  BY <1>1, <1>2, <1>3, <1>4

LEMMA DequeueNoneCore ==
    ASSUME Core, DequeueNone
    PROVE  Core'
<1>1. /\ Purged \subseteq heap /\ Kept \subseteq heap
      /\ Cardinality(Kept) = total - Cardinality(Purged)
      /\ breaker' \in [Units -> Breaker]
      /\ \A q \in Kept : req[q].unit \in ring \ Stale
  BY SweepFacts DEF DequeueNone
<1>2. /\ heap' = Kept /\ total' = total - 0 - Cardinality(Purged)
      /\ keys' = keys \ Stale /\ ring' = ring \ Stale /\ ahead' = Without(ahead, Stale)
      /\ UNCHANGED <<sequence, current, busLeft, running, stopper, drainLeft,
                     req, future, left, caller>>
  BY DEF DequeueNone, stopVars, callVars
<1>3. Cardinality(Kept) \in Nat /\ (Cardinality(Kept) = 0 <=> Kept = {})
      /\ Cardinality(Purged) \in Nat
  BY <1>1, HeapFinite DEF Core, TypeOK
<1>4. total' \in Nat /\ total' = Cardinality(heap') /\ total' <= total
  BY <1>1, <1>2, <1>3 DEF Core, TypeOK
<1>5. /\ worker' \in {"loop", "wait", "done"} /\ event' \in BOOLEAN
      /\ worker' = "wait" => total' = 0
  <2>1. event \in BOOLEAN
    BY DEF Core, TypeOK
  <2>2. CASE running
    <3>1. event' = FALSE /\ worker' = (IF total' > 0 THEN "loop" ELSE "wait")
      BY <2>2, Zenon DEF DequeueNone
    <3>2. event' \in BOOLEAN
      BY <3>1, Zenon
    <3>3. worker' = (IF total' > 0 THEN "loop" ELSE "wait")
      BY <3>1, Zenon
    <3>4. worker' \in {"loop", "wait", "done"} /\ (worker' = "wait" => total' = 0)
      BY <1>4, <3>3
    <3> QED
      BY <3>2, <3>4
  <2>3. CASE ~running
    BY <2>1, <2>3 DEF DequeueNone
  <2> QED
    BY <2>2, <2>3
<1>6. TypeOK'
  <2>1. keys' \subseteq Units /\ ring' \subseteq Units /\ ahead' \subseteq Units \X Units
        /\ heap' \subseteq Requests
    BY <1>1, <1>2 DEF Core, TypeOK, Without
  <2> QED
    BY <1>1, <1>2, <1>4, <1>5, <2>1 DEF Core, TypeOK
<1>7. Bookkeeping'
  <2>1. worker = "loop" /\ worker' # "bus"
    BY <1>5 DEF DequeueNone
  <2> QED
    BY <1>1, <1>2, <2>1 DEF Core, Bookkeeping, InHand
<1>8. SizeExact'
  BY <1>4, QueueAssumption DEF Core, SizeExact, TypeOK
<1>9. DequeAgrees'
  BY <1>1, <1>2 DEF Core, DequeAgrees, Without
<1>10. NoLostWakeup'
  BY <1>2, <1>3, <1>4, <1>5 DEF NoLostWakeup
<1> QED
  BY <1>6, <1>7, <1>8, <1>9, <1>10 DEF Core

LEMMA ServeCore ==
    ASSUME Core, NEW r \in Requests, Serve(r)
    PROVE  Core'
<1> DEFINE u == req[r].unit
           others == ring \ (Stale \cup {u})
           rest == Without(ahead, Stale \cup {u})
<1>1. /\ Purged \subseteq heap /\ Kept \subseteq heap
      /\ Cardinality(Kept) = total - Cardinality(Purged)
      /\ breaker' \in [Units -> Breaker]
      /\ \A q \in Kept : req[q].unit \in ring \ Stale
  BY SweepFacts DEF Serve
<1>2. r \in Kept /\ u \in ring \ Stale
  BY <1>1 DEF Serve, Chosen, Candidates
<1>3. /\ heap' = Kept \ {r} /\ total' = total - 1 - Cardinality(Purged)
      /\ worker' = "bus" /\ current' = r
      /\ busLeft' = (IF left[r] > MinBusTicks THEN left[r] ELSE MinBusTicks)
      /\ UNCHANGED <<event, sequence, running, stopper, drainLeft, req, future, left, caller>>
  BY DEF Serve, stopVars, callVars
<1>4. \/ /\ keys' = keys \ Stale /\ ring' = ring \ Stale
         /\ ahead' = AtEnd(rest, others, u)
      \/ /\ \A q \in Kept \ {r} : req[q].unit # u
         /\ keys' = keys \ (Stale \cup {u}) /\ ring' = ring \ (Stale \cup {u})
         /\ ahead' = rest
  BY DEF Serve
<1>5. Cardinality(Kept \ {r}) = Cardinality(Kept) - 1 /\ Cardinality(Kept \ {r}) \in Nat
      /\ Cardinality(Purged) \in Nat
  BY <1>1, <1>2, DropOne, HeapFinite DEF Core, TypeOK
<1>6. total' \in Nat /\ total' = Cardinality(heap') /\ total' <= total
  BY <1>1, <1>3, <1>5 DEF Core, TypeOK
<1>7. Orders(ahead', ring')
  <2>1. Orders(rest, others)
    <3>1. Orders(ahead, ring)
      BY DEF Core, DequeAgrees, Orders
    <3> QED
      BY <3>1, WithoutOrder
  <2>2. Orders(AtEnd(rest, others, u), others \cup {u})
    BY <2>1, AtEndOrder
  <2>3. others \cup {u} = ring \ Stale
    BY <1>2
  <2> QED
    BY <1>4, <2>1, <2>2, <2>3
<1>8. TypeOK'
  <2>1. keys' \subseteq Units /\ ring' \subseteq Units /\ heap' \subseteq Requests
    BY <1>1, <1>3, <1>4 DEF Core, TypeOK
  <2>2. ahead' \subseteq Units \X Units
    BY <1>7, <2>1 DEF Orders, Core, TypeOK
  <2>3. busLeft' \in Nat
    BY <1>3 DEF Core, TypeOK, MinBusTicks
  <2>4. event' \in BOOLEAN /\ running' \in BOOLEAN /\ stopper' \in {"idle", "drain"}
        /\ drainLeft' \in Nat /\ sequence' \in Nat
    BY <1>3 DEF Core, TypeOK
  <2> QED
    BY <1>1, <1>3, <1>6, <2>1, <2>2, <2>3, <2>4 DEF Core, TypeOK
<1>9. Bookkeeping'
  <2>1. r \in heap /\ req[r] \in Request /\ future[r] # "none"
    BY <1>1, <1>2 DEF Core, Bookkeeping, InHand, TypeOK
  <2> QED
    BY <1>1, <1>3, <2>1 DEF Core, Bookkeeping, InHand
<1>10. SizeExact'
  BY <1>6, QueueAssumption DEF Core, SizeExact, TypeOK
<1>11. DequeAgrees'
  <2>1. keys' = ring'
    BY <1>4 DEF Core, DequeAgrees
  <2>2. \A q \in heap' : req'[q].unit \in ring'
    BY <1>1, <1>3, <1>4
  <2> QED
    BY <1>7, <2>1, <2>2 DEF DequeAgrees, Orders
<1>12. NoLostWakeup'
  BY <1>3 DEF NoLostWakeup
<1> QED
  BY <1>8, <1>9, <1>10, <1>11, <1>12 DEF Core

LEMMA WorkerCore ==
    ASSUME Core, Wake \/ Quit \/ BusOk \/ BusFails
    PROVE  Core'
<1> USE DEF Core
<1>1. CASE Wake \/ Quit
  <2>1. /\ worker' \in {"loop", "done"} /\ worker # "bus"
        /\ UNCHANGED <<running, event, total, keys, ring, ahead, heap, sequence, breaker,
                       current, busLeft, stopper, drainLeft, req, future, left, caller>>
    BY <1>1 DEF Wake, Quit, sizeVars, schedVars, stopVars, callVars
  <2> QED
    BY <2>1 DEF TypeOK, Bookkeeping, InHand, SizeExact, DequeAgrees, NoLostWakeup
<1>2. ASSUME NEW o \in {"result", "exception"}, NEW after \in SUBSET Breaker, BusEnds(o, after)
      PROVE  Core'
  <2>1. current \in Requests /\ req[current] \in Request
    BY <1>2 DEF BusEnds, Bookkeeping
  <2>2. breaker' \in [Units -> Breaker]
    BY <1>2, <2>1 DEF BusEnds, TypeOK, Request
  <2>3. future' \in [Requests -> {"none", "pending"} \cup Resolved]
    BY <1>2, <2>1 DEF BusEnds, TypeOK, Resolved
  <2>4. /\ worker' = "loop" /\ current' = NoRequest /\ busLeft' = 0 /\ worker = "bus"
        /\ UNCHANGED <<running, event, total, keys, ring, ahead, heap, sequence, stopper,
                       drainLeft, req, left, caller>>
    BY <1>2 DEF BusEnds, sizeVars, schedVars, stopVars
  <2>5. TypeOK'
    BY <2>2, <2>3, <2>4 DEF TypeOK
  <2>6. Bookkeeping'
    <3>1. \A r \in Requests : future'[r] = "none" => future[r] = "none"
      BY <1>2, <2>1 DEF BusEnds, TypeOK
    <3>2. \A r \in Requests : future[r] = "none" => future'[r] = "none" \/ r = current
      BY <1>2, <2>1 DEF BusEnds, TypeOK
    <3> QED
      BY <2>1, <2>4, <3>1, <3>2, QueueAssumption DEF Bookkeeping, InHand, TypeOK
  <2> QED
    BY <2>4, <2>5, <2>6 DEF SizeExact, DequeAgrees, NoLostWakeup
<1>3. CASE BusOk
  <2>1. current \in Requests /\ breaker[req[current].unit] \in Breaker
    BY <1>3 DEF BusOk, BusEnds, Bookkeeping, TypeOK, Request
  <2>2. {Fresh} \subseteq Breaker
    BY <2>1, BreakerType
  <2> QED
    BY <1>2, <1>3, <2>2 DEF BusOk
<1>4. CASE BusFails
  <2>1. current \in Requests /\ breaker[req[current].unit] \in Breaker
    BY <1>4 DEF BusFails, BusEnds, Bookkeeping, TypeOK, Request
  <2>2. Failed(breaker[req[current].unit]) \subseteq Breaker
    BY <2>1, BreakerType
  <2> QED
    BY <1>2, <1>4, <2>2 DEF BusFails
<1> QED
  BY <1>1, <1>3, <1>4

LEMMA LifecycleCore ==
    ASSUME Core, NoStrayWorker, Start \/ Stop \/ DrainExpires \/ Flush \/ Tick
    PROVE  Core'
<1> USE DEF Core
<1>1. CASE Start
  <2>1. worker = "none"
    BY <1>1, Zenon DEF Start, NoStrayWorker
  <2> QED
    BY <1>1, <2>1
       DEF Start, TypeOK, Bookkeeping, InHand, SizeExact, DequeAgrees, NoLostWakeup,
           sizeVars, schedVars, callVars
<1>2. CASE Stop
  <2>1. TypeOK'
    BY <1>2, QueueAssumption DEF Stop, TypeOK, sizeVars, schedVars, workerVars, callVars
  <2> QED
    BY <1>2, <2>1
       DEF Stop, Bookkeeping, InHand, SizeExact, DequeAgrees, NoLostWakeup, sizeVars,
           schedVars, workerVars, callVars
<1>3. CASE DrainExpires
  BY <1>3, QueueAssumption
     DEF DrainExpires, TypeOK, Bookkeeping, InHand, SizeExact, DequeAgrees,
         NoLostWakeup, sizeVars, schedVars, stopVars, callVars
<1>4. CASE Flush
  <2>1. future' \in [Requests -> {"none", "pending"} \cup Resolved]
        /\ \A r \in Requests : future'[r] = "none" <=> future[r] = "none"
    BY <1>4 DEF Flush, TypeOK, Resolved
  <2>2. /\ heap' = {} /\ total' = 0 /\ keys' = {} /\ ring' = {} /\ ahead' = {}
        /\ stopper' = "idle" /\ drainLeft' = 0 /\ worker' = "none" /\ worker = "done"
        /\ UNCHANGED <<running, event, sequence, breaker, current, busLeft, req, left, caller>>
    BY <1>4 DEF Flush
  <2>3. TypeOK'
    BY <2>1, <2>2 DEF TypeOK
  <2>4. Bookkeeping'
    BY <2>1, <2>2 DEF Bookkeeping, InHand
  <2>5. SizeExact'
    BY <2>2, QueueAssumption, FS_EmptySet DEF SizeExact
  <2>6. DequeAgrees' /\ NoLostWakeup'
    BY <2>2 DEF DequeAgrees, NoLostWakeup
  <2> QED
    BY <2>3, <2>4, <2>5, <2>6
<1>5. CASE Tick
  <2>1. breaker' \in [Units -> Breaker]
    BY <1>5, BreakerType DEF Tick, TypeOK
  <2>2. busLeft' \in Nat /\ drainLeft' \in Nat
    BY <1>5 DEF Tick, TypeOK, CountDown
  <2>3. left' \in [Requests -> Int]
    BY <1>5 DEF Tick, TypeOK
  <2>4. UNCHANGED <<event, total, heap, keys, ring, ahead, sequence, worker, current, running,
                    stopper, req, future, caller>>
    BY <1>5 DEF Tick, sizeVars, schedVars
  <2>5. TypeOK'
    BY <2>1, <2>2, <2>3, <2>4 DEF TypeOK
  <2> QED
    BY <2>4, <2>5 DEF Bookkeeping, InHand, SizeExact, DequeAgrees, NoLostWakeup
<1> QED
  BY <1>1, <1>2, <1>3, <1>4, <1>5

LEMMA NextCore ==
    ASSUME IInv, Next
    PROVE  Core'
<1>1. ASSUME NEW r \in Requests, NEW u \in Units, NEW p \in Priorities, NEW t \in Timeouts,
             Submit(r, u, p, t)
      PROVE  Core'
  BY <1>1, SubmitCore DEF IInv
<1>2. ASSUME NEW r \in Requests, NEW u \in Units, Refuse(r, u)
      PROVE  Core'
  BY <1>2, CallerCore DEF IInv
<1>3. ASSUME NEW r \in Requests, Resume(r) \/ TimeOut(r) \/ CancelCaller(r)
      PROVE  Core'
  BY <1>3, CallerCore DEF IInv
<1>4. ASSUME NEW r \in Requests, Serve(r)
      PROVE  Core'
  BY <1>4, ServeCore DEF IInv
<1>5. CASE Start \/ Stop \/ DrainExpires \/ Flush \/ Tick
  BY <1>5, LifecycleCore DEF IInv
<1>6. CASE Wake \/ Quit \/ BusOk \/ BusFails
  BY <1>6, WorkerCore DEF IInv
<1>7. CASE DequeueNone
  BY <1>7, DequeueNoneCore DEF IInv
<1> QED
  BY <1>1, <1>2, <1>3, <1>4, <1>5, <1>6, <1>7 DEF Next

LEMMA NextStray ==
    ASSUME NoStrayWorker, Next
    PROVE  NoStrayWorker'
<1> USE DEF NoStrayWorker
<1>1. ASSUME NEW r \in Requests, NEW u \in Units, NEW p \in Priorities, NEW t \in Timeouts,
             Submit(r, u, p, t)
      PROVE  NoStrayWorker'
  BY <1>1, Zenon DEF Submit, workerVars, stopVars
<1>2. ASSUME NEW r \in Requests, NEW u \in Units, Refuse(r, u)
      PROVE  NoStrayWorker'
  BY <1>2, Zenon DEF Refuse, workerVars, stopVars
<1>3. ASSUME NEW r \in Requests, Resume(r) \/ TimeOut(r) \/ CancelCaller(r)
      PROVE  NoStrayWorker'
  BY <1>3, Zenon DEF Resume, TimeOut, CancelCaller, workerVars, stopVars
<1>4. ASSUME NEW r \in Requests, Serve(r)
      PROVE  NoStrayWorker'
  <2>1. worker = "loop" /\ UNCHANGED <<running, stopper>>
    BY <1>4, Zenon DEF Serve, stopVars
  <2> QED BY <2>1, Zenon
<1>5. CASE Start
  BY <1>5, Zenon DEF Start
<1>6. CASE Stop
  BY <1>6, Zenon DEF Stop
<1>7. CASE DrainExpires
  <2>1. UNCHANGED <<running, stopper>> /\ stopper = "drain"
    BY <1>7, Zenon DEF DrainExpires, stopVars
  <2> QED BY <2>1, Zenon
<1>8. CASE Flush
  BY <1>8, Zenon DEF Flush
<1>9. CASE Tick
  BY <1>9, Zenon DEF Tick
<1>10. CASE Wake \/ Quit \/ DequeueNone \/ BusOk \/ BusFails
  <2>1. worker # "none" /\ UNCHANGED <<running, stopper>>
    BY <1>10, Zenon DEF Wake, Quit, DequeueNone, BusOk, BusFails, BusEnds, stopVars
  <2> QED BY <2>1, Zenon
<1> QED
  BY <1>1, <1>2, <1>3, <1>4, <1>5, <1>6, <1>7, <1>8, <1>9, <1>10 DEF Next

LEMMA InitInv == Init => IInv
<1>1. Init => NoStrayWorker
  BY DEF Init, NoStrayWorker
<1> QED
  BY <1>1, InitCore DEF IInv

LEMMA NextInv == IInv /\ [Next]_vars => IInv'
<1> SUFFICES ASSUME IInv, [Next]_vars PROVE IInv'
  OBVIOUS
<1>1. CASE UNCHANGED vars
  <2>1. Core'
    BY <1>1
       DEF vars, IInv, Core, TypeOK, Bookkeeping, InHand, SizeExact, DequeAgrees,
           NoLostWakeup
  <2>2. NoStrayWorker'
    BY <1>1, Zenon DEF vars, IInv, NoStrayWorker
  <2> QED
    BY <2>1, <2>2 DEF IInv
<1>2. CASE Next
  BY <1>2, NextCore, NextStray DEF IInv
<1> QED
  BY <1>1, <1>2

\* The inductive invariant holds in every state ModbusRequestQueue can reach.
THEOREM Invariance == Spec => []IInv
BY InitInv, NextInv, PTL DEF Spec

-----------------------------------------------------------------------------
(* The theorems.                                                           *)

\* The variables stay in their types: ModbusRequestQueue's counters never
\* become negative and its breakers never leave their three states.
THEOREM TypeCorrect == Spec => []TypeOK
<1>1. IInv => TypeOK BY DEF IInv, Core
<1> QED BY Invariance, <1>1, PTL

\* _total_size is the number of queued requests and respects max_queue_size
\* after any sequence of submits, cancellations, purges, stops and restarts.
THEOREM SizeAlwaysExact == Spec => []SizeExact
<1>1. IInv => SizeExact BY DEF IInv, Core
<1> QED BY Invariance, <1>1, PTL

\* _unit_queues and _round_robin never disagree, and no unit stands twice in
\* the deque.
THEOREM DequeAlwaysAgrees == Spec => []DequeAgrees
<1>1. IInv => DequeAgrees BY DEF IInv, Core
<1> QED BY Invariance, <1>1, PTL

\* The worker never sleeps over a request nobody will wake it for.
THEOREM NeverLostWakeup == Spec => []NoLostWakeup
<1>1. IInv => NoLostWakeup BY DEF IInv, Core
<1> QED BY Invariance, <1>1, PTL

-----------------------------------------------------------------------------
(* The queue implements BusPromise.                                        *)

Spent == { r \in Requests : future[r] # "none" /\ r \notin heap }

\* A step that moves neither a future nor a heap nor the bus is a stutter.
LEMMA Stutter ==
    ASSUME UNCHANGED <<future, heap, current>>
    PROVE  UNCHANGED Promise!vars
BY DEF Promise!vars

LEMMA CallsRefine ==
    ASSUME IInv, NEW r \in Requests, NEW u \in Units, NEW p \in Priorities, NEW t \in Timeouts,
           Submit(r, u, p, t)
    PROVE  Promise!Accept(r)
<1>1. future[r] = "none" /\ r \notin heap /\ future \in [Requests -> {"none", "pending"} \cup Resolved]
  BY DEF Submit, IInv, Core, Bookkeeping, InHand, TypeOK
<1>2. future' = [future EXCEPT ![r] = "pending"] /\ heap' = heap \cup {r} /\ current' = current
  BY DEF Submit, workerVars
<1>3. Spent' = Spent
  BY <1>1, <1>2 DEF Spent
<1> QED
  BY <1>1, <1>2, <1>3 DEF Promise!Accept, Spent

LEMMA ServeRefines ==
    ASSUME IInv, NEW r \in Requests, NEW d, d = Purged, Serve(r)
    PROVE  Promise!Put(r, d)
<1>1. r \in Kept /\ Pending(r)
  BY DequeuedIsLive DEF Serve, Chosen, Candidates, IInv, Core
<1>2. current = NoRequest /\ r \in heap /\ Purged \subseteq heap
  BY <1>1 DEF Serve, IInv, Core, Bookkeeping, Kept, Purged
<1>3. \A q \in Purged : future[q] \in Resolved
  BY DEF Purged, Done
<1>4. heap' = Kept \ {r} /\ current' = r /\ future' = future
  BY DEF Serve, callVars
<1>5. Spent' = Spent \cup Purged \cup {r}
  <2>1. \A q \in heap : q \in Requests /\ future[q] # "none"
    BY DEF IInv, Core, Bookkeeping, InHand, TypeOK
  <2> QED
    BY <1>1, <1>2, <1>4, <2>1 DEF Spent, Kept
<1> QED
  BY <1>1, <1>2, <1>3, <1>4, <1>5
     DEF Promise!Put, Promise!Resolved, Resolved, Spent, Pending

LEMMA DequeueNoneRefines ==
    ASSUME IInv, NEW d, d = Purged, DequeueNone
    PROVE  Promise!Drop(d)
<1>1. \A q \in Purged : future[q] \in Resolved
  BY DEF Purged, Done
<1>2. heap' = heap \ Purged /\ future' = future /\ current' = current
  BY DEF DequeueNone, Kept, callVars
<1>3. Spent' = Spent \cup Purged
  <2>1. \A q \in heap : q \in Requests /\ future[q] # "none"
    BY DEF IInv, Core, Bookkeeping, InHand, TypeOK
  <2> QED
    BY <1>2, <2>1 DEF Spent, Purged
<1> QED
  BY <1>1, <1>2, <1>3 DEF Promise!Drop, Promise!Resolved, Resolved, Spent

LEMMA BusRefines ==
    ASSUME IInv, NEW o \in {"result", "exception"}, NEW after, BusEnds(o, after)
    PROVE  Promise!Answer
<1>1. current \in Requests /\ current # NoRequest /\ current \notin heap
      /\ future[current] # "none"
  BY QueueAssumption DEF BusEnds, IInv, Core, Bookkeeping, InHand
<1>2. /\ current' = NoRequest /\ heap' = heap
      /\ future' = [future EXCEPT ![current] = IF @ = "pending" THEN o ELSE @]
  BY DEF BusEnds, sizeVars
<1>3. Spent' = Spent
  BY <1>1, <1>2 DEF Spent, IInv, Core, TypeOK
<1> QED
  BY <1>1, <1>2, <1>3 DEF Promise!Answer, Spent

LEMMA FlushRefines ==
    ASSUME IInv, NEW d, d = heap, Flush
    PROVE  Promise!Close(d)
<1>1. current = NoRequest
  BY DEF Flush, IInv, Core, Bookkeeping
<1>2. /\ heap' = {} /\ current' = current
      /\ future' = [r \in Requests |->
                      IF r \in heap /\ future[r] = "pending" THEN "cancelled" ELSE future[r]]
  BY DEF Flush
<1>3. \A q \in heap : q \in Requests /\ future[q] # "none"
  BY DEF IInv, Core, Bookkeeping, InHand, TypeOK
<1>4. \A q \in Requests : future'[q] = "none" <=> future[q] = "none"
  BY <1>2
<1>5. Spent' = Spent \cup heap
  BY <1>2, <1>3, <1>4 DEF Spent
<1> QED
  BY <1>1, <1>2, <1>5 DEF Promise!Close, Spent

LEMMA TimeOutRefines ==
    ASSUME IInv, NEW r \in Requests, TimeOut(r)
    PROVE  Promise!Cancel(r) \/ UNCHANGED Promise!vars
<1>1. heap' = heap /\ current' = current
      /\ future' = [future EXCEPT ![r] = IF @ = "pending" THEN "cancelled" ELSE @]
      /\ future \in [Requests -> {"none", "pending"} \cup Resolved]
  BY DEF TimeOut, sizeVars, workerVars, IInv, Core, TypeOK
<1>2. CASE future[r] = "pending"
  <2>1. Spent' = Spent
    BY <1>1, <1>2 DEF Spent
  <2> QED
    BY <1>1, <1>2, <2>1 DEF Promise!Cancel, Spent
<1>3. CASE future[r] # "pending"
  <2>1. future' = future
    BY <1>1, <1>3
  <2> QED
    BY <1>1, <2>1, Stutter
<1> QED
  BY <1>2, <1>3

LEMMA DrainRefines ==
    ASSUME IInv, DrainExpires
    PROVE  Promise!Abandon \/ UNCHANGED Promise!vars
<1>1. heap' = heap /\ future' = future /\ current' = NoRequest
  BY DEF DrainExpires, sizeVars, callVars
<1>2. Spent' = Spent
  BY <1>1 DEF Spent
<1> QED
  BY <1>1, <1>2, Stutter DEF Promise!Abandon, Spent

LEMMA StepRefines ==
    ASSUME IInv, [Next]_vars
    PROVE  [Promise!Next]_(Promise!vars)
<1>1. CASE UNCHANGED vars
  BY <1>1, Stutter DEF vars
<1>2. ASSUME NEW r \in Requests, NEW u \in Units, NEW p \in Priorities, NEW t \in Timeouts,
             Submit(r, u, p, t)
      PROVE  Promise!Next
  BY <1>2, CallsRefine DEF Promise!Next
<1>3. ASSUME NEW r \in Requests, NEW u \in Units, Refuse(r, u)
      PROVE  UNCHANGED Promise!vars
  BY <1>3, Stutter DEF Refuse, sizeVars, workerVars, callVars
<1>4. ASSUME NEW r \in Requests, Resume(r) \/ CancelCaller(r)
      PROVE  UNCHANGED Promise!vars
  BY <1>4, Stutter DEF Resume, CancelCaller, sizeVars, workerVars
<1>5. ASSUME NEW r \in Requests, TimeOut(r)
      PROVE  Promise!Next \/ UNCHANGED Promise!vars
  BY <1>5, TimeOutRefines DEF Promise!Next
<1>6. ASSUME NEW r \in Requests, Serve(r)
      PROVE  Promise!Next
  <2>1. PICK d \in SUBSET Requests : d = Purged
    BY DEF Purged, IInv, Core, TypeOK
  <2>2. Promise!Put(r, d)
    BY <1>6, <2>1, ServeRefines
  <2> QED
    BY <2>2 DEF Promise!Next
<1>7. CASE DequeueNone
  <2>1. PICK d \in SUBSET Requests : d = Purged
    BY DEF Purged, IInv, Core, TypeOK
  <2>2. Promise!Drop(d)
    BY <1>7, <2>1, DequeueNoneRefines
  <2> QED
    BY <2>2 DEF Promise!Next
<1>8. CASE Start \/ Stop \/ Wake \/ Quit \/ Tick
  BY <1>8, Stutter DEF Start, Stop, Wake, Quit, Tick, sizeVars, workerVars, callVars
<1>9. CASE DrainExpires
  BY <1>9, DrainRefines DEF Promise!Next
<1>10. CASE Flush
  <2>1. PICK d \in SUBSET Requests : d = heap
    BY DEF IInv, Core, TypeOK
  <2>2. Promise!Close(d)
    BY <1>10, <2>1, FlushRefines
  <2> QED
    BY <2>2 DEF Promise!Next
<1>11. CASE BusOk \/ BusFails
  BY <1>11, BusRefines DEF BusOk, BusFails, Promise!Next
<1> QED
  BY <1>1, <1>2, <1>3, <1>4, <1>5, <1>6, <1>7, <1>8, <1>9, <1>10, <1>11 DEF Next

\* Through any queueing, purging, stopping and restarting, a request is put on
\* the bus at most once, alone, and only while its caller has no answer yet.
THEOREM Implements == Spec => KeepsPromise
<1>1. Init => Promise!Init
  BY DEF Init, Promise!Init
<1>2. IInv /\ [Next]_vars => [Promise!Next]_(Promise!vars)
  BY StepRefines
<1> QED
  BY Invariance, <1>1, <1>2, PTL DEF Spec, KeepsPromise, Promise!Spec

-----------------------------------------------------------------------------
(* Every heap with a request to serve has a top.                           *)

\* A strict partial order of a finite set has a minimal element: its initial
\* segments are finite sets, which inclusion orders well.
LEMMA HasMinimal ==
    ASSUME NEW S, IsFiniteSet(S), S # {}, NEW R,
           \A x, y, z \in S : <<x, y>> \in R /\ <<y, z>> \in R => <<x, z>> \in R,
           \A x \in S : <<x, x>> \notin R
    PROVE  \E x \in S : \A y \in S : <<y, x>> \notin R
<1> DEFINE Upto(x) == { y \in S : y = x \/ <<y, x>> \in R }
           T == { Upto(x) : x \in S }
<1>1. T \subseteq FiniteSubsetsOf(S)
  <2> SUFFICES ASSUME NEW x \in S PROVE Upto(x) \in FiniteSubsetsOf(S)
    OBVIOUS
  <2>1. Upto(x) \in SUBSET S
    OBVIOUS
  <2>2. IsFiniteSet(Upto(x))
    BY <2>1, FS_Subset
  <2> QED
    BY <2>1, <2>2 DEF FiniteSubsetsOf
<1>2. T # {}
  <2>1. PICK x : x \in S
    OBVIOUS
  <2>2. Upto(x) \in T
    BY <2>1
  <2> QED
    BY <2>2
<1>3. PICK U \in T : \A V \in T : <<V, U>> \notin StrictSubsetOrdering(S)
  BY <1>1, <1>2, WFMin, FS_StrictSubsetOrderingWellFounded
<1>4. PICK x \in S : U = Upto(x)
  OBVIOUS
<1>5. ASSUME NEW y \in S, <<y, x>> \in R PROVE FALSE
  <2>1. Upto(y) \subseteq Upto(x)
    BY <1>5
  <2>2. x \notin Upto(y) /\ x \in Upto(x)
    BY <1>5
  <2>3. <<Upto(y), U>> \in StrictSubsetOrdering(S)
    BY <1>4, <2>1, <2>2 DEF StrictSubsetOrdering
  <2> QED
    BY <1>3, <2>3
<1> QED
  BY <1>5

\* _sequence gives every queued request a number of its own, so ModbusRequest's
\* order is total.
Sequenced ==
    \A r \in heap : /\ req[r].sequence <= sequence
                    /\ \A q \in heap : q # r => req[q].sequence # req[r].sequence

LEMMA BeforeOrders ==
    ASSUME Bookkeeping, Sequenced
    PROVE  /\ \A x, y, z \in heap : Before(x, y) /\ Before(y, z) => Before(x, z)
           /\ \A x \in heap : ~Before(x, x)
           /\ \A x, y \in heap : x # y => Before(x, y) \/ Before(y, x)
           /\ \A x, y \in heap : Before(x, y) => req[x].priority <= req[y].priority
<1>1. \A x \in heap : req[x].priority \in Int /\ req[x].sequence \in Int
  BY DEF Bookkeeping, Request, Priorities, READ, WRITE
<1>2. \A x, y \in heap : x # y => req[x].sequence # req[y].sequence
  BY DEF Sequenced
<1> QED
  BY <1>1, <1>2 DEF Before

\* A request that _dequeue keeps and whose breaker is not open has a candidate of
\* its unit at or before it.
LEMMA CandidateExists ==
    ASSUME Core, Sequenced, NEW q \in Kept, Allows(breaker[req[q].unit])
    PROVE  \E c \in Candidates : /\ req[c].unit = req[q].unit
                                 /\ req[c].priority <= req[q].priority
<1> DEFINE K == { k \in Kept : /\ req[k].unit = req[q].unit
                               /\ k = q \/ Before(k, q) }
           R == { p \in K \X K : Before(p[1], p[2]) }
<1>1. Kept \subseteq heap /\ heap \subseteq Requests
  BY DEF Kept, Core, TypeOK
<1>2. IsFiniteSet(K) /\ K # {} /\ K \subseteq heap
  BY <1>1, HeapFinite
<1>3. /\ \A x, y, z \in heap : Before(x, y) /\ Before(y, z) => Before(x, z)
      /\ \A x \in heap : ~Before(x, x)
      /\ \A x, y \in heap : x # y => Before(x, y) \/ Before(y, x)
      /\ \A x, y \in heap : Before(x, y) => req[x].priority <= req[y].priority
  BY BeforeOrders DEF Core
<1>4. \A x, y \in K : <<x, y>> \in R <=> Before(x, y)
  OBVIOUS
<1>5. PICK c \in K : \A y \in K : ~Before(y, c)
  <2>1. \A x, y, z \in K : <<x, y>> \in R /\ <<y, z>> \in R => <<x, z>> \in R
    BY <1>2, <1>3, <1>4
  <2>2. \A x \in K : <<x, x>> \notin R
    BY <1>2, <1>3, <1>4
  <2> HIDE DEF K, R
  <2> QED
    BY <1>2, <1>4, <2>1, <2>2, HasMinimal
<1>6. \A k \in Kept \ {c} : req[k].unit = req[c].unit => Before(c, k)
  BY <1>1, <1>2, <1>3, <1>5
<1>7. c \in Candidates
  BY <1>1, <1>5, <1>6 DEF Candidates, Core, DequeAgrees
<1>8. req[c].priority <= req[q].priority
  <2>1. req[q].priority \in Int
    BY <1>1 DEF Core, Bookkeeping, Request, Priorities, READ, WRITE
  <2> QED
    BY <1>1, <1>2, <1>3, <1>5, <2>1
<1> QED
  BY <1>5, <1>7, <1>8

-----------------------------------------------------------------------------
(* What the order of service needs.                                        *)

\* While a request is on the bus its unit's breaker is not open: only its own
\* answer could open it.
OnBusNotOpen == worker = "bus" => breaker[req[current].unit].state # "open"

Ordered == IInv /\ Sequenced /\ OnBusNotOpen

LEMMA ObserveKeeps ==
    ASSUME NEW b \in Breaker, b.state # "open"
    PROVE  Observe(b) = b /\ Elapse(b).state # "open"
BY DEF Observe, Elapse, Breaker

LEMMA InitOrdered == Init => Ordered
<1>1. Init => Sequenced /\ OnBusNotOpen
  BY DEF Init, Sequenced, OnBusNotOpen
<1> QED
  BY <1>1, InitInv DEF Ordered

LEMMA SubmitOrdered ==
    ASSUME Ordered, NEW r \in Requests, NEW u \in Units, NEW p \in Priorities,
           NEW t \in Timeouts, Submit(r, u, p, t)
    PROVE  Sequenced' /\ OnBusNotOpen'
<1> USE DEF Ordered, IInv, Core
<1>1. r \notin heap /\ r # current /\ heap \subseteq Requests /\ sequence \in Nat
  BY DEF Submit, Bookkeeping, InHand, TypeOK
<1>2. /\ heap' = heap \cup {r} /\ sequence' = sequence + 1
      /\ req'[r].sequence = sequence + 1
      /\ \A q \in Requests \ {r} : req'[q] = req[q]
      /\ UNCHANGED <<worker, current>>
  BY DEF Submit, TypeOK, workerVars
<1>3. Sequenced'
  <2>1. \A q \in heap : req[q].sequence \in Nat /\ req[q].sequence <= sequence
    BY DEF Sequenced, Bookkeeping, Request
  <2>2. \A q \in heap : req'[q].sequence = req[q].sequence
    BY <1>1, <1>2
  <2>3. \A q \in heap' : req'[q].sequence <= sequence'
    BY <1>1, <1>2, <2>1, <2>2
  <2>4. \A q, s \in heap : q # s => req'[q].sequence # req'[s].sequence
    BY <2>2 DEF Sequenced
  <2>5. \A q \in heap : req'[q].sequence # req'[r].sequence
    BY <1>1, <1>2, <2>1, <2>2
  <2> QED
    BY <1>2, <2>3, <2>4, <2>5 DEF Sequenced
<1>4. OnBusNotOpen'
  <2> SUFFICES ASSUME worker = "bus" PROVE breaker'[req[current].unit].state # "open"
    BY <1>1, <1>2 DEF OnBusNotOpen, Bookkeeping
  <2>1. req[current].unit \in Units /\ breaker[req[current].unit] \in Breaker
    BY DEF Bookkeeping, Request, TypeOK
  <2>2. breaker'[req[current].unit] \in {breaker[req[current].unit], Observe(breaker[req[current].unit])}
    BY <2>1 DEF Submit, TypeOK
  <2> QED
    BY <2>1, <2>2, ObserveKeeps DEF OnBusNotOpen
<1> QED
  BY <1>3, <1>4

\* Taking requests off the heaps keeps their numbers apart.
LEMMA FewerSequenced ==
    ASSUME Sequenced, heap' \subseteq heap, UNCHANGED <<req, sequence>>
    PROVE  Sequenced'
BY DEF Sequenced

LEMMA ServeOrdered ==
    ASSUME Ordered, NEW r \in Requests, Serve(r)
    PROVE  Sequenced' /\ OnBusNotOpen'
<1> USE DEF Ordered, IInv
<1>1. heap' = Kept \ {r} /\ current' = r /\ UNCHANGED <<req, sequence>> /\ Sweep
  BY DEF Serve, callVars
<1>2. r \in Kept /\ Allows(breaker[req[r].unit])
  BY DEF Serve, Chosen, Candidates
<1>3. req[r].unit \in ring \ Stale /\ ring \subseteq Units
  BY <1>1, <1>2, SweepFacts DEF Core, TypeOK
<1>4. breaker'[req[r].unit] = Observe(breaker[req[r].unit])
  BY <1>1, <1>3 DEF Sweep
<1>5. OnBusNotOpen'
  BY <1>1, <1>2, <1>4 DEF OnBusNotOpen, Allows
<1>6. Sequenced'
  BY <1>1, FewerSequenced DEF Kept
<1> QED
  BY <1>5, <1>6

LEMMA NextOrdered == Ordered /\ [Next]_vars => Ordered'
<1> SUFFICES ASSUME Ordered, [Next]_vars PROVE Sequenced' /\ OnBusNotOpen'
  BY NextInv DEF Ordered
<1> USE DEF Ordered
<1>1. ASSUME NEW r \in Requests, NEW u \in Units, NEW p \in Priorities, NEW t \in Timeouts,
             Submit(r, u, p, t)
      PROVE  Sequenced' /\ OnBusNotOpen'
  BY <1>1, SubmitOrdered
<1>2. ASSUME NEW r \in Requests, NEW u \in Units, Refuse(r, u)
      PROVE  Sequenced' /\ OnBusNotOpen'
  <2>1. UNCHANGED <<heap, req, sequence, worker, current>>
    BY <1>2 DEF Refuse, sizeVars, workerVars, callVars
  <2>2. CASE worker = "bus"
    <3>1. req[current].unit \in Units /\ breaker[req[current].unit] \in Breaker
      BY <2>2 DEF IInv, Core, Bookkeeping, Request, TypeOK
    <3>2. breaker'[req[current].unit]
            \in {breaker[req[current].unit], Observe(breaker[req[current].unit])}
      BY <1>2, <3>1 DEF Refuse, IInv, Core, TypeOK
    <3> QED
      BY <2>1, <2>2, <3>1, <3>2, ObserveKeeps DEF OnBusNotOpen, Sequenced
  <2>3. CASE worker # "bus"
    BY <2>1, <2>3 DEF OnBusNotOpen, Sequenced
  <2> QED
    BY <2>2, <2>3
<1>3. ASSUME NEW r \in Requests, Resume(r) \/ TimeOut(r) \/ CancelCaller(r)
      PROVE  Sequenced' /\ OnBusNotOpen'
  BY <1>3
     DEF Resume, TimeOut, CancelCaller, sizeVars, workerVars, Sequenced, OnBusNotOpen
<1>4. ASSUME NEW r \in Requests, Serve(r)
      PROVE  Sequenced' /\ OnBusNotOpen'
  BY <1>4, ServeOrdered
<1>5. CASE DequeueNone
  <2>1. heap' = Kept /\ worker' # "bus" /\ UNCHANGED <<req, sequence>>
    BY <1>5 DEF DequeueNone, callVars, AfterClear
  <2> QED
    BY <2>1, FewerSequenced DEF Kept, OnBusNotOpen
<1>6. CASE Flush
  BY <1>6 DEF Flush, Sequenced, OnBusNotOpen
<1>7. CASE Start
  <2>1. heap' = heap /\ worker' # "bus" /\ UNCHANGED <<req, sequence>>
    BY <1>7 DEF Start, sizeVars, callVars
  <2> QED
    BY <2>1, FewerSequenced DEF OnBusNotOpen
<1>8. CASE Stop
  BY <1>8 DEF Stop, sizeVars, workerVars, callVars, Sequenced, OnBusNotOpen
<1>9. CASE DrainExpires \/ Wake \/ Quit \/ BusOk \/ BusFails
  <2>1. heap' = heap /\ worker' # "bus" /\ UNCHANGED <<req, sequence>>
    BY <1>9 DEF DrainExpires, Wake, Quit, BusOk, BusFails, BusEnds, sizeVars, callVars
  <2> QED
    BY <2>1, FewerSequenced DEF OnBusNotOpen
<1>10. CASE Tick
  <2>1. UNCHANGED <<heap, req, sequence, worker, current>>
    BY <1>10 DEF Tick, sizeVars
  <2>2. CASE worker = "bus"
    <3>1. req[current].unit \in Units /\ breaker[req[current].unit] \in Breaker
      BY <2>2 DEF IInv, Core, Bookkeeping, Request, TypeOK
    <3>2. breaker'[req[current].unit] = Elapse(breaker[req[current].unit])
      BY <1>10, <3>1 DEF Tick
    <3> QED
      BY <2>1, <2>2, <3>1, <3>2, ObserveKeeps DEF OnBusNotOpen, Sequenced
  <2>3. CASE worker # "bus"
    BY <2>1, <2>3 DEF OnBusNotOpen, Sequenced
  <2> QED
    BY <2>2, <2>3
<1>11. CASE UNCHANGED vars
  BY <1>11 DEF vars, Sequenced, OnBusNotOpen
<1> QED
  BY <1>1, <1>2, <1>3, <1>4, <1>5, <1>6, <1>7, <1>8, <1>9, <1>10, <1>11 DEF Next

\* The order of the heaps is total and the breaker of the unit on the bus is never open.
THEOREM OrderInvariance == Spec => []Ordered
BY InitOrdered, NextOrdered, PTL DEF Spec

-----------------------------------------------------------------------------
(* What a step may do.                                                     *)

\* Only the worker's pick puts a request on the bus.
LEMMA OnlyServe ==
    ASSUME IInv, Next, NEW r \in Requests, current' = r, current # r
    PROVE  Serve(r) /\ current = NoRequest
<1>1. r # NoRequest
  BY QueueAssumption
<1>2. ASSUME NEW q \in Requests, NEW u \in Units, NEW p \in Priorities, NEW t \in Timeouts,
             Submit(q, u, p, t)
      PROVE  FALSE
  BY <1>2 DEF Submit, workerVars
<1>3. ASSUME NEW q \in Requests, NEW u \in Units, Refuse(q, u)
      PROVE  FALSE
  BY <1>3 DEF Refuse, workerVars
<1>4. ASSUME NEW q \in Requests, Resume(q) \/ TimeOut(q) \/ CancelCaller(q)
      PROVE  FALSE
  BY <1>4 DEF Resume, TimeOut, CancelCaller, workerVars
<1>5. CASE Start \/ Stop \/ DrainExpires \/ Flush \/ Tick
  BY <1>1, <1>5 DEF Start, Stop, DrainExpires, Flush, Tick, workerVars
<1>6. CASE Wake \/ Quit \/ DequeueNone \/ BusOk \/ BusFails
  BY <1>1, <1>6 DEF Wake, Quit, DequeueNone, BusOk, BusFails, BusEnds
<1>7. Serve(r)
  <2>1. PICK q \in Requests : Serve(q)
    BY <1>2, <1>3, <1>4, <1>5, <1>6, Zenon DEF Next
  <2>2. q = r
    BY <2>1 DEF Serve
  <2> QED
    BY <2>1, <2>2
<1>8. current = NoRequest
  BY <1>7 DEF Serve, IInv, Core, Bookkeeping
<1> QED
  BY <1>7, <1>8

\* What the properties of the order of service ask of one step.
ServesUrgent ==
    \A r \in Requests :
      current' = r /\ current # r =>
        \A q \in heap : Pending(q) /\ Allows(breaker[req[q].unit])
                          => req[r].priority <= req[q].priority

LEMMA ServesUrgentStep == Ordered /\ [Next]_vars => ServesUrgent
<1> SUFFICES ASSUME Ordered, [Next]_vars, NEW r \in Requests, current' = r, current # r,
                    NEW q \in heap, Pending(q), Allows(breaker[req[q].unit])
             PROVE  req[r].priority <= req[q].priority
  BY DEF ServesUrgent
<1> USE DEF Ordered
<1>1. Next
  BY DEF vars
<1>2. r \in Chosen
  BY <1>1, OnlyServe DEF Serve
<1>3. q \in Kept
  BY DEF Kept, Purged, Pending, Done, Resolved
<1>4. PICK c \in Candidates : req[c].unit = req[q].unit /\ req[c].priority <= req[q].priority
  BY <1>3, CandidateExists DEF IInv
<1>5. r \in heap /\ c \in heap
  BY <1>2, <1>4 DEF Chosen, Candidates, Kept
<1>6. \A x \in heap : req[x].priority \in Int
  BY DEF IInv, Core, Bookkeeping, Request, Priorities, READ, WRITE
<1>7. c = r \/ req[r].priority <= req[c].priority
  <2>1. c = r \/ req[r].priority < req[c].priority \/ req[r].priority = req[c].priority
    BY <1>2, <1>4, Zenon DEF Chosen
  <2> QED
    BY <1>5, <1>6, <2>1
<1> QED
  BY <1>4, <1>5, <1>6, <1>7

\* A step that leaves a request without an answer out of the queue.
Abandons ==
    \A r \in Requests :
      InHand(r) /\ ~InHand(r)' =>
        \/ future'[r] \in Resolved
        \/ stopper = "drain" /\ drainLeft = 0

LEMMA AbandonsStep == IInv /\ [Next]_vars => Abandons
<1> SUFFICES ASSUME IInv, [Next]_vars PROVE Abandons
  OBVIOUS
<1>1. ASSUME UNCHANGED <<heap, current>> PROVE Abandons
  BY <1>1 DEF Abandons, InHand
<1>2. ASSUME NEW r \in Requests, NEW u \in Units, NEW p \in Priorities, NEW t \in Timeouts,
             Submit(r, u, p, t)
      PROVE  Abandons
  BY <1>2 DEF Submit, workerVars, Abandons, InHand
<1>3. ASSUME NEW r \in Requests, NEW u \in Units, Refuse(r, u)
      PROVE  Abandons
  BY <1>1, <1>3 DEF Refuse, sizeVars, workerVars
<1>4. ASSUME NEW r \in Requests, Resume(r) \/ TimeOut(r) \/ CancelCaller(r)
      PROVE  Abandons
  BY <1>1, <1>4 DEF Resume, TimeOut, CancelCaller, sizeVars, workerVars
<1>5. CASE Start \/ Stop \/ Wake \/ Quit \/ Tick
  BY <1>1, <1>5 DEF Start, Stop, Wake, Quit, Tick, sizeVars, workerVars
<1>6. \A q \in Purged : future[q] \in Resolved
  BY DEF Purged, Done
<1>7. ASSUME NEW r \in Requests, Serve(r)
      PROVE  Abandons
  <2>1. heap' = Kept \ {r} /\ current' = r /\ current = NoRequest /\ future' = future
    BY <1>7 DEF Serve, callVars, IInv, Core, Bookkeeping
  <2> QED
    BY <1>6, <2>1, QueueAssumption DEF Abandons, InHand, Kept
<1>8. CASE DequeueNone
  <2>1. heap' = Kept /\ current' = current /\ future' = future
    BY <1>8 DEF DequeueNone, callVars
  <2> QED
    BY <1>6, <2>1 DEF Abandons, InHand, Kept
<1>9. CASE Flush
  <2>1. /\ heap' = {} /\ current' = current
        /\ \A r \in heap : future'[r] = Resolve(future[r], "cancelled")
    BY <1>9 DEF Flush, IInv, Core, TypeOK
  <2>2. \A r \in heap : future[r] \in {"pending"} \cup Resolved
    BY DEF IInv, Core, TypeOK, Bookkeeping, InHand
  <2> QED
    BY <2>1, <2>2 DEF Abandons, InHand, Resolved
<1>10. CASE DrainExpires
  BY <1>10 DEF DrainExpires, Abandons
<1>11. ASSUME NEW o \in {"result", "exception"}, NEW after, BusEnds(o, after)
       PROVE  Abandons
  <2>1. current \in Requests /\ future[current] \in {"pending"} \cup Resolved
    BY <1>11 DEF BusEnds, IInv, Core, TypeOK, Bookkeeping, InHand
  <2>2. heap' = heap /\ future'[current] = Resolve(future[current], o)
    BY <1>11, <2>1 DEF BusEnds, sizeVars, IInv, Core, TypeOK
  <2> QED
    BY <2>1, <2>2 DEF Abandons, InHand, Resolved
<1>12. CASE BusOk \/ BusFails
  BY <1>11, <1>12 DEF BusOk, BusFails
<1>13. CASE UNCHANGED vars
  BY <1>1, <1>13 DEF vars
<1> QED
  BY <1>2, <1>3, <1>4, <1>5, <1>7, <1>8, <1>9, <1>10, <1>12, <1>13 DEF Next

\* One step of a breaker along the diagram of class CircuitBreaker.
Moves(b, c) ==
    b.state = "open" /\ b # c => \/ c = Elapse(b)
                                 \/ c.state = "half_open" /\ b.left = 0

FollowsDiagram == \A u \in Units : Moves(breaker[u], breaker'[u])

LEMMA FollowsDiagramStep == Ordered /\ [Next]_vars => FollowsDiagram
<1> SUFFICES ASSUME Ordered, [Next]_vars, NEW u \in Units
             PROVE  Moves(breaker[u], breaker'[u])
  BY DEF FollowsDiagram
<1> USE DEF Ordered, IInv
<1>1. breaker \in [Units -> Breaker] /\ breaker[u] \in Breaker
  BY DEF Core, TypeOK
<1>2. ASSUME NEW b \in Breaker PROVE Moves(b, b) /\ Moves(b, Observe(b)) /\ Moves(b, Elapse(b))
  BY DEF Moves, Observe, Breaker
<1>3. ASSUME breaker'[u] \in {breaker[u], Observe(breaker[u]), Elapse(breaker[u])}
      PROVE  Moves(breaker[u], breaker'[u])
  BY <1>1, <1>2, <1>3
<1>4. ASSUME NEW r \in Requests, NEW v \in Units, NEW p \in Priorities, NEW t \in Timeouts,
             Submit(r, v, p, t)
      PROVE  Moves(breaker[u], breaker'[u])
  BY <1>1, <1>3, <1>4 DEF Submit
<1>5. ASSUME NEW r \in Requests, Resume(r) \/ TimeOut(r) \/ CancelCaller(r)
      PROVE  Moves(breaker[u], breaker'[u])
  BY <1>3, <1>5 DEF Resume, TimeOut, CancelCaller
<1>6. CASE Start \/ Stop \/ DrainExpires \/ Flush \/ Wake \/ Quit
  BY <1>3, <1>6 DEF Start, Stop, DrainExpires, Flush, Wake, Quit
<1>7. ASSUME Sweep PROVE breaker'[u] \in {breaker[u], Observe(breaker[u])}
  BY <1>7 DEF Sweep
<1>8. ASSUME NEW r \in Requests, Serve(r) PROVE Moves(breaker[u], breaker'[u])
  BY <1>3, <1>7, <1>8 DEF Serve
<1>9. CASE DequeueNone
  BY <1>3, <1>7, <1>9 DEF DequeueNone
<1>10. CASE Tick
  BY <1>3, <1>10 DEF Tick
<1>11. ASSUME NEW o, NEW after, BusEnds(o, after)
       PROVE  Moves(breaker[u], breaker'[u])
  <2>1. req[current].unit \in Units /\ breaker[req[current].unit].state # "open"
    BY <1>11 DEF BusEnds, OnBusNotOpen, Core, Bookkeeping, Request
  <2>2. CASE u = req[current].unit
    BY <2>1, <2>2 DEF Moves
  <2>3. CASE u # req[current].unit
    <3>1. breaker'[u] = breaker[u]
      BY <1>1, <1>11, <2>3 DEF BusEnds
    <3> QED
      BY <1>3, <3>1
  <2> QED
    BY <2>2, <2>3
<1>12. CASE BusOk \/ BusFails
  BY <1>11, <1>12 DEF BusOk, BusFails
<1>13. CASE UNCHANGED vars
  BY <1>3, <1>13 DEF vars
<1>14. ASSUME NEW r \in Requests, NEW v \in Units, Refuse(r, v)
       PROVE  Moves(breaker[u], breaker'[u])
  BY <1>1, <1>3, <1>14 DEF Refuse
<1> QED
  BY <1>4, <1>5, <1>6, <1>8, <1>9, <1>10, <1>12, <1>13, <1>14 DEF Next

\* A running queue has a live worker; a stop that still waits for one has woken it
\* and, until the worker has run, its drain_timeout has not begun to elapse.
Draining ==
    /\ running => worker \notin {"none", "done"} /\ stopper = "idle"
    /\ stopper = "drain" => worker # "none"
    /\ stopper = "drain" /\ worker = "new" => drainLeft > 0
    /\ stopper = "drain" /\ worker = "wait" => drainLeft > 0 /\ event

LEMMA InitDraining == Init => Draining
BY DEF Init, Draining

LEMMA NextDraining ==
    ASSUME TypeOK, Draining, [Next]_vars, DrainTimeout > 0
    PROVE  Draining'
<1> USE DEF Draining
<1>1. ASSUME NEW r \in Requests, NEW u \in Units, NEW p \in Priorities, NEW t \in Timeouts,
             Submit(r, u, p, t)
      PROVE  Draining'
  BY <1>1 DEF Submit, workerVars, stopVars
<1>2. ASSUME NEW r \in Requests, NEW u \in Units, Refuse(r, u)
      PROVE  Draining'
  BY <1>2 DEF Refuse, workerVars, stopVars
<1>3. ASSUME NEW r \in Requests, Resume(r) \/ TimeOut(r) \/ CancelCaller(r)
      PROVE  Draining'
  BY <1>3 DEF Resume, TimeOut, CancelCaller, workerVars, stopVars
<1>4. ASSUME NEW r \in Requests, Serve(r)
      PROVE  Draining'
  <2>1. worker' = "bus" /\ UNCHANGED <<running, stopper>>
    BY <1>4 DEF Serve, stopVars
  <2> QED
    BY <2>1
<1>5. CASE DequeueNone
  <2>1. worker = "loop" /\ UNCHANGED <<running, stopper>>
    BY <1>5 DEF DequeueNone, stopVars
  <2>2. CASE running
    <3>1. worker' = AfterClear(SizeAfter(0))
      BY <1>5, <2>2, Zenon DEF DequeueNone
    <3>2. worker' \in {"loop", "wait"}
      BY <3>1
    <3> QED
      BY <2>1, <2>2, <3>2
  <2>3. CASE ~running
    BY <1>5, <2>1, <2>3 DEF DequeueNone
  <2> QED
    BY <2>2, <2>3
<1>6. CASE Start
  BY <1>6 DEF Start
<1>7. CASE Stop
  <2>1. /\ running /\ ~running' /\ event' /\ stopper' = "drain" /\ drainLeft' > 0
        /\ worker' = worker
    BY <1>7 DEF Stop, workerVars
  <2> QED
    BY <2>1
<1>8. CASE DrainExpires
  BY <1>8 DEF DrainExpires, stopVars
<1>9. CASE Flush
  BY <1>9 DEF Flush
<1>10. CASE Wake \/ Quit
  BY <1>10 DEF Wake, Quit, stopVars
<1>11. CASE BusOk \/ BusFails
  BY <1>11 DEF BusOk, BusFails, BusEnds, stopVars
<1>12. CASE Tick
  <2>1. UNCHANGED <<event, worker, running, stopper>> /\ (~LoopFree \/ ~Ready)
    BY <1>12 DEF Tick, Spinning, LoopFree
  <2>2. ~(stopper = "drain" /\ worker \in {"new", "wait"})
    BY <2>1 DEF Ready, LoopFree
  <2> QED
    BY <2>1, <2>2
<1>13. CASE UNCHANGED vars
  BY <1>13 DEF vars
<1> QED
  BY <1>1, <1>2, <1>3, <1>4, <1>5, <1>6, <1>7, <1>8, <1>9, <1>10, <1>11, <1>12, <1>13
     DEF Next

\* A step that ends the worker because drain_timeout is over.
KillsOnBus == worker' = "done" /\ drainLeft = 0 /\ worker # "loop" => worker \in {"bus", "done"}

LEMMA KillsOnBusStep ==
    ASSUME TypeOK, Draining, [Next]_vars
    PROVE  KillsOnBus
<1> SUFFICES ASSUME worker' = "done", drainLeft = 0, worker \notin {"loop", "bus", "done"}
             PROVE  FALSE
  BY DEF KillsOnBus
<1>1. ASSUME worker' = worker \/ worker' # "done" \/ worker = "loop"
      PROVE  FALSE
  BY <1>1
<1>2. ASSUME NEW r \in Requests, NEW u \in Units, NEW p \in Priorities, NEW t \in Timeouts,
             Submit(r, u, p, t)
      PROVE  FALSE
  BY <1>1, <1>2 DEF Submit, workerVars
<1>3. ASSUME NEW r \in Requests, NEW u \in Units, Refuse(r, u)
      PROVE  FALSE
  BY <1>1, <1>3 DEF Refuse, workerVars
<1>4. ASSUME NEW r \in Requests, Resume(r) \/ TimeOut(r) \/ CancelCaller(r) \/ Serve(r)
      PROVE  FALSE
  BY <1>1, <1>4 DEF Resume, TimeOut, CancelCaller, Serve, workerVars
<1>5. CASE DrainExpires
  BY <1>5 DEF DrainExpires, Draining, TypeOK
<1>6. CASE Start \/ Stop \/ Flush \/ Tick \/ Wake \/ Quit \/ DequeueNone
  BY <1>1, <1>6 DEF Start, Stop, Flush, Tick, Wake, Quit, DequeueNone, workerVars
<1>7. CASE BusOk \/ BusFails
  BY <1>1, <1>7 DEF BusOk, BusFails, BusEnds
<1>8. CASE UNCHANGED vars
  BY <1>1, <1>8 DEF vars
<1> QED
  BY <1>2, <1>3, <1>4, <1>5, <1>6, <1>7, <1>8 DEF Next

\* No path of _dequeue, _worker or stop loses a request without an answer, except
\* a stop whose drain_timeout ran out on the request on the bus.
THEOREM NothingIsDropped == Spec => NothingDropped
<1>1. IInv /\ [Next]_vars => [Abandons]_vars
  BY AbandonsStep
<1> QED
  BY Invariance, <1>1, PTL DEF Spec, NothingDropped, Abandons

\* Whatever the callers, the worker and the clock do, a breaker of the queue moves
\* along the diagram of class CircuitBreaker: no late answer closes an open one.
THEOREM BreakersFollowDiagram == Spec => BreakerDiagram
<1>1. Ordered /\ [Next]_vars => [FollowsDiagram]_vars
  BY FollowsDiagramStep
<1> QED
  BY OrderInvariance, <1>1, PTL DEF Spec, BreakerDiagram, FollowsDiagram, Moves

\* _dequeue serves by priority across the units: a write never waits for a read
\* that is not on the bus yet, if its unit's breaker lets it through.
THEOREM UrgentFirst == Spec => WritesFirst
<1>1. Ordered /\ [Next]_vars => [ServesUrgent]_vars
  BY ServesUrgentStep
<1> QED
  BY OrderInvariance, <1>1, PTL DEF Spec, WritesFirst, ServesUrgent

\* With a drain_timeout above zero, a step drops nothing without an answer, stop
\* kills only what is on the bus, and the breakers follow their diagram.  With a
\* drain_timeout of zero stop cancels a sleeping worker too.
THEOREM StepsAreSound == DrainTimeout > 0 => (Spec => StepsSound)
<1> SUFFICES ASSUME DrainTimeout > 0 PROVE Spec => StepsSound
  OBVIOUS
<1>1. TypeOK /\ Draining /\ [Next]_vars => Draining' /\ [KillsOnBus]_vars
  BY NextDraining, KillsOnBusStep
<1>2. Spec => [][KillsOnBus]_vars
  BY TypeCorrect, InitDraining, <1>1, PTL DEF Spec
<1>3. Spec => StopKillsOnlyOnBus
  BY <1>2 DEF StopKillsOnlyOnBus, KillsOnBus
<1> QED
  BY NothingIsDropped, BreakersFollowDiagram, <1>3 DEF StepsSound

-----------------------------------------------------------------------------
(* The turns of the units, over the history of MCRequestQueue.             *)

hvars == <<vars, passed>>

\* Who has been served over u stands behind u in the deque, if at all.
PassedBehind ==
    /\ passed \in [Units -> SUBSET Units]
    /\ \A u \in Units : \A v \in passed[u] :
         u \in ring /\ v # u /\ (v \in ring => <<u, v>> \in ahead)

\* What a step does to the history of a unit: the unit it serves joins it.
LEMMA PassedGrows ==
    ASSUME Ordered, passed \in [Units -> SUBSET Units], HNext
    PROVE  /\ passed' \in [Units -> SUBSET Units]
           /\ \A u \in Units :
                /\ passed'[u] # {} => u \in ring'
                /\ \A v \in passed'[u] :
                     v \in passed[u] \/ (\E r \in Requests : Serve(r) /\ v = req[r].unit)
                /\ \A r \in Requests : Serve(r) /\ u = req[r].unit => passed'[u] = {}
<1> USE DEF Ordered, IInv, Core
<1> DEFINE w == req[current'].unit
<1>1. passed' = [x \in Units |->
         IF x \notin ring' \/ (current' # current /\ current' # NoRequest
                                 /\ w = x) THEN {}
         ELSE IF current' # current /\ current' # NoRequest
                   /\ EligibleAt(x, req[current'].priority)
              THEN passed[x] \cup {w}
              ELSE passed[x]]
  BY DEF HNext
<1>2. ASSUME current' # current, current' # NoRequest
      PROVE  /\ current' \in Requests /\ Serve(current') /\ w \in Units
  <2>1. current' \in Requests \cup {NoRequest}
    BY NextInv DEF HNext, TypeOK
  <2>2. PICK r \in Requests : r = current'
    BY <1>2, <2>1
  <2>3. Serve(r)
    BY <1>2, <2>2, OnlyServe DEF HNext
  <2>4. r \in heap
    BY <2>3 DEF Serve, Chosen, Candidates, Kept
  <2> QED
    BY <2>2, <2>3, <2>4 DEF Bookkeeping, Request
<1>3. ASSUME NEW r \in Requests, Serve(r)
      PROVE  current' = r /\ current' # current /\ current' # NoRequest
  BY <1>3, QueueAssumption DEF Serve, Bookkeeping
<1> HIDE DEF w
<1>4. passed' \in [Units -> SUBSET Units]
  BY <1>1, <1>2
<1> SUFFICES ASSUME NEW u \in Units
             PROVE  /\ passed'[u] # {} => u \in ring'
                    /\ \A v \in passed'[u] :
                         v \in passed[u] \/ (\E r \in Requests : Serve(r) /\ v = req[r].unit)
                    /\ \A r \in Requests : Serve(r) /\ u = req[r].unit => passed'[u] = {}
  BY <1>4
<1>5. passed'[u] # {} => u \in ring'
  BY <1>1
<1>6. \A v \in passed'[u] : v \in passed[u] \/ (current' # current /\ current' # NoRequest /\ v = w)
  BY <1>1
<1>7. \A r \in Requests : Serve(r) /\ u = req[r].unit => passed'[u] = {}
  BY <1>1, <1>3 DEF w
<1> QED
  BY <1>2, <1>5, <1>6, <1>7 DEF w

LEMMA NextPassed ==
    ASSUME Ordered, PassedBehind, [HNext]_hvars
    PROVE  PassedBehind'
<1> USE DEF Ordered, IInv
<1>1. CASE UNCHANGED hvars
  BY <1>1 DEF hvars, vars, PassedBehind
<1>2. CASE HNext
  <2> SUFFICES ASSUME NEW u \in Units, NEW v \in passed'[u]
               PROVE  v # u /\ (v \in ring' => <<u, v>> \in ahead')
    <3>1. passed' \in [Units -> SUBSET Units] /\ \A u \in Units : passed'[u] # {} => u \in ring'
      BY <1>2, PassedGrows DEF PassedBehind
    <3> QED
      BY <3>1 DEF PassedBehind
  <2>1. /\ u \in ring'
        /\ v \in passed[u] \/ (\E r \in Requests : Serve(r) /\ v = req[r].unit)
        /\ \A r \in Requests : Serve(r) => u # req[r].unit
    BY <1>2, PassedGrows DEF PassedBehind
  <2>2. v \in passed[u] => u \in ring /\ v # u /\ (v \in ring => <<u, v>> \in ahead)
    BY DEF PassedBehind
  <2>3. ASSUME NEW r \in Requests, Serve(r)
        PROVE  v # u /\ (v \in ring' => <<u, v>> \in ahead')
    <3> DEFINE s == req[r].unit
               rest == Without(ahead, Stale \cup {s})
               others == ring \ (Stale \cup {s})
    <3>1. \/ ring' = ring \ Stale /\ ahead' = AtEnd(rest, others, s)
          \/ ring' = ring \ (Stale \cup {s}) /\ ahead' = rest
      BY <2>3 DEF Serve
    <3>2. u # s /\ u \in ring /\ u \notin Stale
      BY <2>1, <2>3, <3>1
    <3>3. v = s \/ v \in passed[u]
      BY <2>1, <2>3 DEF Serve
    <3>4. v # u
      BY <2>2, <3>2, <3>3
    <3>5. CASE v = s
      BY <3>1, <3>2, <3>5 DEF AtEnd
    <3>6. CASE v # s
      BY <2>2, <3>1, <3>2, <3>3, <3>6 DEF AtEnd, Without
    <3> QED
      BY <3>4, <3>5, <3>6
  <2>4. ASSUME v \in passed[u], UNCHANGED <<ring, ahead>>
        PROVE  v # u /\ (v \in ring' => <<u, v>> \in ahead')
    BY <2>2, <2>4
  <2>5. ASSUME v \in passed[u], NEW r \in Requests, NEW s \in Units, NEW p \in Priorities,
               NEW t \in Timeouts, Submit(r, s, p, t)
        PROVE  v # u /\ (v \in ring' => <<u, v>> \in ahead')
    BY <2>2, <2>5 DEF Submit, AtEnd
  <2>6. ASSUME v \in passed[u], NEW r \in Requests, NEW s \in Units, Refuse(r, s)
        PROVE  v # u /\ (v \in ring' => <<u, v>> \in ahead')
    BY <2>4, <2>6 DEF Refuse, schedVars
  <2>7. ASSUME v \in passed[u], NEW r \in Requests, Resume(r) \/ TimeOut(r) \/ CancelCaller(r)
        PROVE  v # u /\ (v \in ring' => <<u, v>> \in ahead')
    BY <2>4, <2>7 DEF Resume, TimeOut, CancelCaller, schedVars
  <2>8. ASSUME v \in passed[u], DequeueNone
        PROVE  v # u /\ (v \in ring' => <<u, v>> \in ahead')
    <3>1. ring' = ring \ Stale /\ ahead' = Without(ahead, Stale)
      BY <2>8 DEF DequeueNone
    <3> QED
      BY <2>1, <2>2, <2>8, <3>1 DEF Without
  <2>9. CASE Flush
    BY <2>1, <2>9 DEF Flush
  <2>10. ASSUME v \in passed[u], Start \/ Stop \/ DrainExpires \/ Wake \/ Quit \/ BusOk \/ BusFails
                                   \/ Tick
         PROVE  v # u /\ (v \in ring' => <<u, v>> \in ahead')
    BY <2>4, <2>10
       DEF Start, Stop, DrainExpires, Wake, Quit, BusOk, BusFails, BusEnds, Tick,
           schedVars
  <2>11. CASE v \in passed[u]
    <3>1. Next
      BY <1>2 DEF HNext
    <3> QED
      BY <2>3, <2>5, <2>6, <2>7, <2>8, <2>9, <2>10, <2>11, <3>1 DEF Next
  <2> QED
    BY <2>1, <2>3, <2>11
<1> QED
  BY <1>1, <1>2

\* What round-robin asks of one step.
TakesTurns ==
    \A r \in Requests, u \in Units :
      Serving(r) /\ EligibleAt(u, req[r].priority) => req[r].unit \notin passed[u]

LEMMA TakesTurnsStep ==
    ASSUME Ordered, PassedBehind, [Next]_vars
    PROVE  TakesTurns
<1> SUFFICES ASSUME NEW r \in Requests, NEW u \in Units, Serving(r),
                    EligibleAt(u, req[r].priority), req[r].unit \in passed[u]
             PROVE  FALSE
  BY DEF TakesTurns
<1> USE DEF Ordered, IInv
<1> DEFINE v == req[r].unit
<1>1. Serve(r)
  <2>1. Next /\ current # r /\ current' = r
    BY QueueAssumption DEF Serving, vars
  <2> QED
    BY <2>1, OnlyServe
<1>2. r \in Chosen /\ r \in heap
  BY <1>1 DEF Serve, Chosen, Candidates, Kept
<1>3. u \in ring /\ v # u /\ v \in ring /\ <<u, v>> \in ahead
  BY <1>2 DEF PassedBehind, Core, DequeAgrees
<1>4. PICK q \in Queue(u) : Pending(q) /\ req[q].priority = req[r].priority
  BY DEF EligibleAt
<1>5. q \in Kept /\ req[q].unit = u /\ Allows(breaker[u])
  BY <1>4 DEF Queue, Kept, Purged, Pending, Done, Resolved, EligibleAt
<1>6. PICK c \in Candidates : req[c].unit = u /\ req[c].priority <= req[q].priority
  BY <1>5, CandidateExists
<1>7. c \in Queue(u) /\ Pending(c)
  BY <1>6, CandidateLive DEF Core, Candidates, Kept, Queue
<1>8. req[c].priority = req[r].priority
  <2>1. \A x \in heap : req[x].priority \in Int
    BY DEF Core, Bookkeeping, Request, Priorities, READ, WRITE
  <2>2. req[c].priority >= req[r].priority /\ c \in heap /\ q \in heap
    BY <1>4, <1>7 DEF EligibleAt, Queue
  <2> QED
    BY <1>2, <1>4, <1>6, <2>1, <2>2
<1>9. c # r
  BY <1>3, <1>6
<1>10. <<v, u>> \in ahead
  <2>1. \/ req[r].priority < req[c].priority
        \/ req[r].priority = req[c].priority /\ <<v, req[c].unit>> \in ahead
    BY <1>2, <1>6, <1>9, Zenon DEF Chosen
  <2>2. req[r].priority \in Int
    BY <1>2 DEF Core, Bookkeeping, Request, Priorities, READ, WRITE
  <2> QED
    BY <1>6, <1>8, <2>1, <2>2
<1> QED
  BY <1>3, <1>10 DEF Core, DequeAgrees

\* The units take turns: a unit with work of the same priority that its breaker lets
\* through is not passed over twice by the same unit, urgent requests go first, and
\* the deque names the units that wait, each once.
THEOREM UnitsTakeTurns == HSpec => InTurn
<1>1. HSpec => Spec
  <2>1. HInit => Init
    BY DEF HInit
  <2>2. [HNext]_hvars => [Next]_vars
    BY DEF HNext, hvars
  <2> QED
    BY <2>1, <2>2, PTL DEF HSpec, Spec, hvars
<1>2. HInit => PassedBehind
  BY DEF HInit, PassedBehind
<1>3. Ordered /\ PassedBehind /\ [HNext]_hvars => PassedBehind'
  BY NextPassed
<1>4. HSpec => []PassedBehind
  BY OrderInvariance, <1>1, <1>2, <1>3, PTL DEF HSpec, hvars
<1>5. Ordered /\ PassedBehind /\ [Next]_vars => [TakesTurns]_vars
  BY TakesTurnsStep
<1>6. HSpec => NoDoubleOvertaking
  BY OrderInvariance, <1>1, <1>4, <1>5, PTL DEF Spec, NoDoubleOvertaking, TakesTurns
<1> QED
  BY <1>1, <1>6, DequeAlwaysAgrees, UrgentFirst, PTL DEF InTurn

=============================================================================
