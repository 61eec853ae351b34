--------------------------- MODULE MCRequestQueue ---------------------------
(***************************************************************************)
(* Small instances of RequestQueue for TLC, with the history of overtaking *)
(* that the round-robin property needs.                                    *)
(***************************************************************************)
EXTENDS RequestQueue, TLC

Symmetry == Permutations(Requests) \cup Permutations(Units)

VARIABLE passed   \* passed[u]: the units served over the head of u's queue

\* Unit u has an unresolved request that may go on the bus, and the most urgent
\* one has priority p.
EligibleAt(u, p) ==
    /\ Allows(breaker[u])
    /\ \E q \in Queue(u) : Pending(q) /\ req[q].priority = p
    /\ \A q \in Queue(u) : Pending(q) => req[q].priority >= p

Serving(r) == current = NoRequest /\ current' = r

HInit == Init /\ passed = [u \in Units |-> {}]

HNext ==
    /\ Next
    /\ passed' = [u \in Units |->
         IF u \notin ring' \/ (current' # current /\ current' # NoRequest
                                 /\ req[current'].unit = u) THEN {}
         ELSE IF current' # current /\ current' # NoRequest
                   /\ EligibleAt(u, req[current'].priority)
              THEN passed[u] \cup {req[current'].unit}
              ELSE passed[u]]

HSpec == HInit /\ [][HNext]_<<vars, passed>>

\* Round-robin: while unit u has work of the same priority that may be served,
\* no other unit is served twice before u is.
NoDoubleOvertaking ==
    [][\A r \in Requests, u \in Units :
         Serving(r) /\ EligibleAt(u, req[r].priority) => req[r].unit \notin passed[u]]_vars

\* Who is served: the deque names the units that wait, each once; writes go before reads;
\* and the units take turns.
InTurn == []DequeAgrees /\ WritesFirst /\ NoDoubleOvertaking

\* What can still make a difference: a request's unit and priority while it is
\* in hand, its sequence number through the order of its heap, its timer while
\* it runs.
View ==
    <<running, event, total, keys, ring, ahead, heap, breaker, worker, current, busLeft,
      stopper, drainLeft, future, caller, passed,
      [r \in Requests |-> IF InHand(r) THEN <<req[r].unit, req[r].priority>> ELSE <<>>],
      { p \in heap \X heap : req[p[1]].unit = req[p[2]].unit /\ Before(p[1], p[2]) },
      [r \in Requests |-> IF Timed(r) THEN left[r] ELSE 0]>>
=============================================================================
