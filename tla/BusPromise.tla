---------------------------- MODULE BusPromise ----------------------------
(***************************************************************************)
(* What the request queue promises its callers, with no queue in it:       *)
(* requests go on the bus one at a time and at most once each, only while  *)
(* they are unresolved; a future is resolved once; and only the request    *)
(* that is on the bus gets a result or a bus error.                        *)
(***************************************************************************)
EXTENDS Naturals

CONSTANTS Requests, NoRequest

VARIABLES
    outcome,   \* the future of each request
    spent,     \* the requests that will not go on the bus any more
    wire       \* the request on the bus

vars == <<outcome, spent, wire>>

Resolved == {"result", "exception", "cancelled"}

Init ==
    /\ outcome = [r \in Requests |-> "none"]
    /\ spent = {}
    /\ wire = NoRequest

Accept(r) ==
    /\ outcome[r] = "none"
    /\ outcome' = [outcome EXCEPT ![r] = "pending"]
    /\ UNCHANGED <<spent, wire>>

\* Resolved requests may be dropped at any time, here together with putting one on.
Put(r, dropped) ==
    /\ wire = NoRequest
    /\ r \notin spent
    /\ outcome[r] = "pending"
    /\ \A q \in dropped : outcome[q] \in Resolved
    /\ spent' = spent \cup dropped \cup {r}
    /\ wire' = r
    /\ UNCHANGED outcome

Drop(dropped) ==
    /\ \A q \in dropped : outcome[q] \in Resolved
    /\ spent' = spent \cup dropped
    /\ UNCHANGED <<outcome, wire>>

\* The bus answers; a caller that has cancelled keeps its outcome.
Answer ==
    /\ wire # NoRequest
    /\ wire' = NoRequest
    /\ \E o \in {"result", "exception"} :
         outcome' = [outcome EXCEPT ![wire] = IF @ = "pending" THEN o ELSE @]
    /\ UNCHANGED spent

\* The caller's timeout.
Cancel(r) ==
    /\ outcome[r] = "pending"
    /\ outcome' = [outcome EXCEPT ![r] = "cancelled"]
    /\ UNCHANGED <<spent, wire>>

\* The queue is closed: nothing that is still to be sent will be.
Close(rs) ==
    /\ wire = NoRequest
    /\ rs \cap spent = {}
    /\ outcome' = [r \in Requests |->
                     IF r \in rs /\ outcome[r] = "pending" THEN "cancelled" ELSE outcome[r]]
    /\ spent' = spent \cup rs
    /\ UNCHANGED wire

\* The bus operation is given up without an answer.
Abandon ==
    /\ wire # NoRequest
    /\ wire' = NoRequest
    /\ UNCHANGED <<outcome, spent>>

Next ==
    \/ \E r \in Requests :
         Accept(r) \/ Cancel(r) \/ \E d \in SUBSET Requests : Put(r, d)
    \/ \E d \in SUBSET Requests : Drop(d) \/ Close(d)
    \/ Answer \/ Abandon

Spec == Init /\ [][Next]_vars
=============================================================================
