------------------------- MODULE NotificationBatcher -------------------------
(***************************************************************************)
(* csp_lib/notification/batcher.py: notifications wait in a bounded deque  *)
(* that the flush loop, a dispatch that reaches the threshold, and stop    *)
(* empty, each on its own: a flush takes all that waits, keeps the newest  *)
(* of each key, and gives the groups to the channels one after another.  A *)
(* channel that raises is logged and passed over, so that giving it a      *)
(* group is one step, whatever becomes of it.                              *)
(***************************************************************************)
EXTENDS Naturals, FiniteSets, SequencesExt

CONSTANTS
    Items,       \* notifications and events, numbered from 1 as they are dispatched
    KeyOf,       \* _dedup_key, or NoKey
    GroupOf,     \* _group_key_fn
    NoKey,
    Capacity,    \* max_queue_size
    Threshold    \* batch_size_threshold

VARIABLES
    waiting,     \* _queue
    flush,       \* the groups each running flush has still to send
    service,     \* of the batcher: "off", "on", "stopping", "final"
    what,        \* history: what became of each item
    before       \* history: the items dispatched before stop was last called

batcherVars == <<waiting, flush, service, what, before>>

\* Who runs a flush: the dispatch of an item, and the service, which is the loop, or
\* stop once the loop has ended.
Service == 0
Flushers == {Service} \cup Items

BatcherTypes ==
    /\ waiting \in Seq(Items) /\ Len(waiting) <= Capacity
    /\ flush \in [Flushers -> Seq(Seq(Items))]
    /\ service \in {"off", "on", "stopping", "final"}
    /\ what \in [Items -> {"new", "taken", "sent", "superseded", "dropped"}]
    /\ before \subseteq Items
    /\ service = "off" => flush[Service] = <<>>

Init ==
    /\ waiting = <<>>
    /\ flush = [f \in Flushers |-> <<>>]
    /\ service = "off"
    /\ what = [i \in Items |-> "new"]
    /\ before = {}

-----------------------------------------------------------------------------
(* One flush                                                               *)

\* Mutant: events without a key count as one.
SameAnyKey(i, j) == KeyOf[i] = KeyOf[j]

Same(i, j) == i = j \/ (KeyOf[i] = KeyOf[j] /\ KeyOf[i] # NoKey)

Latest(q, i) ==
    CHOOSE j \in Range(q) : Same(i, j) /\ \A k \in Range(q) : Same(i, k) => k <= j

\* _deduplicate: the newest item of a key, at the place of the oldest.
Deduplicate(q) ==
    LET first == {n \in DOMAIN q : \A m \in 1..(n - 1) : ~Same(q[m], q[n])}
        keep == SetToSortSeq(first, <)
    IN  [n \in DOMAIN keep |-> Latest(q, q[keep[n]])]

\* _group: the items of each group, in the order the groups come up.
Group(q) ==
    LET first == {n \in DOMAIN q : \A m \in 1..(n - 1) : GroupOf[q[m]] # GroupOf[q[n]]}
        heads == SetToSortSeq(first, <)
    IN  [n \in DOMAIN heads |->
           SelectSeq(q, LAMBDA i : GroupOf[i] = GroupOf[q[heads[n]]])]

\* flush, by f, of the queue q: it is emptied under the lock, and suspends in the
\* first channel.
Flush(f, q, fate) ==
    /\ waiting' = <<>>
    /\ flush' = [flush EXCEPT ![f] = Group(Deduplicate(q))]
    /\ what' = [i \in Items |-> IF i \in Range(q) \ Range(Deduplicate(q))
                                THEN "superseded" ELSE fate[i]]

\* The channels have had the group; the next one goes out.
Sent(f) ==
    /\ flush[f] # <<>>
    /\ flush' = [flush EXCEPT ![f] = Tail(@)]
    /\ what' = [i \in Items |-> IF i \in Range(Head(flush[f])) THEN "sent" ELSE what[i]]
    /\ UNCHANGED <<waiting, service, before>>

-----------------------------------------------------------------------------
(* Dispatch                                                                *)

\* Items are dispatched in their order.
Coming(i) == what[i] = "new" /\ \A j \in Items : j < i => what[j] # "new"

\* dispatch, dispatch_event: a full deque drops its oldest item; at the threshold the
\* caller flushes.
Dispatch(i) ==
    LET old == IF Len(waiting) >= Capacity THEN {Head(waiting)} ELSE {}
        q == Append(IF old = {} THEN waiting ELSE Tail(waiting), i)
        fate == [j \in Items |-> IF j = i THEN "taken"
                                 ELSE IF j \in old THEN "dropped" ELSE what[j]]
    IN  /\ Coming(i)
        /\ IF Len(q) >= Threshold
           THEN Flush(i, q, fate)
           ELSE waiting' = q /\ what' = fate /\ UNCHANGED flush
        /\ UNCHANGED <<service, before>>

\* dispatch_immediate and immediate events go to the channels past the queue.
Immediate(i) ==
    /\ Coming(i)
    /\ flush' = [flush EXCEPT ![i] = <<<<i>>>>]
    /\ what' = [what EXCEPT ![i] = "taken"]
    /\ UNCHANGED <<waiting, service, before>>

-----------------------------------------------------------------------------
(* The loop, start and stop                                                *)

Start ==
    /\ service = "off"
    /\ service' = "on"
    /\ UNCHANGED <<waiting, flush, what, before>>

\* The loop's timer fires.
Timer ==
    /\ service = "on" /\ flush[Service] = <<>> /\ waiting # <<>>
    /\ Flush(Service, waiting, what)
    /\ UNCHANGED <<service, before>>

\* stop sets its event.  The loop, if it waits, flushes once more and ends; in a flush
\* it only ends after it.
Stop ==
    /\ service = "on"
    /\ service' = "stopping"
    /\ before' = {i \in Items : what[i] # "new"}
    /\ IF flush[Service] = <<>>
       THEN Flush(Service, waiting, what)
       ELSE UNCHANGED <<waiting, flush, what>>

\* Mutant: what came while the loop was in its flush is left behind.
LeaveRest == UNCHANGED <<waiting, flush, what>>

TakeRest == Flush(Service, waiting, what)

\* The loop has ended: _final_flush.
FinalFlush ==
    /\ service = "stopping" /\ flush[Service] = <<>>
    /\ service' = "final"
    /\ TakeRest
    /\ UNCHANGED before

Stopped ==
    /\ service = "final" /\ flush[Service] = <<>>
    /\ service' = "off"
    /\ UNCHANGED <<waiting, flush, what, before>>

-----------------------------------------------------------------------------
Next ==
    \/ \E i \in Items : Dispatch(i) \/ Immediate(i)
    \/ Start \/ Timer \/ Stop \/ FinalFlush \/ Stopped
    \/ \E f \in Flushers : Sent(f)

Spec == Init /\ [][Next]_batcherVars

-----------------------------------------------------------------------------
(* Properties                                                              *)

Sending(i) == \E f \in Flushers : \E n \in DOMAIN flush[f] : Contains(flush[f][n], i)

\* No notification is passed over: one that was taken waits or is being sent, and one
\* that was superseded left with a newer one of its key, which was sent or is being
\* sent, whoever flushes beside whom; one that was dropped from a full deque has given
\* way to as many newer ones as the deque holds.  stop leaves nothing behind that was there when
\* it was called ("確保所有殘留通知都已發送" of its code: all that remains is sent), also
\* when the loop was in the middle of a flush and did not come to its last one.
NoneSkipped ==
    /\ \A i \in Items :
         /\ what[i] = "taken" => Contains(waiting, i) \/ Sending(i)
         /\ what[i] = "superseded" =>
              \E j \in Items : /\ j > i /\ KeyOf[j] = KeyOf[i] /\ KeyOf[i] # NoKey
                               /\ what[j] = "sent" \/ Sending(j)
         /\ what[i] = "dropped" =>
              Cardinality({j \in Items : j > i /\ what[j] # "new"}) >= Capacity
    /\ service = "off" => Range(waiting) \cap before = {}
=============================================================================
