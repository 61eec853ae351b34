---------------------------- MODULE BatchUploader ----------------------------
(***************************************************************************)
(* The batched upload of csp_lib/mongo: documents wait in a bounded queue  *)
(* per collection (BatchQueue), and one task flushes the queues to MongoDB *)
(* when its timer fires, a queue reaches its threshold or stop is called   *)
(* (MongoBatchUploader, MongoWriter.write_batch).  Nothing is persisted: a *)
(* document is kept until it is stored, until the full queue drops the     *)
(* oldest, or until its batch has failed too often.                        *)
(*                                                                         *)
(* MongoDB is external.  insert_many is ordered: it inserts documents one  *)
(* by one and fails at the first it refuses.  The first attempt gives each *)
(* document its _id, so that what an interrupted attempt has inserted is   *)
(* refused as a duplicate by the next.                                     *)
(***************************************************************************)
EXTENDS Naturals, SequencesExt

CONSTANTS
    BatchDocs,         \* documents, numbered in the order they are submitted
    BatchCollections,
    BatchCollectionOf,
    Refused,           \* documents MongoDB never accepts
    Capacity,          \* max_queue_size
    Threshold,         \* batch_size_threshold
    MaxRetry,          \* max_retry_count
    MayFail            \* what may happen, of "mongo", "cancel"

\* UploadConfig.__post_init__ requires it of the configuration.
ASSUME BatchAssumption ==
    /\ BatchDocs \subseteq Nat
    /\ BatchCollectionOf \in [BatchDocs -> BatchCollections]
    /\ Capacity \in Nat \ {0} /\ Threshold \in Nat \ {0} /\ MaxRetry \in Nat

VARIABLES
    buffer,        \* _queues: the documents waiting in each collection
    named,         \* the collections of _queues, in the order they came
    retries,       \* _retry_counts
    fate,          \* history: what became of each document outside MongoDB
    inserted,      \* the documents MongoDB has
    reached,       \* _threshold_event
    stopping,      \* _stop_event
    loop           \* the flush task: where it is, its batch, the collections left

uploaderVars ==
    <<buffer, named, retries, fate, inserted, reached, stopping, loop>>

Off == [at |-> "off", batch |-> <<>>, left |-> <<>>]
Waiting == [at |-> "waiting", batch |-> <<>>, left |-> <<>>]

\* Where the flush task is: no task; in _wait_for_trigger; in a flush_all of the
\* loop, in the one before its break, or in the one of its except clause.
Flushing == {"flushing", "final", "cancelled"}

BatchTypes ==
    /\ buffer \in [BatchCollections -> Seq(BatchDocs)]
    /\ \A c \in BatchCollections : Len(buffer[c]) <= Capacity
    /\ Range(named) \subseteq BatchCollections /\ IsInjective(named)
    /\ retries \in [BatchCollections -> 0..MaxRetry]
    /\ fate \in [BatchDocs -> {"new", "taken", "overflow", "given up", "cut off"}]
    /\ inserted \subseteq BatchDocs
    /\ reached \in BOOLEAN /\ stopping \in BOOLEAN
    /\ loop.at \in {"off", "waiting"} \cup Flushing
    /\ loop.batch \in Seq(BatchDocs) /\ loop.left \in Seq(BatchCollections)
    /\ loop.at \in Flushing <=> loop.batch # <<>>

UploaderInit ==
    /\ buffer = [c \in BatchCollections |-> <<>>]
    /\ named = <<>>
    /\ retries = [c \in BatchCollections |-> 0]
    /\ fate = [d \in BatchDocs |-> "new"]
    /\ inserted = {}
    /\ reached = FALSE /\ stopping = FALSE
    /\ loop = Off

-----------------------------------------------------------------------------
(* The queue of a collection                                               *)

Refate(ds, f) == [d \in BatchDocs |-> IF d \in ds THEN f ELSE fate[d]]

\* Mutant: the queue grows past its limit by the document that fills it.
EvictLate(q) == IF Len(q) > Capacity THEN Tail(q) ELSE q

\* A full deque drops its oldest document.
Evict(q) == IF Len(q) >= Capacity THEN Tail(q) ELSE q

\* Mutant: what is left of the room goes to the oldest of the batch.
ReturnedOldest(batch, q) ==
    LET room == Capacity - Len(q)
    IN  IF Len(batch) <= room THEN batch ELSE SubSeq(batch, 1, room)

\* The documents of a failed batch that restore puts back: as many of the newest as
\* the documents that came in the meantime leave room for.
Returned(batch, q) ==
    LET room == Capacity - Len(q)
    IN  IF Len(batch) <= room THEN batch
        ELSE SubSeq(batch, Len(batch) - room + 1, Len(batch))

\* restore puts a batch in front of the queue.
Before(batch, q) == batch \o q

\* enqueue, of the application's next document.
EnqueueDoc(d) ==
    LET c == BatchCollectionOf[d]
        q == Append(Evict(buffer[c]), d)
    IN  /\ fate[d] = "new"
        /\ \A e \in BatchDocs : e < d => fate[e] # "new"
        /\ named' = IF Contains(named, c) THEN named ELSE Append(named, c)
        /\ buffer' = [buffer EXCEPT ![c] = q]
        /\ fate' = [Refate(Range(buffer[c]) \ Range(q), "overflow") EXCEPT ![d] = "taken"]
        /\ reached' = (reached \/ Len(q) >= Threshold)
        /\ UNCHANGED <<retries, inserted, stopping, loop>>

-----------------------------------------------------------------------------
(* Start and stop                                                          *)

\* start: it does nothing while the task of an earlier start runs.
StartUploader ==
    /\ loop.at = "off"
    /\ loop' = Waiting
    /\ stopping' = FALSE /\ reached' = FALSE
    /\ UNCHANGED <<buffer, named, retries, fate, inserted>>

\* stop sets its event and awaits the task.
StopUploader ==
    /\ loop.at # "off" /\ ~stopping
    /\ stopping' = TRUE
    /\ UNCHANGED <<buffer, named, retries, fate, inserted, reached, loop>>

-----------------------------------------------------------------------------
(* The flush task                                                          *)

\* flush_all goes on with the collections left: it drains the first that has
\* documents and suspends in its write.  Without one it has come to its end, and so
\* has the task after the last flush; the loop clears the threshold event, whatever
\* reached the threshold meanwhile, and ends if stop was called.
FlushOn(at, left, bufs) ==
    LET full == {i \in DOMAIN left : bufs[left[i]] # <<>>}
    IN  IF full # {}
        THEN LET i == CHOOSE i \in full : \A j \in full : i <= j
             IN  /\ buffer' = [bufs EXCEPT ![left[i]] = <<>>]
                 /\ loop' = [at |-> at, batch |-> bufs[left[i]],
                             left |-> SubSeq(left, i + 1, Len(left))]
                 /\ UNCHANGED reached
        ELSE /\ buffer' = bufs
             /\ loop' = IF at = "flushing" /\ ~stopping THEN Waiting ELSE Off
             /\ reached' = (reached /\ at # "flushing")

\* _wait_for_trigger returns: its timer has fired, a threshold was reached, or stop
\* was called.
Triggered ==
    /\ loop.at = "waiting"
    /\ FlushOn(IF stopping THEN "final" ELSE "flushing", named, buffer)
    /\ UNCHANGED <<named, retries, fate, inserted, stopping>>

\* The first document of a batch at which insert_many stops, or the batch's length
\* plus one.
Obstacle(batch) ==
    LET bad == {i \in DOMAIN batch : batch[i] \in Refused \cup inserted}
    IN  IF bad = {} THEN Len(batch) + 1 ELSE CHOOSE i \in bad : \A j \in bad : i <= j

Prefix(batch, n) == {batch[i] : i \in 1..n}

\* The collection whose batch is in flight.
Current == BatchCollectionOf[Head(loop.batch)]

\* write_batch is answered: every document of the batch is stored.
Written ==
    /\ loop.at \in Flushing
    /\ Obstacle(loop.batch) > Len(loop.batch)
    /\ inserted' = inserted \cup Range(loop.batch)
    /\ retries' = [retries EXCEPT ![Current] = 0]
    /\ FlushOn(loop.at, loop.left, buffer)
    /\ UNCHANGED <<named, fate, stopping>>

\* Mutant: a failure does not count.
Forgiving(n) == n

Failures(n) == n + 1

\* _handle_write_failure: the batch goes back, in front of what came meanwhile, or is
\* given up once it has failed more than max_retry_count times.
Handled ==
    LET c == Current
        n == Failures(retries[c])
        back == IF n <= MaxRetry THEN Returned(loop.batch, buffer[c]) ELSE <<>>
    IN  /\ retries' = [retries EXCEPT ![c] = IF n <= MaxRetry THEN n ELSE 0]
        /\ fate' = Refate(Range(loop.batch) \ Range(back),
                          IF n <= MaxRetry THEN "overflow" ELSE "given up")
        /\ FlushOn(loop.at, loop.left, [buffer EXCEPT ![c] = Before(back, @)])

\* insert_many raises: at the first document MongoDB refuses, or before it when the
\* connection fails.
InsertFails ==
    /\ loop.at \in Flushing
    /\ \E n \in 0..(Obstacle(loop.batch) - 1) :
         /\ \/ n = Obstacle(loop.batch) - 1 /\ n < Len(loop.batch)
            \/ "mongo" \in MayFail
         /\ inserted' = inserted \cup Prefix(loop.batch, n)
    /\ Handled
    /\ UNCHANGED <<named, stopping>>

\* A stop that is itself cancelled cancels the flush task it awaits.  The batch in
\* flight is in no queue and not put back; the except clause flushes the queues once
\* more, and a second cancellation there ends the task.
CancelledStop ==
    /\ "cancel" \in MayFail
    /\ stopping /\ loop.at # "off"
    /\ \E n \in 0..(Obstacle(loop.batch) - 1) :
         inserted' = inserted \cup Prefix(loop.batch, n)
    /\ fate' = Refate(Range(loop.batch), "cut off")
    /\ IF loop.at = "cancelled"
       THEN loop' = Off /\ UNCHANGED <<buffer, reached>>
       ELSE FlushOn("cancelled", named, buffer)
    /\ UNCHANGED <<named, retries, stopping>>

-----------------------------------------------------------------------------
UploaderNext ==
    \/ \E d \in BatchDocs : EnqueueDoc(d)
    \/ StartUploader \/ StopUploader
    \/ Triggered \/ Written \/ InsertFails \/ CancelledStop

\* The timer fires and MongoDB answers or raises.
Fairness == WF_uploaderVars(Triggered) /\ WF_uploaderVars(Written \/ InsertFails)

UploaderSpec == UploaderInit /\ [][UploaderNext]_uploaderVars /\ Fairness

-----------------------------------------------------------------------------
(* Properties                                                              *)

Held(d) == Contains(buffer[BatchCollectionOf[d]], d) \/ Contains(loop.batch, d)

\* No document disappears: one that was taken is waiting, in the batch of the flush
\* task or in MongoDB, or it was dropped for a reason the documentation names (a full
\* queue, too many failures) or cut off with the task.  A restored batch that met a
\* queue filled meanwhile is where one could get lost.
NothingVanishes ==
    \A d \in BatchDocs : fate[d] = "taken" => Held(d) \/ d \in inserted

\* A batch in flight and the queue behind it are one line in the order of submission, and
\* what a full queue dropped is older than all that waits in it.
LinesInOrder ==
    \A c \in BatchCollections :
      LET line == (IF loop.at \in Flushing /\ Current = c THEN loop.batch ELSE <<>>)
                  \o buffer[c]
      IN  /\ \A i, j \in DOMAIN line : i < j => line[i] < line[j]
          /\ \A d \in BatchDocs, e \in Range(buffer[c]) :
               BatchCollectionOf[d] = c /\ fate[d] = "overflow" => d < e

\* A full queue gives up its oldest documents ("超過後丟棄最舊資料" of the
\* configuration) and nothing else disappears, and no document overtakes an older one,
\* although the queue fills up again while a batch is out and the batch comes back in
\* front of it.
KeepsNewest == NothingVanishes /\ LinesInOrder

\* While the task runs, no document waits for ever, not even behind one that MongoDB
\* refuses: it is stored, or it leaves with a batch that has failed too often.
Served ==
    <>[](loop.at # "off" /\ ~stopping)
    => \A d \in BatchDocs : Held(d) ~> ~Held(d)
=============================================================================
