----------------------------- MODULE LocalBuffer -----------------------------
(***************************************************************************)
(* The store-and-forward path of csp_lib/mongo/local_buffer: documents are *)
(* first put in a local SQLite store, and a background task replays those  *)
(* that are pending to MongoDB in batches (LocalBufferedUploader,          *)
(* SqliteBufferStore, MongoWriter.write_batch).  write_immediate also      *)
(* writes a document to MongoDB itself, beside the replay.                 *)
(*                                                                         *)
(* The store and MongoDB survive a crash of the process.  MongoDB is       *)
(* external: a write that is answered has inserted every document it did   *)
(* not refuse; one that fails may have inserted any part of them.          *)
(***************************************************************************)
EXTENDS Naturals, FiniteSets

CONSTANTS
    Docs,         \* documents, each submitted once, with a key of its own
    Collections,
    CollectionOf,
    Registered,   \* the collections register_collection is called for at start
    Rejected,     \* the documents MongoDB refuses for another reason than a duplicate
    BatchSize,    \* replay_batch_size
    Faults        \* what may happen, of "mongo", "crash", "stop"

ASSUME LocalBufferAssumption ==
    /\ IsFiniteSet(Docs)
    /\ CollectionOf \in [Docs -> Collections]
    /\ Registered \subseteq Collections
    /\ Rejected \subseteq Docs
    /\ BatchSize \in Nat \ {0}
    /\ Faults \subseteq {"mongo", "crash", "stop"}

VARIABLES
    phase,    \* of the uploader: its store is open unless it is "down"
    row,      \* the row of each document in the store
    number,   \* its id, AUTOINCREMENT
    last,     \* the last id given
    known,    \* _collections
    indexed,  \* the collections with a unique index on _idempotency_key
    stored,   \* how many copies of each document MongoDB has
    flight,   \* the replay of each collection: where it is, with which documents
    caller    \* the call that submits each document

store == <<row, number, last>>
vars == <<phase, store, known, indexed, stored, flight, caller>>

\* Bound: copies of a document that are told apart.
MaxCopies == 2

NoFlight == [at |-> "idle", docs |-> {}]

\* Every variable holds a value of its kind, and no replay outlives the stop.
TypeOK ==
    /\ phase \in {"down", "starting", "up", "stopping", "draining"}
    /\ row \in [Docs -> {"none", "pending", "synced", "deleted"}]
    /\ number \in [Docs -> Nat]
    /\ last \in Nat
    /\ known \subseteq Collections
    /\ indexed \subseteq Collections
    /\ stored \in [Docs -> 0..MaxCopies]
    /\ flight \in [Collections ->
                     [at : {"idle", "writing", "marking"}, docs : SUBSET Docs]]
    /\ caller \in [Docs -> {"none", "writing", "marking", "ended"}]
    /\ phase = "down" => \A c \in Collections : flight[c].at = "idle"

Init ==
    /\ phase = "down"
    /\ row = [d \in Docs |-> "none"]
    /\ number = [d \in Docs |-> 0]
    /\ last = 0
    /\ known = {} /\ indexed = {}
    /\ stored = [d \in Docs |-> 0]
    /\ flight = [c \in Collections |-> NoFlight]
    /\ caller = [d \in Docs |-> "none"]

Pending == {d \in Docs : row[d] = "pending"}

\* Mutant: the replay is not awaited.
NotAwaited == TRUE

\* gather has returned.
Resting == \A c \in Collections : flight[c] = NoFlight

-----------------------------------------------------------------------------
(* MongoDB (external).                                                     *)

Duplicate(d) == CollectionOf[d] \in indexed /\ stored[d] > 0

\* What MongoDB has once the documents ds are inserted: the unique index keeps a
\* second copy out.
Inserted(ds) ==
    [d \in Docs |-> IF d \in ds /\ ~Duplicate(d) /\ stored[d] < MaxCopies
                    THEN stored[d] + 1 ELSE stored[d]]

-----------------------------------------------------------------------------
(* Start and stop                                                          *)

\* _on_start, and the collections the application registers.
Start ==
    /\ phase = "down"
    /\ phase' = "starting"
    /\ known' = Registered
    /\ UNCHANGED <<store, indexed, stored, flight, caller>>

\* Mutant: no collection is remembered.
NoneKnown == {}

Indexable == known

\* ensure_indexes, awaited by the application before it submits anything; a
\* collection that holds a document twice does not get the index.
EnsureIndexes ==
    /\ phase = "starting"
    /\ phase' = "up"
    /\ indexed' = indexed \cup
         {c \in Indexable : \A d \in Docs : CollectionOf[d] = c => stored[d] <= 1}
    /\ UNCHANGED <<store, known, stored, flight, caller>>

Stop ==
    /\ "stop" \in Faults
    /\ phase = "up"
    /\ phase' = "stopping"
    /\ UNCHANGED <<store, known, indexed, stored, flight, caller>>

\* The store is closed; what calls and the replay have still to mark stays pending.
Close ==
    /\ phase = "draining" /\ Resting
    /\ phase' = "down"
    /\ UNCHANGED <<store, known, indexed, stored, flight, caller>>

\* The process dies; what it has sent may still arrive.
Crash ==
    /\ "crash" \in Faults
    /\ phase # "down"
    /\ phase' = "down"
    /\ \E arrived \in SUBSET ({d \in Docs : caller[d] = "writing"}
                              \cup UNION {flight[c].docs : c \in
                                     {k \in Collections : flight[k].at = "writing"}}) :
         stored' = Inserted(arrived \ Rejected)
    /\ known' = {}
    /\ flight' = [c \in Collections |-> NoFlight]
    /\ caller' = [d \in Docs |-> IF caller[d] = "none" THEN "none" ELSE "ended"]
    /\ UNCHANGED <<store, indexed>>

-----------------------------------------------------------------------------
(* Submitting                                                              *)

\* append: a new row, pending.
Appended(d) ==
    /\ row' = [row EXCEPT ![d] = "pending"]
    /\ number' = [number EXCEPT ![d] = last + 1]
    /\ last' = last + 1

Open == phase \notin {"down", "starting"}

Submit(d, p) ==
    /\ caller[d] = "none" /\ Open
    /\ Appended(d)
    /\ known' = known \cup {CollectionOf[d]}
    /\ caller' = [caller EXCEPT ![d] = p]
    /\ UNCHANGED <<phase, indexed, stored, flight>>

Enqueue(d) == Submit(d, "ended")
WriteImmediate(d) == Submit(d, "writing")

\* write_immediate's own write, ordered: a duplicate is an error.
WriteOk(d) ==
    /\ caller[d] = "writing"
    /\ d \notin Rejected /\ ~Duplicate(d)
    /\ stored' = Inserted({d})
    /\ caller' = [caller EXCEPT ![d] = "marking"]
    /\ UNCHANGED <<phase, store, known, indexed, flight>>

\* It fails and is left to the replay.
WriteFails(d) ==
    /\ caller[d] = "writing"
    /\ \/ d \in Rejected \/ Duplicate(d)
       \/ "mongo" \in Faults
    /\ stored' \in {stored, Inserted({d} \ Rejected)}
    /\ caller' = [caller EXCEPT ![d] = "ended"]
    /\ UNCHANGED <<phase, store, known, indexed, flight>>

\* Rows that are marked: those in the store, if that is open.
Marked(ds) ==
    row' = [d \in Docs |-> IF d \in ds /\ row[d] = "pending" /\ phase # "down"
                           THEN "synced" ELSE row[d]]

MarkOne(d) ==
    /\ caller[d] = "marking"
    /\ Marked({d})
    /\ caller' = [caller EXCEPT ![d] = "ended"]
    /\ UNCHANGED <<phase, number, last, known, indexed, stored, flight>>

-----------------------------------------------------------------------------
(* The replay                                                              *)

\* Mutant: rows that are synced already are fetched too.
Unfiltered ==
    {d \in Docs : /\ row[d] \in {"pending", "synced"}
                  /\ Cardinality({e \in Docs : /\ row[e] \in {"pending", "synced"}
                                               /\ number[e] < number[d]}) < BatchSize}

\* fetch_pending: the oldest pending rows of all collections.
Batch == {d \in Pending : Cardinality({e \in Pending : number[e] < number[d]}) < BatchSize}

\* _replay_once: one task per collection; after a stop, for the last time.
Fetch ==
    /\ phase \in {"starting", "up", "stopping"} /\ Resting
    /\ Batch # {} \/ phase = "stopping"
    /\ phase' = IF phase = "stopping" THEN "draining" ELSE phase
    /\ flight' = [c \in Collections |->
                    LET ds == {d \in Batch : CollectionOf[d] = c}
                    IN  IF ds = {} THEN NoFlight ELSE [at |-> "writing", docs |-> ds]]
    /\ UNCHANGED <<store, known, indexed, stored, caller>>

\* Mutant: a batch counts as done whatever MongoDB said.
Always(ds) == TRUE

\* Whether insert_many(ordered=False) counts as a success for the whole batch.
Success(ds) == ds \cap Rejected = {}

\* write_batch is answered.
BatchWritten(c) ==
    /\ flight[c].at = "writing"
    /\ stored' = Inserted(flight[c].docs \ Rejected)
    /\ flight' = [flight EXCEPT ![c] = IF Success(flight[c].docs)
                                       THEN [@ EXCEPT !.at = "marking"] ELSE NoFlight]
    /\ UNCHANGED <<phase, store, known, indexed, caller>>

\* MongoDB does not answer: the rows stay pending, with a retry more.
BatchFails(c) ==
    /\ "mongo" \in Faults
    /\ flight[c].at = "writing"
    /\ \E arrived \in SUBSET (flight[c].docs \ Rejected) : stored' = Inserted(arrived)
    /\ flight' = [flight EXCEPT ![c] = NoFlight]
    /\ UNCHANGED <<phase, store, known, indexed, caller>>

BatchMarked(c) ==
    /\ flight[c].at = "marking"
    /\ Marked(flight[c].docs)
    /\ flight' = [flight EXCEPT ![c] = NoFlight]
    /\ UNCHANGED <<phase, number, last, known, indexed, stored, caller>>

\* Mutant: the cleanup takes any old row.
Old(d) == row[d] \in {"pending", "synced"}

Obsolete(d) == row[d] = "synced"

\* _cleanup_once: rows that were marked longer than retention_seconds ago.
Cleanup ==
    /\ phase \in {"starting", "up", "stopping"}
    /\ \E d \in Docs : Obsolete(d) /\ row' = [row EXCEPT ![d] = "deleted"]
    /\ UNCHANGED <<phase, number, last, known, indexed, stored, flight, caller>>

-----------------------------------------------------------------------------
Replay(c) == BatchWritten(c) \/ BatchFails(c) \/ BatchMarked(c)

Next ==
    \/ Start \/ EnsureIndexes \/ Stop \/ Close \/ Crash
    \/ \E d \in Docs :
         \/ Enqueue(d) \/ WriteImmediate(d)
         \/ WriteOk(d) \/ WriteFails(d) \/ MarkOne(d)
    \/ Fetch \/ Cleanup
    \/ \E c \in Collections : Replay(c)

Spec == Init /\ [][Next]_vars

\* The replay's timer fires, and what the replay and the callers await returns.
FairReplay ==
    /\ WF_vars(EnsureIndexes) /\ WF_vars(Fetch) /\ WF_vars(Close)
    /\ \A c \in Collections : WF_vars(Replay(c))
    /\ \A d \in Docs : WF_vars(WriteOk(d) \/ WriteFails(d) \/ MarkOne(d))

FairSpec == Spec /\ FairReplay

-----------------------------------------------------------------------------
(* Properties                                                              *)

\* A document the store has taken is in MongoDB or will be replayed, whatever
\* fails or crashes in between: a row is marked, and cleaned up, only once MongoDB
\* has the document ("資料不遺失" of the documentation: nothing is lost).
NothingLost ==
    \A d \in Docs : row[d] \in {"synced", "deleted"} => stored[d] > 0

\* Nothing is in MongoDB twice, however often it is sent ("冪等 replay":
\* an idempotent replay).
NoDuplicates == \A d \in Docs : stored[d] <= 1

\* MongoDB fails for another reason than the documents in a batch.
MongoDown == \E c \in Collections : BatchFails(c) /\ Success(flight[c].docs)

\* While the uploader stays up and MongoDB answers, every document in the store
\* that MongoDB does not refuse arrives.
Delivers ==
    /\ <>[](phase = "up")
    /\ <>[][~MongoDown]_vars
    => \A d \in Docs \ Rejected : row[d] = "pending" ~> stored[d] > 0
=============================================================================
