---------------------------- MODULE Storage_proofs ----------------------------
(***************************************************************************)
(* What TLAPS proves of the ways to MongoDB, of LocalBuffer for any        *)
(* documents, collections and batch size: a row is marked, and deleted,    *)
(* only for a document that MongoDB has.  TypeOK and NothingLost are not   *)
(* inductive by themselves: between the answer of a write and the marking  *)
(* of its rows the uploader relies on what it was told, which Sent states. *)
(* And when every collection is registered before ensure_indexes, nothing  *)
(* is in MongoDB twice: whatever is sent, before a crash or after it, has  *)
(* a row, and a row is made only once its collection has the index.        *)
(*                                                                         *)
(* And of BatchUploader for any documents, collections and limits: what a  *)
(* full queue or a failed batch gives up is the oldest there is.  That is  *)
(* not inductive by itself: a batch that comes back when there is room for *)
(* it must be younger than all that was dropped, and it is, because        *)
(* documents were dropped in the meantime only if the queue has been full  *)
(* ever since, which InFlight states.                                      *)
(*                                                                         *)
(* And of LogLevels for any modules and levels: once a poll has applied    *)
(* the remote levels, a module whose level is not the remote one has a     *)
(* message about it under way, and the last message of every listener's    *)
(* queue about a module agrees with the hash.                              *)
(***************************************************************************)
EXTENDS LocalBuffer, BatchUploader, LogLevels, FiniteSetTheorems, SequenceTheorems,
        WellFoundedInduction, TLAPS

\* What is about to be marked has arrived.
Sent ==
    /\ \A c \in Collections :
         flight[c].at = "marking" => \A d \in flight[c].docs : stored[d] > 0
    /\ \A d \in Docs : caller[d] = "marking" => stored[d] > 0

\* The inductive invariant of the local buffer.
IInv == TypeOK /\ NothingLost /\ Sent

\* Inserting documents loses none, and those inserted are there.
LEMMA InsertedKeeps ==
    ASSUME stored \in [Docs -> 0..MaxCopies],
           NEW ds, stored' = Inserted(ds)
    PROVE  /\ stored' \in [Docs -> 0..MaxCopies]
           /\ \A d \in Docs : stored[d] > 0 => stored'[d] > 0
           /\ \A d \in Docs \cap ds : stored'[d] > 0
<1>1. \A d \in Docs : /\ stored'[d] \in 0..MaxCopies
                      /\ stored[d] > 0 => stored'[d] > 0
                      /\ d \in ds => stored'[d] > 0
  <2> TAKE d \in Docs
  <2>1. stored[d] \in 0..2
    BY DEF MaxCopies
  <2>2. stored'[d] = IF d \in ds /\ ~Duplicate(d) /\ stored[d] < MaxCopies
                     THEN stored[d] + 1 ELSE stored[d]
    BY DEF Inserted
  <2>3. Duplicate(d) => stored[d] > 0
    BY DEF Duplicate
  <2> QED
    BY <2>1, <2>2, <2>3 DEF MaxCopies
<1>2. stored' = [d \in Docs |-> stored'[d]]
  BY DEF Inserted
<1> QED
  BY <1>1, <1>2

\* Marking rows of documents that have arrived keeps the promise.
LEMMA MarkedKeeps ==
    ASSUME TypeOK, NothingLost,
           NEW ds, Marked(ds), UNCHANGED stored,
           \A d \in Docs \cap ds : stored[d] > 0
    PROVE  /\ row' \in [Docs -> {"none", "pending", "synced", "deleted"}]
           /\ NothingLost'
BY DEF TypeOK, NothingLost, Marked

\* The store and MongoDB begin empty.
LEMMA InitInv == Init => IInv
BY LocalBufferAssumption
   DEF Init, IInv, TypeOK, NothingLost, Sent, NoFlight, MaxCopies

\* Every step of the local buffer keeps the invariant.
LEMMA NextInv == IInv /\ [Next]_vars => IInv'
<1> SUFFICES ASSUME IInv, [Next]_vars PROVE IInv'
  OBVIOUS
<1> USE DEF IInv
<1>1. CASE Start
  BY <1>1, LocalBufferAssumption DEF Start, store, TypeOK, NothingLost, Sent
<1>2. CASE EnsureIndexes
  BY <1>2 DEF EnsureIndexes, Indexable, store, TypeOK, NothingLost, Sent
<1>3. CASE Stop
  BY <1>3 DEF Stop, store, TypeOK, NothingLost, Sent
<1>4. CASE Close
  BY <1>4 DEF Close, Resting, NoFlight, store, TypeOK, NothingLost, Sent
<1>5. CASE Crash
  <2>1. PICK arrived : stored' = Inserted(arrived)
    BY <1>5 DEF Crash
  <2>2. /\ stored' \in [Docs -> 0..MaxCopies]
        /\ \A d \in Docs : stored[d] > 0 => stored'[d] > 0
    BY <2>1, InsertedKeeps DEF TypeOK
  <2> QED
    BY <1>5, <2>2 DEF Crash, store, NoFlight, TypeOK, NothingLost, Sent
<1>6. ASSUME NEW d \in Docs, NEW p \in {"ended", "writing"}, Submit(d, p)
      PROVE  IInv'
  <2>1. TypeOK'
    <3>1. last' \in Nat /\ number' \in [Docs -> Nat]
      BY <1>6 DEF Submit, Appended, TypeOK
    <3>2. row' \in [Docs -> {"none", "pending", "synced", "deleted"}]
      BY <1>6 DEF Submit, Appended, TypeOK
    <3>3. caller' \in [Docs -> {"none", "writing", "marking", "ended"}]
      BY <1>6 DEF Submit, TypeOK
    <3>4. known' \subseteq Collections
      BY <1>6, LocalBufferAssumption DEF Submit, TypeOK
    <3> QED
      BY <1>6, <3>1, <3>2, <3>3, <3>4 DEF Submit, TypeOK
  <2>2. NothingLost'
    BY <1>6 DEF Submit, Appended, TypeOK, NothingLost
  <2>3. Sent'
    BY <1>6 DEF Submit, Appended, TypeOK, Sent
  <2> QED
    BY <2>1, <2>2, <2>3
<1>7. ASSUME NEW d \in Docs, WriteOk(d) PROVE IInv'
  <2>1. /\ stored' \in [Docs -> 0..MaxCopies]
        /\ \A e \in Docs : stored[e] > 0 => stored'[e] > 0
        /\ stored'[d] > 0
    BY <1>7, InsertedKeeps DEF WriteOk, TypeOK
  <2> QED
    BY <1>7, <2>1 DEF WriteOk, store, TypeOK, NothingLost, Sent
<1>8. ASSUME NEW d \in Docs, WriteFails(d) PROVE IInv'
  <2>1. /\ stored' \in [Docs -> 0..MaxCopies]
        /\ \A e \in Docs : stored[e] > 0 => stored'[e] > 0
    <3>1. CASE stored' = stored
      BY <3>1 DEF TypeOK
    <3>2. CASE stored' = Inserted({d} \ Rejected)
      BY <3>2, InsertedKeeps DEF TypeOK
    <3> QED
      BY <1>8, <3>1, <3>2 DEF WriteFails
  <2> QED
    BY <1>8, <2>1 DEF WriteFails, store, TypeOK, NothingLost, Sent
<1>9. ASSUME NEW d \in Docs, MarkOne(d) PROVE IInv'
  <2>1. /\ row' \in [Docs -> {"none", "pending", "synced", "deleted"}]
        /\ NothingLost'
    BY <1>9, MarkedKeeps DEF MarkOne, Sent
  <2> QED
    BY <1>9, <2>1 DEF MarkOne, TypeOK, Sent
<1>10. CASE Fetch
  <2>1. flight' \in [Collections -> [at : {"idle", "writing", "marking"}, docs : SUBSET Docs]]
    BY <1>10 DEF Fetch, Batch, Pending, NoFlight
  <2>2. \A c \in Collections : flight'[c].at # "marking"
    BY <1>10 DEF Fetch, NoFlight
  <2>3. phase' # "down"
    BY <1>10 DEF Fetch
  <2> QED
    BY <1>10, <2>1, <2>2, <2>3 DEF Fetch, store, TypeOK, NothingLost, Sent
<1>11. CASE Cleanup
  BY <1>11 DEF Cleanup, Obsolete, TypeOK, NothingLost, Sent
<1>12. ASSUME NEW c \in Collections, BatchWritten(c) PROVE IInv'
  <2>1. /\ stored' \in [Docs -> 0..MaxCopies]
        /\ \A d \in Docs : stored[d] > 0 => stored'[d] > 0
        /\ \A d \in flight[c].docs \ Rejected : stored'[d] > 0
    BY <1>12, InsertedKeeps DEF BatchWritten, TypeOK
  <2>2. TypeOK'
    BY <1>12, <2>1 DEF BatchWritten, store, NoFlight, TypeOK
  <2>3. NothingLost'
    BY <1>12, <2>1 DEF BatchWritten, store, NothingLost
  <2>4. ASSUME NEW k \in Collections, flight'[k].at = "marking", NEW d \in flight'[k].docs
        PROVE  stored'[d] > 0
    <3>1. CASE k = c
      <4>1. flight[c].docs \cap Rejected = {} /\ flight'[c].docs = flight[c].docs
        BY <1>12, <2>4, <3>1 DEF BatchWritten, Success, NoFlight, TypeOK
      <4> QED
        BY <2>1, <2>4, <3>1, <4>1
    <3>2. CASE k # c
      <4>1. flight'[k] = flight[k]
        BY <1>12, <3>2 DEF BatchWritten, TypeOK
      <4> QED
        BY <2>1, <2>4, <4>1 DEF Sent, TypeOK
    <3> QED
      BY <3>1, <3>2
  <2>5. \A d \in Docs : caller'[d] = "marking" => stored'[d] > 0
    BY <1>12, <2>1 DEF BatchWritten, Sent
  <2> QED
    BY <2>2, <2>3, <2>4, <2>5 DEF Sent
<1>13. ASSUME NEW c \in Collections, BatchFails(c) PROVE IInv'
  <2>1. PICK arrived : stored' = Inserted(arrived)
    BY <1>13 DEF BatchFails
  <2>2. /\ stored' \in [Docs -> 0..MaxCopies]
        /\ \A d \in Docs : stored[d] > 0 => stored'[d] > 0
    BY <2>1, InsertedKeeps DEF TypeOK
  <2> QED
    BY <1>13, <2>2 DEF BatchFails, store, NoFlight, TypeOK, NothingLost, Sent
<1>14. ASSUME NEW c \in Collections, BatchMarked(c) PROVE IInv'
  <2>1. /\ row' \in [Docs -> {"none", "pending", "synced", "deleted"}]
        /\ NothingLost'
    BY <1>14, MarkedKeeps DEF BatchMarked, Sent
  <2> QED
    BY <1>14, <2>1 DEF BatchMarked, NoFlight, TypeOK, Sent
<1>15. CASE UNCHANGED vars
  BY <1>15 DEF vars, store, TypeOK, NothingLost, Sent
<1> QED
  BY <1>1, <1>2, <1>3, <1>4, <1>5, <1>6, <1>7, <1>8, <1>9, <1>10, <1>11, <1>12,
     <1>13, <1>14, <1>15 DEF Next, Replay, Enqueue, WriteImmediate

\* The inductive invariant holds in every state LocalBufferedUploader can reach.
THEOREM Invariance == Spec => []IInv
BY InitInv, NextInv, PTL DEF Spec

\* The state of the uploader has its type in every reachable state.
THEOREM BufferTypes == Spec => []TypeOK
<1>1. IInv => TypeOK
  BY DEF IInv
<1> QED
  BY <1>1, Invariance, PTL

\* No document the local store has taken is ever lost: whatever writes fail,
\* halfway or unanswered, and whenever the process stops or crashes, a row is
\* marked or deleted only once MongoDB has its document.
THEOREM BufferLosesNothing == Spec => []NothingLost
<1>1. IInv => NothingLost
  BY DEF IInv
<1> QED
  BY <1>1, Invariance, PTL

-----------------------------------------------------------------------------
(* Nothing twice                                                           *)

\* register_collection was called for every collection that is used.
AllRegistered == \A d \in Docs : CollectionOf[d] \in Registered

\* What is sent has a row.
HasRow ==
    /\ \A d \in Docs : caller[d] = "writing" => row[d] # "none"
    /\ \A c \in Collections : \A d \in flight[c].docs : row[d] # "none"

\* What has a row has an index.
HasIndex ==
    /\ phase = "starting" => Registered \subseteq known
    /\ Open => \A d \in Docs : CollectionOf[d] \in indexed
    /\ \A d \in Docs : row[d] # "none" => CollectionOf[d] \in indexed

\* The inductive invariant when every collection is registered.
Unique == TypeOK /\ NoDuplicates /\ HasRow /\ HasIndex

\* The index keeps a second copy out.
LEMMA InsertedOnce ==
    ASSUME TypeOK, NoDuplicates, NEW ds, stored' = Inserted(ds),
           \A d \in Docs \cap ds : CollectionOf[d] \in indexed
    PROVE  NoDuplicates'
<1> SUFFICES ASSUME NEW d \in Docs PROVE stored'[d] <= 1
  BY DEF NoDuplicates
<1>1. stored[d] \in {0, 1}
  BY DEF TypeOK, NoDuplicates, MaxCopies
<1>2. stored'[d] = IF d \in ds /\ ~Duplicate(d) /\ stored[d] < MaxCopies
                   THEN stored[d] + 1 ELSE stored[d]
  BY DEF Inserted
<1>3. d \in ds /\ stored[d] = 1 => Duplicate(d)
  BY DEF Duplicate
<1> QED
  BY <1>1, <1>2, <1>3

\* No document has been sent at first.
LEMMA UniqueInit == Init => Unique
BY InitInv DEF IInv, Init, Unique, NoDuplicates, HasRow, HasIndex, Open, NoFlight

\* Every step keeps documents single.
LEMMA UniqueNext ==
    ASSUME AllRegistered, Unique, TypeOK', [Next]_vars
    PROVE  Unique'
<1> USE DEF Unique
<1>1. CASE Start
  BY <1>1 DEF Start, store, NoDuplicates, HasRow, HasIndex, Open
<1>2. CASE EnsureIndexes
  <2>1. \A d \in Docs : CollectionOf[d] \in indexed'
    BY <1>2 DEF EnsureIndexes, Indexable, AllRegistered, HasIndex, NoDuplicates
  <2> QED
    BY <1>2, <2>1 DEF EnsureIndexes, store, NoDuplicates, HasRow, HasIndex
<1>3. CASE Stop
  BY <1>3 DEF Stop, store, NoDuplicates, HasRow, HasIndex, Open
<1>4. CASE Close
  BY <1>4 DEF Close, store, NoDuplicates, HasRow, HasIndex, Open
<1>5. CASE Crash
  <2>1. PICK arrived \in SUBSET ({d \in Docs : caller[d] = "writing"}
                                \cup UNION {flight[c].docs : c \in
                                       {k \in Collections : flight[k].at = "writing"}}) :
          stored' = Inserted(arrived \ Rejected)
    BY <1>5 DEF Crash
  <2>2. \A d \in Docs \cap (arrived \ Rejected) : CollectionOf[d] \in indexed
    BY <2>1 DEF HasRow, HasIndex
  <2>3. NoDuplicates'
    BY <2>1, <2>2, InsertedOnce
  <2>4. HasRow' /\ HasIndex'
    BY <1>5 DEF Crash, store, NoFlight, HasRow, HasIndex, Open
  <2> QED
    BY <2>3, <2>4
<1>6. ASSUME NEW d \in Docs, NEW p \in {"ended", "writing"}, Submit(d, p)
      PROVE  Unique'
  <2>1. row'[d] = "pending" /\ \A x \in Docs \ {d} : row'[x] = row[x]
    BY <1>6 DEF Submit, Appended, TypeOK
  <2>2. HasRow'
    BY <1>6, <2>1 DEF Submit, HasRow, TypeOK
  <2>3. HasIndex' /\ NoDuplicates'
    BY <1>6, <2>1 DEF Submit, HasIndex, NoDuplicates, Open
  <2> QED
    BY <2>2, <2>3
<1>7. ASSUME NEW d \in Docs, WriteOk(d) PROVE Unique'
  <2>1. NoDuplicates'
    BY <1>7, InsertedOnce DEF WriteOk, HasRow, HasIndex
  <2>2. HasRow'
    BY <1>7 DEF WriteOk, store, HasRow, TypeOK
  <2>3. HasIndex'
    BY <1>7 DEF WriteOk, store, HasIndex, Open
  <2> QED
    BY <2>1, <2>2, <2>3
<1>8. ASSUME NEW d \in Docs, WriteFails(d) PROVE Unique'
  <2>1. NoDuplicates'
    <3>1. CASE stored' = stored
      BY <3>1 DEF NoDuplicates
    <3>2. CASE stored' = Inserted({d} \ Rejected)
      BY <1>8, <3>2, InsertedOnce DEF WriteFails, HasRow, HasIndex
    <3> QED
      BY <1>8, <3>1, <3>2 DEF WriteFails
  <2> QED
    BY <1>8, <2>1 DEF WriteFails, store, HasRow, HasIndex, Open, TypeOK
<1>9. ASSUME NEW d \in Docs, MarkOne(d) PROVE Unique'
  <2>1. \A x \in Docs : row'[x] = "none" <=> row[x] = "none"
    BY <1>9 DEF MarkOne, Marked
  <2> QED
    BY <1>9, <2>1 DEF MarkOne, NoDuplicates, HasRow, HasIndex, Open, TypeOK
<1>10. CASE Fetch
  <2>1. \A c \in Collections : \A d \in flight'[c].docs : row[d] # "none"
    BY <1>10 DEF Fetch, Batch, Pending, NoFlight
  <2>2. phase' = phase \/ (phase' = "draining" /\ phase = "stopping")
    BY <1>10 DEF Fetch
  <2> QED
    BY <1>10, <2>1, <2>2 DEF Fetch, store, NoDuplicates, HasRow, HasIndex, Open
<1>11. CASE Cleanup
  <2>1. \A x \in Docs : row'[x] = "none" <=> row[x] = "none"
    BY <1>11 DEF Cleanup, Obsolete, TypeOK
  <2> QED
    BY <1>11, <2>1 DEF Cleanup, NoDuplicates, HasRow, HasIndex, Open, TypeOK
<1>12. ASSUME NEW c \in Collections, BatchWritten(c) PROVE Unique'
  <2>1. NoDuplicates'
    BY <1>12, InsertedOnce DEF BatchWritten, HasRow, HasIndex
  <2>2. \A k \in Collections : flight'[k].docs \subseteq flight[k].docs
    BY <1>12 DEF BatchWritten, NoFlight, TypeOK
  <2> QED
    BY <1>12, <2>1, <2>2 DEF BatchWritten, store, HasRow, HasIndex, Open
<1>13. ASSUME NEW c \in Collections, BatchFails(c) PROVE Unique'
  <2>1. PICK arrived \in SUBSET (flight[c].docs \ Rejected) : stored' = Inserted(arrived)
    BY <1>13 DEF BatchFails
  <2>2. NoDuplicates'
    BY <1>13, <2>1, InsertedOnce DEF HasRow, HasIndex
  <2>3. \A k \in Collections : flight'[k].docs \subseteq flight[k].docs
    BY <1>13 DEF BatchFails, NoFlight, TypeOK
  <2> QED
    BY <1>13, <2>2, <2>3 DEF BatchFails, store, HasRow, HasIndex, Open
<1>14. ASSUME NEW c \in Collections, BatchMarked(c) PROVE Unique'
  <2>1. \A x \in Docs : row'[x] = "none" <=> row[x] = "none"
    BY <1>14 DEF BatchMarked, Marked
  <2>2. \A k \in Collections : flight'[k].docs \subseteq flight[k].docs
    BY <1>14 DEF BatchMarked, NoFlight, TypeOK
  <2> QED
    BY <1>14, <2>1, <2>2 DEF BatchMarked, NoDuplicates, HasRow, HasIndex, Open, TypeOK
<1>15. CASE UNCHANGED vars
  BY <1>15 DEF vars, store, NoDuplicates, HasRow, HasIndex, Open
<1> QED
  BY <1>1, <1>2, <1>3, <1>4, <1>5, <1>6, <1>7, <1>8, <1>9, <1>10, <1>11, <1>12,
     <1>13, <1>14, <1>15 DEF Next, Replay, Enqueue, WriteImmediate

\* Nothing is in MongoDB twice, however often it is sent, before a crash or after it,
\* when each collection was registered before ensure_indexes (LocalBufferedUploader).
THEOREM BufferStoresOnce == AllRegistered => (Spec => []NoDuplicates)
<1> SUFFICES ASSUME AllRegistered PROVE Spec => []NoDuplicates
  OBVIOUS
<1>1. Unique /\ TypeOK' /\ [Next]_vars => Unique'
  BY UniqueNext
<1>2. Unique => NoDuplicates
  BY DEF Unique
<1> QED
  BY <1>1, <1>2, UniqueInit, BufferTypes, PTL DEF Spec
-----------------------------------------------------------------------------
(* The batch uploader                                                      *)

\* What may become of a document.
Fates == {"new", "taken", "overflow", "given up", "cut off"}

\* The documents of q are in the order they were submitted.
Ascending(q) == \A i, j \in 1..Len(q) : i < j => q[i] < q[j]

\* The documents of q may wait together for collection c.
Waits(q, c, fates) ==
    /\ q \in Seq(BatchDocs) /\ Ascending(q) /\ Len(q) <= Capacity
    /\ \A i \in 1..Len(q) : BatchCollectionOf[q[i]] = c /\ fates[q[i]] = "taken"

\* What the full queue of c dropped is older than what it holds.
Newest(q, c, fates) ==
    \A d \in BatchDocs, i \in 1..Len(q) :
      BatchCollectionOf[d] = c /\ fates[d] = "overflow" => d < q[i]

\* Every queue is in order and holds the newest of its collection.
Queues(bufs, fates) ==
    \A c \in BatchCollections : Waits(bufs[c], c, fates) /\ Newest(bufs[c], c, fates)

\* A batch in flight is older than the queue it may come back to, and if anything
\* younger was dropped, that queue is full and takes nothing back.
InFlight ==
    loop.batch # <<>> =>
      /\ Waits(loop.batch, Current, fate)
      /\ \A i \in 1..Len(loop.batch), j \in 1..Len(buffer[Current]) :
           loop.batch[i] < buffer[Current][j]
      /\ \A d \in BatchDocs, i \in 1..Len(loop.batch) :
           BatchCollectionOf[d] = Current /\ fate[d] = "overflow" /\ loop.batch[i] < d
           => Len(buffer[Current]) = Capacity

\* What the proofs need of the kinds of the variables.
UploaderKinds ==
    /\ buffer \in [BatchCollections -> Seq(BatchDocs)]
    /\ named \in Seq(BatchCollections)
    /\ fate \in [BatchDocs -> Fates]
    /\ inserted \subseteq BatchDocs
    /\ loop \in [at : {"off", "waiting"} \cup Flushing, batch : Seq(BatchDocs),
                 left : Seq(BatchCollections)]
    /\ loop.at \in Flushing <=> loop.batch # <<>>

\* Documents are submitted in their order.
InOrder == \A d, e \in BatchDocs : e < d /\ fate[d] # "new" => fate[e] # "new"

\* The inductive invariant of the batch uploader.
UploaderInv ==
    UploaderKinds /\ Queues(buffer, fate) /\ InFlight /\ InOrder /\ NothingVanishes

\* A set of natural numbers has a least element: its initial segments are finite sets,
\* which inclusion orders well.
LEMMA Smallest ==
  ASSUME NEW T \in SUBSET Nat, T # {}
  PROVE  \E k \in T : \A j \in T : k <= j
<1> DEFINE Segments == {1..k : k \in T}
<1>1. Segments \subseteq FiniteSubsetsOf(Nat)
  <2> SUFFICES ASSUME NEW k \in T PROVE 1..k \in FiniteSubsetsOf(Nat)
    OBVIOUS
  <2>1. 1..k \in SUBSET Nat /\ IsFiniteSet(1..k)
    BY FS_Interval
  <2> QED BY <2>1 DEF FiniteSubsetsOf
<1>2. Segments # {}
  OBVIOUS
<1>3. PICK U \in Segments : \A V \in Segments : <<V, U>> \notin StrictSubsetOrdering(Nat)
  BY <1>1, <1>2, WFMin, FS_StrictSubsetOrderingWellFounded
<1>4. PICK k \in T : U = 1..k
  OBVIOUS
<1>5. ASSUME NEW j \in T, j < k PROVE FALSE
  <2>1. 1..j \subseteq U /\ k \in U /\ k \notin 1..j
    BY <1>4, <1>5
  <2>2. <<1..j, U>> \in StrictSubsetOrdering(Nat)
    BY <1>4, <2>1 DEF StrictSubsetOrdering
  <2> QED BY <1>3, <2>2
<1> QED BY <1>5

\* The uploader begins with empty queues.
LEMMA UploaderBegins ==
  ASSUME UploaderInit
  PROVE  UploaderInv
<1>1. <<>> \in Seq(BatchDocs) /\ <<>> \in Seq(BatchCollections) /\ Len(<<>>) = 0
  OBVIOUS
<1>2. UploaderKinds
  BY <1>1, BatchAssumption DEF UploaderInit, UploaderKinds, Off, Fates, Flushing
<1>3. Queues(buffer, fate)
  BY <1>1, BatchAssumption DEF UploaderInit, Queues, Waits, Newest, Ascending
<1>4. InFlight /\ InOrder /\ NothingVanishes
  BY DEF UploaderInit, InFlight, InOrder, NothingVanishes, Off
<1> QED BY <1>2, <1>3, <1>4 DEF UploaderInv

\* A flush that goes on with queues in order leaves the uploader in order.
LEMMA FlushKeeps ==
  ASSUME NEW at \in Flushing, NEW left \in Seq(BatchCollections),
         NEW bufs \in [BatchCollections -> Seq(BatchDocs)], FlushOn(at, left, bufs),
         Queues(bufs, fate'), fate' \in [BatchDocs -> Fates], inserted' \subseteq BatchDocs,
         named' \in Seq(BatchCollections), InOrder',
         \A d \in BatchDocs :
           fate'[d] = "taken" => Contains(bufs[BatchCollectionOf[d]], d) \/ d \in inserted'
  PROVE  UploaderInv'
<1> DEFINE full == {i \in DOMAIN left : bufs[left[i]] # <<>>}
<1>1. CASE full # {}
  <2> DEFINE i == CHOOSE i \in full : \A j \in full : i <= j
             c == left[i]
  <2>1. \E k \in full : \A j \in full : k <= j
    <3>1. full \in SUBSET Nat
      OBVIOUS
    <3> HIDE DEF full
    <3> QED BY <1>1, <3>1, Smallest
  <2>2. i \in full
    BY <2>1
  <2>3. c \in BatchCollections /\ bufs[c] # <<>> /\ i \in 1..Len(left)
    <3>1. i \in DOMAIN left /\ bufs[left[i]] # <<>>
      BY <2>2
    <3> HIDE DEF i
    <3>2. i \in 1..Len(left) /\ left[i] \in BatchCollections
      BY <3>1
    <3> QED BY <3>1, <3>2
  <2>4. /\ buffer' = [bufs EXCEPT ![c] = <<>>]
        /\ loop' = [at |-> at, batch |-> bufs[c], left |-> SubSeq(left, i + 1, Len(left))]
    BY <1>1, Zenon DEF FlushOn
  <2>41. buffer' = [bufs EXCEPT ![c] = <<>>]
    BY <2>4
  <2>5. SubSeq(left, i + 1, Len(left)) \in Seq(BatchCollections)
    <3>1. i \in 1..Len(left)
      BY <2>3
    <3> HIDE DEF i
    <3> QED BY <3>1, SubSeqProperties
  <2> HIDE DEF i, c, full
  <2>6. UploaderKinds'
    BY <2>3, <2>4, <2>5 DEF UploaderKinds
  <2>7. Current' = c
    <3>1. bufs[c] \in Seq(BatchDocs) /\ Len(bufs[c]) > 0
      BY <2>3
    <3>2. Head(bufs[c]) = bufs[c][1] /\ 1 \in 1..Len(bufs[c])
      BY <3>1
    <3>3. BatchCollectionOf[bufs[c][1]] = c
      BY <2>3, <3>2 DEF Queues, Waits
    <3>4. loop'.batch = bufs[c]
      BY <2>4
    <3> QED BY <3>2, <3>3, <3>4 DEF Current
  <2>8. Queues(buffer, fate)'
    BY <2>3, <2>4, BatchAssumption DEF Queues, Waits, Newest, Ascending
  <2>9. InFlight'
    <3>1. buffer'[c] = <<>>
      BY <2>3, <2>4
    <3>2. loop'.batch = bufs[c] /\ Waits(bufs[c], c, fate') /\ Newest(bufs[c], c, fate')
      BY <2>3, <2>4 DEF Queues
    <3>3. \A d \in BatchDocs, k \in 1..Len(bufs[c]) :
            BatchCollectionOf[d] = c /\ fate'[d] = "overflow" => ~ bufs[c][k] < d
      <4> SUFFICES ASSUME NEW d \in BatchDocs, NEW k \in 1..Len(bufs[c]), BatchCollectionOf[d] = c,
                          fate'[d] = "overflow"
                   PROVE  ~ bufs[c][k] < d
        OBVIOUS
      <4>1. d < bufs[c][k] /\ bufs[c][k] \in BatchDocs
        BY <2>3, <3>2 DEF Newest
      <4>2. d \in Nat /\ bufs[c][k] \in Nat
        BY <4>1, BatchAssumption
      <4> QED BY <4>1, <4>2
    <3>4. \A k \in 1..Len(loop'.batch), j \in 1..Len(buffer'[c]) : FALSE
      BY <3>1
    <3> QED BY <2>7, <3>2, <3>3, <3>4, Zenon DEF InFlight
  <2>10. NothingVanishes'
    <3> SUFFICES ASSUME NEW d \in BatchDocs, fate'[d] = "taken", d \notin inserted'
                 PROVE  Contains(buffer'[BatchCollectionOf[d]], d) \/ Contains(loop'.batch, d)
      BY DEF NothingVanishes, Held
    <3>1. Contains(bufs[BatchCollectionOf[d]], d)
      OBVIOUS
    <3>2. BatchCollectionOf[d] \in BatchCollections
      BY BatchAssumption
    <3>3. loop'.batch = bufs[c]
      BY <2>4
    <3>4. CASE BatchCollectionOf[d] = c
      BY <3>1, <3>3, <3>4
    <3>5. CASE BatchCollectionOf[d] # c
      <4>1. buffer'[BatchCollectionOf[d]] = bufs[BatchCollectionOf[d]]
        BY <2>4, <3>2, <3>5
      <4> QED BY <3>1, <4>1
    <3> QED BY <3>4, <3>5
  <2> QED BY <2>6, <2>8, <2>9, <2>10 DEF UploaderInv
<1>2. CASE full = {}
  <2>1. /\ buffer' = bufs
        /\ loop'.batch = <<>> /\ loop' \in {Waiting, Off}
    BY <1>2 DEF FlushOn, Waiting, Off
  <2>2. UploaderKinds'
    <3>1. loop' \in [at : {"off", "waiting"} \cup Flushing, batch : Seq(BatchDocs),
                     left : Seq(BatchCollections)]
      <4>1. <<>> \in Seq(BatchDocs) /\ <<>> \in Seq(BatchCollections)
        OBVIOUS
      <4>2. CASE loop' = Waiting
        BY <4>1, <4>2 DEF Waiting
      <4>3. CASE loop' = Off
        BY <4>1, <4>3 DEF Off
      <4> QED BY <2>1, <4>2, <4>3
    <3>2. loop'.at \notin Flushing
      BY <2>1 DEF Waiting, Off, Flushing
    <3> QED BY <2>1, <3>1, <3>2 DEF UploaderKinds
  <2>3. Queues(buffer, fate)' /\ InFlight'
    BY <2>1 DEF Queues, InFlight
  <2>4. NothingVanishes'
    BY <2>1 DEF NothingVanishes, Held
  <2> QED BY <2>2, <2>3, <2>4 DEF UploaderInv
<1> QED BY <1>1, <1>2

\* The lemmas on a full queue: it drops its oldest, and takes back the newest it has room
\* for.
LEMMA EvictKeeps ==
  ASSUME NEW q, NEW c, Waits(q, c, fate)
  PROVE  /\ Waits(Evict(q), c, fate) /\ Len(Evict(q)) < Capacity
         /\ \/ Evict(q) = q
            \/ /\ Len(q) = Capacity /\ Len(Evict(q)) = Capacity - 1
               /\ Range(q) \ Range(Evict(q)) = {q[1]}
               /\ \A i \in 1..Len(Evict(q)) : q[1] < Evict(q)[i]
<1>1. q \in Seq(BatchDocs) /\ Len(q) \in Nat /\ Len(q) <= Capacity
  BY DEF Waits
<1>2. CASE Len(q) < Capacity
  BY <1>1, <1>2, BatchAssumption DEF Evict
<1>3. CASE Len(q) = Capacity
  <2>1. Evict(q) = Tail(q) /\ q # <<>>
    BY <1>1, <1>3, BatchAssumption DEF Evict
  <2>2. /\ Tail(q) \in Seq(BatchDocs) /\ Len(Tail(q)) = Len(q) - 1
        /\ \A i \in 1..Len(Tail(q)) : i + 1 \in 1..Len(q) /\ Tail(q)[i] = q[i + 1]
    BY <1>1, <2>1
  <2>3. Waits(Tail(q), c, fate)
    BY <1>1, <2>2, BatchAssumption DEF Waits, Ascending
  <2>4. \A i \in 1..Len(Tail(q)) : q[1] < Tail(q)[i]
    BY <1>1, <2>1, <2>2 DEF Waits, Ascending
  <2>5. \A i \in 1..Len(q) : i = 1 \/ Contains(Tail(q), q[i])
    <3> SUFFICES ASSUME NEW i \in 1..Len(q), i # 1 PROVE Contains(Tail(q), q[i])
      OBVIOUS
    <3>1. i - 1 \in 1..Len(Tail(q)) /\ Tail(q)[i - 1] = q[i]
      BY <1>1, <2>2
    <3> QED BY <3>1 DEF Contains
  <2>6. Range(q) \ Range(Tail(q)) = {q[1]}
    <3>1. q[1] \in BatchDocs /\ \A i \in 1..Len(Tail(q)) : Tail(q)[i] \in BatchDocs
      BY <1>1, <2>1, <2>2
    <3>2. q[1] \in Range(q) /\ q[1] \notin Range(Tail(q))
      <4>1. \A i \in 1..Len(Tail(q)) : Tail(q)[i] # q[1]
        <5> SUFFICES ASSUME NEW i \in 1..Len(Tail(q)) PROVE Tail(q)[i] # q[1]
          OBVIOUS
        <5>1. q[1] < Tail(q)[i] /\ q[1] \in Nat /\ Tail(q)[i] \in Nat
          BY <2>4, <3>1, BatchAssumption
        <5> QED BY <5>1
      <4>2. 1 \in DOMAIN q /\ DOMAIN Tail(q) = 1..Len(Tail(q))
        BY <1>1, <2>1, <2>2
      <4> QED BY <4>1, <4>2 DEF Range
    <3>3. \A x \in Range(q) : x = q[1] \/ x \in Range(Tail(q))
      <4> SUFFICES ASSUME NEW x \in Range(q), x # q[1] PROVE x \in Range(Tail(q))
        OBVIOUS
      <4>1. PICK i \in 1..Len(q) : x = q[i]
        BY <1>1 DEF Range
      <4>2. PICK j \in 1..Len(Tail(q)) : Tail(q)[j] = x
        BY <2>5, <4>1 DEF Contains
      <4>3. Tail(q) \in Seq(BatchDocs) /\ DOMAIN Tail(q) = 1..Len(Tail(q))
        BY <2>2
      <4> QED BY <4>2, <4>3 DEF Range
    <3> QED BY <3>2, <3>3
  <2> QED BY <1>3, <2>1, <2>2, <2>3, <2>4, <2>5, <2>6, BatchAssumption
<1> QED BY <1>1, <1>2, <1>3, BatchAssumption

\* restore puts back the newest of a batch.
LEMMA ReturnedKeeps ==
  ASSUME NEW batch, NEW q, NEW c, Waits(batch, c, fate), Waits(q, c, fate),
         \A i \in 1..Len(batch), j \in 1..Len(q) : batch[i] < q[j]
  PROVE  LET back == Returned(batch, q)
         IN  /\ Waits(Before(back, q), c, fate) /\ back \in Seq(BatchDocs)
             /\ Len(q) = Capacity => back = <<>>
             /\ Range(back) \subseteq Range(batch)
             /\ \A d \in Range(batch) \ Range(back), e \in Range(back) : d < e
<1> DEFINE back == Returned(batch, q)
           k == IF Len(batch) <= Capacity - Len(q) THEN 0 ELSE Len(batch) - (Capacity - Len(q))
<1>1. /\ batch \in Seq(BatchDocs) /\ q \in Seq(BatchDocs) /\ Len(batch) \in Nat /\ Len(q) \in Nat
      /\ Len(q) <= Capacity /\ Len(batch) <= Capacity /\ Capacity \in Nat
  BY BatchAssumption DEF Waits
<1>2. k \in 0..Len(batch) /\ Len(batch) - k <= Capacity - Len(q)
  BY <1>1
<1>3. /\ back \in Seq(BatchDocs) /\ Len(back) = Len(batch) - k
      /\ \A i \in 1..Len(back) : i + k \in 1..Len(batch) /\ back[i] = batch[i + k]
  <2>1. CASE Len(batch) <= Capacity - Len(q)
    BY <1>1, <2>1 DEF Returned
  <2>2. CASE ~(Len(batch) <= Capacity - Len(q))
    <3>1. back = SubSeq(batch, k + 1, Len(batch))
      BY <2>2 DEF Returned
    <3>2. k \in Nat /\ k + 1 \in Int /\ Len(batch) \in Int
          /\ \A i \in (k+1)..Len(batch) : batch[i] \in BatchDocs
      BY <1>1, <1>2
    <3> HIDE DEF back, k
    <3>3. /\ back \in Seq(BatchDocs)
          /\ Len(back) = IF k + 1 <= Len(batch) THEN Len(batch) - (k + 1) + 1 ELSE 0
          /\ \A i \in 1..Len(batch) - (k + 1) + 1 : back[i] = batch[k + 1 + i - 1]
      BY <3>1, <3>2, SubSeqProperties
    <3> QED BY <1>1, <1>2, <3>2, <3>3
  <2> QED BY <2>1, <2>2
<1>4. Len(q) = Capacity => back = <<>>
  BY <1>1, <1>2, <1>3
<1> HIDE DEF back, k
<1>5. /\ Before(back, q) \in Seq(BatchDocs) /\ Len(Before(back, q)) = Len(back) + Len(q)
      /\ \A i \in 1..Len(Before(back, q)) :
           Before(back, q)[i] = IF i <= Len(back) THEN back[i] ELSE q[i - Len(back)]
  BY <1>1, <1>3 DEF Before
<1>6. Waits(Before(back, q), c, fate)
  <2>1. Len(Before(back, q)) <= Capacity
    BY <1>1, <1>2, <1>3, <1>5
  <2>2. Ascending(Before(back, q))
    <3> SUFFICES ASSUME NEW i \in 1..Len(Before(back, q)), NEW j \in 1..Len(Before(back, q)),
                        i < j
                 PROVE  Before(back, q)[i] < Before(back, q)[j]
      BY DEF Ascending
    <3>1. CASE j <= Len(back)
      <4>1. Before(back, q)[i] = batch[i + k] /\ Before(back, q)[j] = batch[j + k]
        BY <1>1, <1>3, <1>5, <3>1
      <4>2. i + k \in 1..Len(batch) /\ j + k \in 1..Len(batch) /\ i + k < j + k
        BY <1>1, <1>2, <1>3, <3>1
      <4> QED BY <4>1, <4>2 DEF Waits, Ascending
    <3>2. CASE i <= Len(back) /\ Len(back) < j
      <4>1. Before(back, q)[i] = batch[i + k] /\ i + k \in 1..Len(batch)
        BY <1>1, <1>3, <1>5, <3>2
      <4>2. Before(back, q)[j] = q[j - Len(back)] /\ j - Len(back) \in 1..Len(q)
        BY <1>1, <1>3, <1>5, <3>2
      <4> QED BY <4>1, <4>2
    <3>3. CASE Len(back) < i
      <4>1. Before(back, q)[i] = q[i - Len(back)] /\ i - Len(back) \in 1..Len(q)
        BY <1>1, <1>3, <1>5, <3>3
      <4>2. Before(back, q)[j] = q[j - Len(back)] /\ j - Len(back) \in 1..Len(q)
        BY <1>1, <1>3, <1>5, <3>3
      <4>3. i - Len(back) < j - Len(back)
        BY <1>1, <1>3
      <4> QED BY <4>1, <4>2, <4>3 DEF Waits, Ascending
    <3> QED BY <1>1, <1>3, <1>5, <3>1, <3>2, <3>3
  <2>3. \A i \in 1..Len(Before(back, q)) :
          BatchCollectionOf[Before(back, q)[i]] = c /\ fate[Before(back, q)[i]] = "taken"
    <3> SUFFICES ASSUME NEW i \in 1..Len(Before(back, q)), NEW d, d = Before(back, q)[i]
                 PROVE  BatchCollectionOf[d] = c /\ fate[d] = "taken"
      OBVIOUS
    <3>1. CASE i <= Len(back)
      <4>1. d = batch[i + k] /\ i + k \in 1..Len(batch)
        BY <1>1, <1>3, <1>5, <3>1
      <4> QED BY <4>1 DEF Waits
    <3>2. CASE Len(back) < i
      <4>1. d = q[i - Len(back)] /\ i - Len(back) \in 1..Len(q)
        BY <1>1, <1>3, <1>5, <3>2
      <4> QED BY <4>1 DEF Waits
    <3> QED BY <1>1, <1>3, <1>5, <3>1, <3>2
  <2> QED BY <1>5, <2>1, <2>2, <2>3 DEF Waits
<1>7. Range(back) \subseteq Range(batch)
  BY <1>1, <1>3 DEF Range
<1>8. \A d \in Range(batch) \ Range(back), e \in Range(back) : d < e
  <2> SUFFICES ASSUME NEW d \in Range(batch) \ Range(back), NEW e \in Range(back)
               PROVE  d < e
    OBVIOUS
  <2>1. PICK i \in 1..Len(batch) : d = batch[i]
    BY <1>1 DEF Range
  <2>2. PICK j \in 1..Len(back) : e = back[j]
    BY <1>3 DEF Range
  <2>3. i <= k
    <3>1. i > k => i - k \in 1..Len(back) /\ back[i - k] = batch[i]
      BY <1>1, <1>2, <1>3
    <3> QED BY <1>1, <1>2, <1>3, <2>1, <3>1 DEF Range
  <2>4. e = batch[j + k] /\ i < j + k /\ j + k \in 1..Len(batch)
    BY <1>1, <1>2, <1>3, <2>2, <2>3
  <2> QED BY <1>1, <2>1, <2>4 DEF Waits, Ascending
<1> QED BY <1>3, <1>4, <1>6, <1>7, <1>8 DEF back

\* A batch in flight is of a known collection.
LEMMA CurrentKnown ==
  ASSUME UploaderKinds, loop.batch # <<>>
  PROVE  Current \in BatchCollections
<1>1. loop.batch \in Seq(BatchDocs)
  BY DEF UploaderKinds
<1>2. Head(loop.batch) \in BatchDocs
  BY <1>1
<1> QED BY <1>2, BatchAssumption DEF Current

-----------------------------------------------------------------------------
\* enqueue: a document that comes is younger than all that wait.
LEMMA EnqueueKeeps ==
  ASSUME UploaderInv, NEW d \in BatchDocs, EnqueueDoc(d)
  PROVE  UploaderInv'
<1> DEFINE c == BatchCollectionOf[d]
           b == Evict(buffer[c])
           q == Append(b, d)
           gone == Range(buffer[c]) \ Range(q)
<1>1. c \in BatchCollections /\ Waits(buffer[c], c, fate) /\ Newest(buffer[c], c, fate)
  BY BatchAssumption DEF UploaderInv, Queues
<1>2. /\ Waits(b, c, fate) /\ Len(b) < Capacity
      /\ \/ b = buffer[c]
         \/ /\ Len(buffer[c]) = Capacity /\ Len(b) = Capacity - 1
            /\ Range(buffer[c]) \ Range(b) = {buffer[c][1]}
            /\ \A i \in 1..Len(b) : buffer[c][1] < b[i]
  BY <1>1, EvictKeeps
<1>3. /\ fate[d] = "new" /\ \A e \in BatchDocs : e < d => fate[e] # "new"
      /\ named' \in Seq(BatchCollections)
      /\ buffer' = [buffer EXCEPT ![c] = q]
      /\ fate' = [[e \in BatchDocs |-> IF e \in gone THEN "overflow" ELSE fate[e]]
                    EXCEPT ![d] = "taken"]
      /\ UNCHANGED <<inserted, loop>>
  BY <1>1 DEF EnqueueDoc, Refate, UploaderInv, UploaderKinds
<1>4. \A e \in BatchDocs : fate[e] # "new" => e < d
  BY <1>3, BatchAssumption DEF UploaderInv, InOrder
<1>5. /\ q \in Seq(BatchDocs) /\ Len(q) = Len(b) + 1 /\ b \in Seq(BatchDocs) /\ Len(b) \in Nat
      /\ \A i \in 1..Len(q) : q[i] = IF i <= Len(b) THEN b[i] ELSE d
  BY <1>2 DEF Waits
<1> HIDE DEF b, q
<1>6. \A e \in gone : /\ e \in BatchDocs /\ fate[e] = "taken" /\ BatchCollectionOf[e] = c
                      /\ Len(buffer[c]) = Capacity /\ 1 \in 1..Len(buffer[c])
                      /\ e = buffer[c][1] /\ \A i \in 1..Len(q) : e # q[i]
  <2> SUFFICES ASSUME NEW e \in gone
               PROVE  /\ e \in BatchDocs /\ fate[e] = "taken" /\ BatchCollectionOf[e] = c
                      /\ Len(buffer[c]) = Capacity /\ 1 \in 1..Len(buffer[c])
                      /\ e = buffer[c][1] /\ \A i \in 1..Len(q) : e # q[i]
    OBVIOUS
  <2>1. \A i \in 1..Len(q) : e # q[i]
    BY <1>5 DEF Range
  <2>2. e \notin Range(b)
    <3>1. \A i \in 1..Len(b) : e # b[i]
      BY <1>5, <2>1
    <3> QED BY <1>5, <3>1 DEF Range
  <2>3. Len(buffer[c]) = Capacity /\ e = buffer[c][1] /\ b # buffer[c]
    BY <1>2, <2>2
  <2>4. 1 \in 1..Len(buffer[c])
    BY <2>3, BatchAssumption
  <2> QED BY <1>1, <2>1, <2>3, <2>4 DEF Waits
<1>7. \A e \in gone, i \in 1..Len(q) : e < q[i]
  <2> SUFFICES ASSUME NEW e \in gone, NEW i \in 1..Len(q) PROVE e < q[i]
    OBVIOUS
  <2>1. CASE i <= Len(b)
    <3>1. e # b[i] /\ q[i] = b[i] /\ i \in 1..Len(b)
      BY <1>5, <1>6, <2>1
    <3>2. e = buffer[c][1] /\ 1 \in 1..Len(buffer[c]) /\ Ascending(buffer[c])
      BY <1>1, <1>6 DEF Waits
    <3>3. CASE b = buffer[c]
      BY <3>1, <3>2, <3>3 DEF Ascending
    <3>4. CASE b # buffer[c]
      BY <1>2, <3>1, <3>2, <3>4
    <3> QED BY <3>3, <3>4
  <2>2. CASE i > Len(b)
    BY <1>4, <1>5, <1>6, <2>2
  <2> QED BY <1>5, <2>1, <2>2
<1>8. fate' \in [BatchDocs -> Fates] /\ UploaderKinds'
  BY <1>1, <1>3, <1>5 DEF UploaderInv, UploaderKinds, Fates
<1>9. \A e \in BatchDocs : fate[e] = "taken" /\ e \notin gone => fate'[e] = "taken"
  BY <1>3 DEF UploaderInv, UploaderKinds
<1>14. Waits(q, c, fate')
  <2>1. Ascending(q)
    <3> SUFFICES ASSUME NEW i \in 1..Len(q), NEW j \in 1..Len(q), i < j PROVE q[i] < q[j]
      BY DEF Ascending
    <3>1. i \in 1..Len(b) /\ q[i] = b[i] /\ b[i] \in BatchDocs /\ fate[b[i]] = "taken"
      BY <1>2, <1>5 DEF Waits
    <3>2. CASE j <= Len(b)
      BY <1>2, <1>5, <3>1, <3>2 DEF Waits, Ascending
    <3>3. CASE j > Len(b)
      BY <1>4, <1>5, <3>1, <3>3
    <3> QED BY <1>5, <3>2, <3>3
  <2>2. Len(q) <= Capacity
    BY <1>2, <1>5, BatchAssumption
  <2>3. ASSUME NEW i \in 1..Len(q)
        PROVE  BatchCollectionOf[q[i]] = c /\ fate'[q[i]] = "taken"
    <3>1. CASE i <= Len(b)
      <4>1. q[i] = b[i] /\ BatchCollectionOf[b[i]] = c /\ fate[b[i]] = "taken" /\ b[i] \in BatchDocs
        BY <1>2, <1>5, <3>1 DEF Waits
      <4>2. q[i] \notin gone
        BY <1>6
      <4> QED BY <1>9, <4>1, <4>2
    <3>2. CASE i > Len(b)
      <4>1. q[i] = d
        BY <1>5, <3>2
      <4>2. fate'[d] = "taken"
        BY <1>3 DEF UploaderInv, UploaderKinds
      <4> QED BY <4>1, <4>2
    <3> QED BY <1>5, <3>1, <3>2
  <2> QED BY <1>5, <2>1, <2>2, <2>3 DEF Waits
<1>15. \A e \in BatchDocs : fate'[e] = "overflow" => e \in gone \/ (fate[e] = "overflow" /\ e # d)
  BY <1>3 DEF UploaderInv, UploaderKinds
<1>16. buffer'[c] = q /\ \A x \in BatchCollections : x # c => buffer'[x] = buffer[x]
  BY <1>1, <1>3 DEF UploaderInv, UploaderKinds
<1>10. Queues(buffer, fate)'
  <2>1. Newest(q, c, fate')
    <3> SUFFICES ASSUME NEW e \in BatchDocs, NEW i \in 1..Len(q), BatchCollectionOf[e] = c,
                        fate[e] = "overflow"
                 PROVE  e < q[i]
      BY <1>7, <1>15 DEF Newest
    <3>1. CASE i <= Len(b)
      <4>1. q[i] = b[i] /\ i \in 1..Len(b)
        BY <1>5, <3>1
      <4>2. CASE b = buffer[c]
        BY <1>1, <4>1, <4>2 DEF Newest
      <4>3. CASE b # buffer[c]
        <5>1. buffer[c][1] < b[i] /\ 1 \in 1..Len(buffer[c])
          BY <1>2, <4>1, <4>3, BatchAssumption
        <5>2. e < buffer[c][1]
          BY <1>1, <5>1 DEF Newest
        <5>3. buffer[c][1] \in BatchDocs /\ b[i] \in BatchDocs
          BY <1>1, <1>5, <4>1, <5>1 DEF Waits
        <5>4. e \in Nat /\ buffer[c][1] \in Nat /\ b[i] \in Nat
          BY <5>3, BatchAssumption
        <5> QED BY <4>1, <5>1, <5>2, <5>4
      <4> QED BY <4>2, <4>3
    <3>2. CASE i > Len(b)
      BY <1>4, <1>5, <3>2
    <3> QED BY <1>5, <3>1, <3>2
  <2>2. ASSUME NEW x \in BatchCollections, x # c
        PROVE  Waits(buffer[x], x, fate') /\ Newest(buffer[x], x, fate')
    <3>1. Waits(buffer[x], x, fate) /\ Newest(buffer[x], x, fate)
      BY DEF UploaderInv, Queues
    <3>2. \A i \in 1..Len(buffer[x]) : buffer[x][i] \in BatchDocs /\ buffer[x][i] \notin gone
      BY <1>6, <2>2, <3>1 DEF Waits
    <3> QED BY <1>6, <1>9, <1>15, <2>2, <3>1, <3>2 DEF Waits, Newest
  <2> QED BY <1>14, <1>16, <2>1, <2>2 DEF Queues
<1>11. InFlight'
  <2> SUFFICES ASSUME loop.batch # <<>> PROVE InFlight'
    BY <1>3 DEF InFlight
  <2> DEFINE o == Current
  <2>1. /\ Waits(loop.batch, o, fate)
        /\ \A i \in 1..Len(loop.batch), j \in 1..Len(buffer[o]) : loop.batch[i] < buffer[o][j]
        /\ \A e \in BatchDocs, i \in 1..Len(loop.batch) :
             BatchCollectionOf[e] = o /\ fate[e] = "overflow" /\ loop.batch[i] < e
             => Len(buffer[o]) = Capacity
    BY DEF UploaderInv, InFlight
  <2>2. loop' = loop /\ Current' = o
    BY <1>3 DEF Current
  <2>3. o \in BatchCollections
    BY CurrentKnown DEF UploaderInv
  <2> HIDE DEF o
  <2>4. Waits(loop.batch, o, fate')
    <3>1. ASSUME NEW i \in 1..Len(loop.batch) PROVE fate'[loop.batch[i]] = "taken"
      <4>1. loop.batch[i] \in BatchDocs /\ fate[loop.batch[i]] = "taken"
            /\ BatchCollectionOf[loop.batch[i]] = o
        BY <2>1 DEF Waits
      <4>2. loop.batch[i] \notin gone
        <5> SUFFICES ASSUME loop.batch[i] \in gone PROVE FALSE
          OBVIOUS
        <5>1. o = c /\ 1 \in 1..Len(buffer[c]) /\ loop.batch[i] = buffer[c][1]
          BY <1>6, <4>1
        <5>2. loop.batch[i] < loop.batch[i] /\ loop.batch[i] \in Nat
          BY <2>1, <4>1, <5>1, BatchAssumption
        <5> QED BY <5>2
      <4> QED BY <1>9, <4>1, <4>2
    <3> QED BY <2>1, <3>1 DEF Waits
  <2>5. ASSUME NEW i \in 1..Len(loop.batch), NEW j \in 1..Len(buffer'[o])
        PROVE  loop.batch[i] < buffer'[o][j]
    <3>1. CASE o # c
      BY <1>16, <2>1, <2>3, <2>5, <3>1
    <3>2. CASE o = c
      <4>1. loop.batch[i] \in BatchDocs /\ fate[loop.batch[i]] = "taken"
        BY <2>1 DEF Waits
      <4>2. buffer'[o] = q /\ j \in 1..Len(q)
        BY <1>16, <2>5, <3>2
      <4>3. CASE j <= Len(b)
        <5>1. q[j] = b[j] /\ j \in 1..Len(b)
          BY <1>5, <4>2, <4>3
        <5>2. CASE b = buffer[c]
          BY <2>1, <3>2, <4>2, <5>1, <5>2
        <5>3. CASE b # buffer[c]
          <6>1. buffer[c][1] < b[j] /\ 1 \in 1..Len(buffer[c])
            BY <1>2, <5>1, <5>3, BatchAssumption
          <6>2. loop.batch[i] < buffer[c][1]
            BY <2>1, <3>2, <6>1
          <6>3. buffer[c][1] \in BatchDocs /\ b[j] \in BatchDocs
            BY <1>1, <1>5, <5>1, <6>1 DEF Waits
          <6>4. loop.batch[i] \in Nat /\ buffer[c][1] \in Nat /\ b[j] \in Nat
            BY <4>1, <6>3, BatchAssumption
          <6> QED BY <4>2, <5>1, <6>1, <6>2, <6>4
        <5> QED BY <5>2, <5>3
      <4>4. CASE j > Len(b)
        BY <1>4, <1>5, <4>1, <4>2, <4>4
      <4> QED BY <1>5, <4>2, <4>3, <4>4
    <3> QED BY <3>1, <3>2
  <2>6. ASSUME NEW e \in BatchDocs, NEW i \in 1..Len(loop.batch), BatchCollectionOf[e] = o,
               fate'[e] = "overflow", loop.batch[i] < e
        PROVE  Len(buffer'[o]) = Capacity
    <3>1. Len(buffer[o]) = Capacity
      BY <1>6, <1>15, <2>1, <2>6
    <3>2. CASE o # c
      BY <1>16, <2>3, <3>1, <3>2
    <3>3. CASE o = c
      BY <1>2, <1>5, <1>16, <3>1, <3>3, BatchAssumption
    <3> QED BY <3>2, <3>3
  <2> QED BY <2>2, <2>4, <2>5, <2>6 DEF InFlight
<1>12. InOrder'
  BY <1>3, <1>4, <1>6, BatchAssumption DEF InOrder, UploaderInv, UploaderKinds
<1>13. NothingVanishes'
  <2> SUFFICES ASSUME NEW e \in BatchDocs, fate'[e] = "taken", e \notin inserted'
               PROVE  Contains(buffer'[BatchCollectionOf[e]], e) \/ Contains(loop'.batch, e)
    BY DEF NothingVanishes, Held
  <2>1. CASE e = d
    <3>1. q[Len(b) + 1] = d /\ Len(b) + 1 \in 1..Len(q)
      BY <1>5
    <3> QED BY <1>16, <2>1, <3>1 DEF Contains
  <2>2. CASE e # d
    <3>1. fate[e] = "taken" /\ e \notin gone /\ e \notin inserted
      BY <1>3, <2>2 DEF UploaderInv, UploaderKinds
    <3>2. Contains(buffer[BatchCollectionOf[e]], e) \/ Contains(loop.batch, e)
      BY <3>1 DEF UploaderInv, NothingVanishes, Held
    <3>3. CASE BatchCollectionOf[e] = c /\ Contains(buffer[c], e)
      <4>1. e \in Range(buffer[c])
        BY <1>1, <3>3 DEF Contains, Range, Waits
      <4>2. e \in Range(q)
        BY <3>1, <4>1
      <4>3. Contains(q, e)
        BY <1>5, <4>2 DEF Contains, Range
      <4> QED BY <1>16, <3>3, <4>3
    <3>4. CASE BatchCollectionOf[e] # c
      BY <1>3, <1>16, <3>2, <3>4, BatchAssumption
    <3> QED BY <1>3, <3>2, <3>3, <3>4
  <2> QED BY <2>1, <2>2
<1> QED BY <1>8, <1>10, <1>11, <1>12, <1>13 DEF UploaderInv

\* start and stop, and the flush that begins.
LEMMA StartStopKeeps ==
  ASSUME UploaderInv, StartUploader \/ StopUploader
  PROVE  UploaderInv'
<1>1. CASE StartUploader
  <2>1. loop.batch = <<>> /\ loop' = Waiting
    BY <1>1 DEF StartUploader, UploaderInv, UploaderKinds, Flushing
  <2>2. <<>> \in Seq(BatchDocs) /\ <<>> \in Seq(BatchCollections) /\ Waiting.at \notin Flushing
        /\ Waiting.batch = <<>>
    BY DEF Waiting, Flushing
  <2>3. UploaderKinds'
    BY <1>1, <2>1, <2>2 DEF StartUploader, UploaderInv, UploaderKinds, Waiting
  <2> QED BY <1>1, <2>1, <2>2, <2>3 DEF StartUploader, UploaderInv, Queues, InFlight, InOrder,
                                        NothingVanishes, Held
<1>2. CASE StopUploader
  BY <1>2 DEF StopUploader, UploaderInv, UploaderKinds, Queues, InFlight, InOrder,
              NothingVanishes, Held,
              Current
<1> QED BY <1>1, <1>2

\* What waits in a queue or is in the batch; the rest of what was taken is in MongoDB.
LEMMA HeldWhere ==
  ASSUME UploaderInv, NEW d \in BatchDocs, fate[d] = "taken", d \notin inserted
  PROVE  Contains(buffer[BatchCollectionOf[d]], d) \/ Contains(loop.batch, d)
BY DEF UploaderInv, NothingVanishes, Held

\* A flush that begins puts its first queue in flight.
LEMMA TriggeredKeeps ==
  ASSUME UploaderInv, Triggered
  PROVE  UploaderInv'
<1>1. loop.batch = <<>>
  BY DEF Triggered, UploaderInv, UploaderKinds, Flushing
<1>2. UNCHANGED <<named, fate, inserted>>
  BY DEF Triggered
<1>3. PICK at \in Flushing : FlushOn(at, named, buffer)
  BY DEF Triggered, Flushing
<1>4. ASSUME NEW d \in BatchDocs, fate'[d] = "taken"
      PROVE  Contains(buffer[BatchCollectionOf[d]], d) \/ d \in inserted'
  <2>1. ~Contains(loop.batch, d)
    BY <1>1 DEF Contains
  <2> QED BY <1>2, <1>4, <2>1, HeldWhere
<1> QED
  BY <1>2, <1>3, <1>4, FlushKeeps DEF UploaderInv, UploaderKinds, InOrder

\* write_batch that is answered leaves its documents in MongoDB.
LEMMA WrittenKeeps ==
  ASSUME UploaderInv, Written
  PROVE  UploaderInv'
<1>1. /\ UNCHANGED <<named, fate>> /\ inserted' = inserted \cup Range(loop.batch)
      /\ loop.at \in Flushing /\ FlushOn(loop.at, loop.left, buffer)
  BY DEF Written
<1>2. loop.left \in Seq(BatchCollections) /\ loop.batch \in Seq(BatchDocs)
  BY DEF UploaderInv, UploaderKinds
<1>3. inserted' \subseteq BatchDocs
  BY <1>1, <1>2 DEF Range, UploaderInv, UploaderKinds
<1>4. ASSUME NEW d \in BatchDocs, fate'[d] = "taken"
      PROVE  Contains(buffer[BatchCollectionOf[d]], d) \/ d \in inserted'
  <2>1. Contains(loop.batch, d) => d \in Range(loop.batch)
    BY <1>2 DEF Contains, Range
  <2> QED BY <1>1, <1>4, <2>1, HeldWhere
<1> QED
  BY <1>1, <1>2, <1>3, <1>4, FlushKeeps DEF UploaderInv, UploaderKinds, InOrder

\* Documents of the batch leave the queues alone when their fate is decided.
LEMMA RefateKeeps ==
  ASSUME UploaderInv, loop.batch # <<>>, NEW gone \in SUBSET BatchDocs,
         \A d \in gone : \E i \in 1..Len(loop.batch) : d = loop.batch[i],
         NEW end \in Fates \ {"new", "taken"}, fate' = Refate(gone, end)
  PROVE  /\ fate' \in [BatchDocs -> Fates] /\ InOrder'
         /\ \A c \in BatchCollections : Waits(buffer[c], c, fate') /\ Newest(buffer[c], c, fate')
<1>1. /\ Waits(loop.batch, Current, fate) /\ Current \in BatchCollections
      /\ \A i \in 1..Len(loop.batch), j \in 1..Len(buffer[Current]) :
           loop.batch[i] < buffer[Current][j]
  BY CurrentKnown DEF UploaderInv, InFlight
<1>2. ASSUME NEW d \in gone
      PROVE  \E i \in 1..Len(loop.batch) : /\ d = loop.batch[i] /\ d \in BatchDocs
                                           /\ fate[d] = "taken" /\ BatchCollectionOf[d] = Current
  <2>1. PICK i \in 1..Len(loop.batch) : d = loop.batch[i]
    OBVIOUS
  <2> QED BY <1>1, <2>1 DEF Waits
<1>3. fate' \in [BatchDocs -> Fates]
      /\ \A d \in BatchDocs : fate'[d] = IF d \in gone THEN end ELSE fate[d]
  BY DEF Refate, Fates, UploaderInv, UploaderKinds
<1>4. InOrder'
  BY <1>2, <1>3 DEF InOrder, UploaderInv
<1>5. ASSUME NEW c \in BatchCollections
      PROVE  Waits(buffer[c], c, fate') /\ Newest(buffer[c], c, fate')
  <2> DEFINE q == buffer[c]
  <2>1. Waits(q, c, fate) /\ Newest(q, c, fate)
    BY DEF UploaderInv, Queues
  <2>5. c = Current => \A i \in 1..Len(loop.batch), j \in 1..Len(q) : loop.batch[i] < q[j]
    BY <1>1
  <2> HIDE DEF q
  <2>2. ASSUME NEW i \in 1..Len(q)
        PROVE  q[i] \notin gone /\ q[i] \in BatchDocs
    <3> DEFINE x == q[i]
    <3>1. x \in BatchDocs /\ BatchCollectionOf[x] = c
      <4>1. q \in Seq(BatchDocs)
        BY <2>1 DEF Waits
      <4> QED BY <2>1, <4>1 DEF Waits
    <3>2. ASSUME x \in gone PROVE FALSE
      <4>1. PICK k \in 1..Len(loop.batch) : x = loop.batch[k] /\ c = Current
        BY <1>2, <3>1, <3>2
      <4>2. loop.batch[k] < x
        BY <2>5, <4>1
      <4> HIDE DEF x
      <4>3. x < x /\ x \in Nat
        BY <3>1, <4>1, <4>2, BatchAssumption
      <4> QED BY <4>3
    <3> QED BY <3>1, <3>2
  <2>3. Waits(q, c, fate')
    BY <1>3, <2>1, <2>2 DEF Waits
  <2>4. ASSUME NEW d \in BatchDocs, NEW i \in 1..Len(q), BatchCollectionOf[d] = c,
               fate'[d] = "overflow"
        PROVE  d < q[i]
    <3>1. CASE d \in gone
      BY <1>2, <2>4, <2>5, <3>1
    <3>2. CASE d \notin gone
      BY <1>3, <2>1, <2>4, <3>2 DEF Newest
    <3> QED BY <3>1, <3>2
  <2> QED BY <2>3, <2>4 DEF Newest, q
<1> QED BY <1>3, <1>4, <1>5

\* What a failed attempt has inserted are documents.
LEMMA PrefixInserted ==
  ASSUME UploaderKinds, NEW n \in 0..(Obstacle(loop.batch) - 1)
  PROVE  inserted \cup Prefix(loop.batch, n) \subseteq BatchDocs
<1> DEFINE batch == loop.batch
           bad == {i \in DOMAIN batch : batch[i] \in Refused \cup inserted}
<1>1. batch \in Seq(BatchDocs) /\ inserted \subseteq BatchDocs
  BY DEF UploaderKinds
<1>2. Obstacle(batch) \in 1..(Len(batch) + 1)
  <2>1. CASE bad = {}
    <3>1. Obstacle(batch) = Len(batch) + 1
      BY <2>1 DEF Obstacle
    <3>2. Len(batch) \in Nat
      BY <1>1
    <3> HIDE DEF bad, batch
    <3> QED BY <3>1, <3>2
  <2>2. CASE bad # {}
    <3>1. bad \subseteq 1..Len(batch) /\ bad \in SUBSET Nat
      BY <1>1
    <3>2. Obstacle(batch) = CHOOSE i \in bad : \A j \in bad : i <= j
      BY <2>2, Zenon DEF Obstacle
    <3> HIDE DEF bad, batch
    <3>3. \E i \in bad : \A j \in bad : i <= j
      BY <2>2, <3>1, Smallest
    <3>4. Obstacle(batch) \in bad
      BY <3>2, <3>3
    <3>5. Len(batch) \in Nat
      BY <1>1
    <3>6. Obstacle(batch) \in 1..Len(batch)
      BY <3>1, <3>4
    <3> QED BY <3>5, <3>6
  <2> QED BY <2>1, <2>2
<1> HIDE DEF batch
<1>3. ASSUME NEW i \in 1..n PROVE batch[i] \in BatchDocs
  <2>1. n \in 0..(Obstacle(batch) - 1)
    BY DEF batch
  <2>2. i \in 1..Len(batch)
    BY <1>1, <1>2, <1>3, <2>1
  <2> QED BY <1>1, <2>2
<1> QED BY <1>1, <1>3 DEF Prefix, batch

\* _handle_write_failure: what comes back is older than what came meanwhile and younger
\* than what was dropped.
LEMMA InsertFailsKeeps ==
  ASSUME UploaderInv, InsertFails
  PROVE  UploaderInv'
<1> DEFINE c == Current
           q == buffer[c]
           n == Failures(retries[c])
           back == IF n <= MaxRetry THEN Returned(loop.batch, q) ELSE <<>>
           gone == Range(loop.batch) \ Range(back)
           end == IF n <= MaxRetry THEN "overflow" ELSE "given up"
           bufs == [buffer EXCEPT ![c] = Before(back, @)]
<1>1. /\ loop.at \in Flushing /\ loop.batch # <<>> /\ c \in BatchCollections
      /\ loop.batch \in Seq(BatchDocs) /\ loop.left \in Seq(BatchCollections)
      /\ buffer \in [BatchCollections -> Seq(BatchDocs)]
  BY CurrentKnown DEF InsertFails, UploaderInv, UploaderKinds
<1>2. /\ fate' = Refate(gone, end) /\ FlushOn(loop.at, loop.left, bufs)
      /\ named' = named
  BY DEF InsertFails, Handled
<1>3. inserted \subseteq inserted' /\ inserted' \subseteq BatchDocs
  <2>1. PICK k \in 0..(Obstacle(loop.batch) - 1) : inserted' = inserted \cup Prefix(loop.batch, k)
    BY DEF InsertFails
  <2> QED BY <2>1, PrefixInserted DEF UploaderInv
<1>4. /\ Waits(loop.batch, c, fate) /\ Waits(q, c, fate) /\ q \in Seq(BatchDocs)
      /\ \A i \in 1..Len(loop.batch), j \in 1..Len(q) : loop.batch[i] < q[j]
      /\ \A d \in BatchDocs, i \in 1..Len(loop.batch) :
           BatchCollectionOf[d] = c /\ fate[d] = "overflow" /\ loop.batch[i] < d
           => Len(q) = Capacity
  BY <1>1 DEF UploaderInv, InFlight, Queues, Waits
<1>5. /\ Waits(Before(back, q), c, fate) /\ back \in Seq(BatchDocs)
      /\ Len(q) = Capacity => back = <<>>
      /\ Range(back) \subseteq Range(loop.batch)
      /\ \A d \in gone, e \in Range(back) : d < e
  <2>1. CASE n <= MaxRetry
    BY <1>4, <2>1, ReturnedKeeps
  <2>2. CASE ~(n <= MaxRetry)
    <3>1. back = <<>>
      BY <2>2
    <3> HIDE DEF back, q, gone
    <3>2. back \in Seq(BatchDocs) /\ Range(back) = {} /\ Before(back, q) = q
      BY <1>4, <3>1 DEF Range, Before
    <3> QED BY <1>4, <3>1, <3>2
  <2> QED BY <2>1, <2>2
<1>6. end \in Fates \ {"new", "taken"}
  BY DEF Fates
<1> HIDE DEF c, q, n, back, end
<1>7. gone \in SUBSET BatchDocs /\ \A d \in gone : \E i \in 1..Len(loop.batch) : d = loop.batch[i]
  BY <1>1 DEF Range
<1>8. /\ fate' \in [BatchDocs -> Fates] /\ InOrder'
      /\ \A x \in BatchCollections : Waits(buffer[x], x, fate') /\ Newest(buffer[x], x, fate')
  BY <1>1, <1>2, <1>6, <1>7, RefateKeeps
<1>9. /\ \A d \in BatchDocs : fate'[d] = IF d \in gone THEN end ELSE fate[d]
      /\ end # "taken"
  BY <1>2, <1>6 DEF Refate
<1>16. /\ Before(back, q) \in Seq(BatchDocs)
       /\ \A i \in 1..Len(Before(back, q)) :
            \/ Before(back, q)[i] \in Range(back)
            \/ \E j \in 1..Len(q) : Before(back, q)[i] = q[j]
  <2>1. /\ Before(back, q) \in Seq(BatchDocs) /\ Len(Before(back, q)) = Len(back) + Len(q)
        /\ \A i \in 1..Len(Before(back, q)) :
             Before(back, q)[i] = IF i <= Len(back) THEN back[i] ELSE q[i - Len(back)]
    BY <1>4, <1>5 DEF Before
  <2> SUFFICES ASSUME NEW i \in 1..Len(Before(back, q))
               PROVE  \/ Before(back, q)[i] \in Range(back)
                      \/ \E j \in 1..Len(q) : Before(back, q)[i] = q[j]
    BY <2>1
  <2>2. CASE i <= Len(back)
    <3>1. i \in DOMAIN back /\ Before(back, q)[i] = back[i]
      BY <1>5, <2>1, <2>2
    <3> QED BY <3>1 DEF Range
  <2>3. CASE i > Len(back)
    <3>1. i - Len(back) \in 1..Len(q) /\ Before(back, q)[i] = q[i - Len(back)]
      BY <1>4, <1>5, <2>1, <2>3
    <3> QED BY <3>1
  <2> QED BY <1>5, <2>2, <2>3
<1>18. \A e \in Range(loop.batch) : \E k \in 1..Len(loop.batch) : e = loop.batch[k]
  BY <1>1 DEF Range
<1>17. Waits(q, c, fate') /\ Newest(q, c, fate')
  BY <1>1, <1>8 DEF q
<1>10. Waits(Before(back, q), c, fate')
  <2>1. ASSUME NEW i \in 1..Len(Before(back, q))
        PROVE  fate'[Before(back, q)[i]] = "taken"
    <3>1. CASE Before(back, q)[i] \in Range(back)
      <4>1. fate[Before(back, q)[i]] = "taken" /\ Before(back, q)[i] \in BatchDocs
        BY <1>5, <1>16 DEF Waits
      <4> QED BY <1>9, <3>1, <4>1
    <3>2. CASE \E j \in 1..Len(q) : Before(back, q)[i] = q[j]
      BY <1>17, <3>2 DEF Waits
    <3> QED BY <1>16, <3>1, <3>2
  <2> QED BY <1>5, <2>1 DEF Waits
<1>11. Newest(Before(back, q), c, fate')
  <2> SUFFICES ASSUME NEW d \in BatchDocs, NEW i \in 1..Len(Before(back, q)),
                      BatchCollectionOf[d] = c,
                      fate'[d] = "overflow"
               PROVE  d < Before(back, q)[i]
    BY DEF Newest
  <2>1. CASE \E j \in 1..Len(q) : Before(back, q)[i] = q[j]
    BY <1>17, <2>1 DEF Newest
  <2>2. CASE Before(back, q)[i] \in Range(back)
    <3>1. CASE d \in gone
      BY <1>5, <2>2, <3>1
    <3>2. CASE d \notin gone
      <4>1. fate[d] = "overflow"
        BY <1>9, <3>2
      <4>7. Before(back, q)[i] \in Range(loop.batch)
        BY <1>5, <2>2
      <4>2. PICK k \in 1..Len(loop.batch) : Before(back, q)[i] = loop.batch[k]
        BY <1>18, <4>7
      <4>3. loop.batch[k] \in BatchDocs /\ fate[loop.batch[k]] = "taken"
        BY <1>4 DEF Waits
      <4>4. back # <<>>
        BY <2>2 DEF Range
      <4>5. ~(loop.batch[k] < d)
        BY <1>4, <1>5, <4>1, <4>4
      <4>6. d \in Nat /\ loop.batch[k] \in Nat /\ d # loop.batch[k]
        BY <4>1, <4>3, BatchAssumption
      <4> QED BY <4>2, <4>5, <4>6
    <3> QED BY <3>1, <3>2
  <2> QED BY <1>16, <2>1, <2>2
<1>12. Queues(bufs, fate')
  BY <1>1, <1>8, <1>10, <1>11 DEF Queues, q
<1>13. ASSUME NEW d \in BatchDocs, fate'[d] = "taken"
       PROVE  Contains(bufs[BatchCollectionOf[d]], d) \/ d \in inserted'
  <2>1. fate[d] = "taken" /\ d \notin gone
    BY <1>9, <1>13
  <2> SUFFICES ASSUME d \notin inserted PROVE Contains(bufs[BatchCollectionOf[d]], d)
    BY <1>3
  <2>2. Contains(buffer[BatchCollectionOf[d]], d) \/ Contains(loop.batch, d)
    BY <2>1, HeldWhere
  <2>3. bufs[c] = Before(back, q) /\ \A x \in BatchCollections : x # c => bufs[x] = buffer[x]
    BY <1>1 DEF q
  <2>4. /\ Len(Before(back, q)) = Len(back) + Len(q)
        /\ \A i \in 1..Len(back) : Before(back, q)[i] = back[i]
        /\ \A j \in 1..Len(q) : Before(back, q)[Len(back) + j] = q[j]
    BY <1>4, <1>5 DEF Before
  <2>5. Len(back) \in Nat /\ Len(q) \in Nat
    BY <1>4, <1>5
  <2> HIDE DEF bufs
  <2>6. CASE Contains(loop.batch, d)
    <3>1. PICK k \in 1..Len(loop.batch) : loop.batch[k] = d
      BY <2>6 DEF Contains
    <3>2. BatchCollectionOf[d] = c
      BY <1>4, <3>1 DEF Waits
    <3>3. d \in Range(back)
      BY <1>1, <2>1, <3>1 DEF Range
    <3>4. PICK i \in 1..Len(back) : back[i] = d
      BY <1>5, <3>3 DEF Range
    <3>5. i \in 1..Len(Before(back, q)) /\ Before(back, q)[i] = d
      BY <2>4, <2>5, <3>4
    <3> QED BY <2>3, <3>2, <3>5 DEF Contains
  <2>7. CASE Contains(buffer[BatchCollectionOf[d]], d)
    <3>1. CASE BatchCollectionOf[d] = c
      <4>1. PICK j \in 1..Len(q) : q[j] = d
        BY <2>7, <3>1 DEF Contains, q
      <4>2. Len(back) + j \in 1..Len(Before(back, q)) /\ Before(back, q)[Len(back) + j] = d
        BY <2>4, <2>5, <4>1
      <4> QED BY <2>3, <3>1, <4>2 DEF Contains
    <3>2. CASE BatchCollectionOf[d] # c
      <4>1. BatchCollectionOf[d] \in BatchCollections
        BY BatchAssumption
      <4> QED BY <2>3, <2>7, <3>2, <4>1
    <3> QED BY <3>1, <3>2
  <2> QED BY <2>2, <2>6, <2>7
<1>14. bufs \in [BatchCollections -> Seq(BatchDocs)]
  BY <1>1, <1>5 DEF Waits, q
<1>15. named' \in Seq(BatchCollections)
  BY <1>2 DEF UploaderInv, UploaderKinds
<1> QED
  BY <1>1, <1>2, <1>3, <1>8, <1>12, <1>13, <1>14, <1>15, FlushKeeps

\* The batch a cancelled stop cuts off is in no queue, and the queues are as they were.
LEMMA CancelledStopKeeps ==
  ASSUME UploaderInv, CancelledStop
  PROVE  UploaderInv'
<1> DEFINE gone == Range(loop.batch)
           end == "cut off"
<1>1. /\ loop.batch \in Seq(BatchDocs) /\ named \in Seq(BatchCollections)
      /\ buffer \in [BatchCollections -> Seq(BatchDocs)]
      /\ fate \in [BatchDocs -> Fates]
  BY DEF UploaderInv, UploaderKinds
<1>2. fate' = Refate(gone, end) /\ named' = named
  BY DEF CancelledStop
<1>3. \/ loop' = Off /\ UNCHANGED buffer
      \/ FlushOn("cancelled", named, buffer)
  BY DEF CancelledStop
<1>4. inserted \subseteq inserted' /\ inserted' \subseteq BatchDocs
  <2>1. PICK k \in 0..(Obstacle(loop.batch) - 1) : inserted' = inserted \cup Prefix(loop.batch, k)
    BY DEF CancelledStop
  <2> QED BY <2>1, PrefixInserted DEF UploaderInv
<1>5. end \in Fates \ {"new", "taken"}
  BY DEF Fates
<1>6. "cancelled" \in Flushing /\ Off.at \notin Flushing /\ Off.batch = <<>>
      /\ Off.left = <<>> /\ Off.at = "off"
  BY DEF Flushing, Off
<1> HIDE DEF end
<1>7. gone \in SUBSET BatchDocs /\ \A d \in gone : \E i \in 1..Len(loop.batch) : d = loop.batch[i]
  BY <1>1 DEF Range
<1>8. /\ fate' \in [BatchDocs -> Fates] /\ InOrder'
      /\ \A x \in BatchCollections : Waits(buffer[x], x, fate') /\ Newest(buffer[x], x, fate')
  <2>1. CASE loop.batch # <<>>
    BY <1>2, <1>5, <1>7, <2>1, RefateKeeps
  <2>2. CASE loop.batch = <<>>
    <3>1. gone = {}
      BY <2>2 DEF Range
    <3>2. fate' = [d \in BatchDocs |-> fate[d]]
      BY <1>2, <3>1, Zenon DEF Refate
    <3>3. fate' = fate
      BY <1>1, <3>2
    <3> QED BY <1>1, <3>3 DEF InOrder, UploaderInv, Queues
  <2> QED BY <2>1, <2>2
<1>9. Queues(buffer, fate')
  BY <1>8 DEF Queues
<1>10. ASSUME NEW d \in BatchDocs, fate'[d] = "taken"
       PROVE  Contains(buffer[BatchCollectionOf[d]], d) \/ d \in inserted'
  <2>1. fate[d] = "taken" /\ d \notin gone
    BY <1>2, <1>5, <1>10 DEF Refate
  <2>2. Contains(loop.batch, d) => d \in gone
    BY <1>1 DEF Contains, Range
  <2> QED BY <1>4, <2>1, <2>2, HeldWhere
<1>11. CASE FlushOn("cancelled", named, buffer)
  BY <1>1, <1>2, <1>4, <1>6, <1>8, <1>9, <1>10, <1>11, FlushKeeps
<1>12. CASE loop' = Off /\ UNCHANGED buffer
  <2>1. UploaderKinds'
    <3>1. <<>> \in Seq(BatchDocs) /\ <<>> \in Seq(BatchCollections)
      OBVIOUS
    <3> QED BY <1>1, <1>2, <1>4, <1>6, <1>8, <1>12, <3>1 DEF UploaderKinds, Off
  <2>2. InFlight'
    BY <1>6, <1>12 DEF InFlight
  <2>3. NothingVanishes'
    BY <1>10, <1>12 DEF NothingVanishes, Held
  <2>4. Queues(buffer', fate')
    BY <1>9, <1>12
  <2> QED BY <1>8, <2>1, <2>2, <2>3, <2>4 DEF UploaderInv
<1> QED BY <1>3, <1>11, <1>12

\* Every step keeps the invariant.
LEMMA UploaderSteps ==
  ASSUME UploaderInv, [UploaderNext]_uploaderVars
  PROVE  UploaderInv'
<1>1. CASE UNCHANGED uploaderVars
  BY <1>1 DEF uploaderVars, UploaderInv, UploaderKinds, Queues, InFlight, InOrder,
              NothingVanishes, Held, Current
<1>2. CASE UploaderNext
  BY <1>2, EnqueueKeeps, StartStopKeeps, TriggeredKeeps, WrittenKeeps, InsertFailsKeeps,
     CancelledStopKeeps DEF UploaderNext
<1> QED BY <1>1, <1>2

\* The batch in flight and the queue behind it are one line in the order of submission.
LEMMA LineHolds ==
  ASSUME UploaderInv
  PROVE  LinesInOrder
<1> SUFFICES ASSUME NEW c \in BatchCollections
             PROVE  LET line == (IF loop.at \in Flushing /\ Current = c THEN loop.batch ELSE <<>>)
                                \o buffer[c]
                    IN  /\ \A i, j \in DOMAIN line : i < j => line[i] < line[j]
                        /\ \A d \in BatchDocs, e \in Range(buffer[c]) :
                             BatchCollectionOf[d] = c /\ fate[d] = "overflow" => d < e
  BY DEF LinesInOrder
<1> DEFINE out == IF loop.at \in Flushing /\ Current = c THEN loop.batch ELSE <<>>
           q == buffer[c]
           line == out \o q
<1>1. q \in Seq(BatchDocs) /\ Ascending(q) /\ Newest(q, c, fate)
  BY DEF UploaderInv, Queues, Waits
<1>2. out \in Seq(BatchDocs) /\ Ascending(out)
  <2>1. CASE loop.at \in Flushing /\ Current = c
    BY <2>1 DEF UploaderInv, UploaderKinds, InFlight, Waits
  <2>2. CASE ~(loop.at \in Flushing /\ Current = c)
    <3>1. out = <<>>
      BY <2>2
    <3> HIDE DEF out
    <3> QED BY <3>1 DEF Ascending
  <2> QED BY <2>1, <2>2
<1>3. \A i \in 1..Len(out), j \in 1..Len(q) : out[i] < q[j]
  <2>1. CASE loop.at \in Flushing /\ Current = c
    BY <2>1 DEF UploaderInv, UploaderKinds, InFlight
  <2>2. CASE ~(loop.at \in Flushing /\ Current = c)
    <3>1. out = <<>>
      BY <2>2
    <3> HIDE DEF out
    <3> QED BY <3>1
  <2> QED BY <2>1, <2>2
<1> HIDE DEF out, q
<1>4. ASSUME NEW i \in DOMAIN line, NEW j \in DOMAIN line, i < j
      PROVE  line[i] < line[j]
  <2>1. /\ Len(out) \in Nat /\ Len(q) \in Nat
        /\ i \in 1..(Len(out) + Len(q)) /\ j \in 1..(Len(out) + Len(q))
    BY <1>1, <1>2
  <2>2. \A k \in 1..(Len(out) + Len(q)) :
          line[k] = IF k <= Len(out) THEN out[k] ELSE q[k - Len(out)]
    BY <1>1, <1>2
  <2> HIDE DEF line
  <2>3. CASE j <= Len(out)
    <3>1. i \in 1..Len(out) /\ j \in 1..Len(out)
      BY <1>4, <2>1, <2>3
    <3> QED BY <1>2, <1>4, <2>1, <2>2, <3>1 DEF Ascending
  <2>4. CASE i > Len(out)
    <3>1. i - Len(out) \in 1..Len(q) /\ j - Len(out) \in 1..Len(q)
          /\ i - Len(out) < j - Len(out)
      BY <1>4, <2>1, <2>4
    <3>2. line[i] = q[i - Len(out)] /\ line[j] = q[j - Len(out)]
      BY <1>4, <2>1, <2>2, <2>4
    <3> QED BY <1>1, <3>1, <3>2 DEF Ascending
  <2>5. CASE i <= Len(out) /\ j > Len(out)
    <3>1. i \in 1..Len(out) /\ j - Len(out) \in 1..Len(q)
      BY <2>1, <2>5
    <3>2. line[i] = out[i] /\ line[j] = q[j - Len(out)]
      BY <2>1, <2>2, <2>5
    <3> QED BY <1>3, <3>1, <3>2
  <2> QED BY <2>1, <2>3, <2>4, <2>5
<1>5. ASSUME NEW d \in BatchDocs, NEW e \in Range(q), BatchCollectionOf[d] = c, fate[d] = "overflow"
      PROVE  d < e
  <2>1. PICK i \in 1..Len(q) : e = q[i]
    BY <1>1 DEF Range
  <2> QED BY <1>1, <1>5, <2>1 DEF Newest
<1> QED BY <1>4, <1>5 DEF out, q

\* The inductive invariant holds in every state of the uploader.
THEOREM UploaderInvariance == UploaderSpec => []UploaderInv
<1> QED BY UploaderBegins, UploaderSteps, PTL DEF UploaderSpec

\* BatchQueue and _handle_write_failure: for any documents, collections and limits, a
\* document that was taken waits, is in flight, is in MongoDB or was given up for a reason
\* that is told; a full queue gives up its oldest, and none overtakes an older one.
THEOREM NewestAlwaysKept == UploaderSpec => []KeepsNewest
<1>1. UploaderInv => KeepsNewest
  BY LineHolds DEF UploaderInv, KeepsNewest
<1> QED BY <1>1, UploaderInvariance, PTL

-----------------------------------------------------------------------------
(* LogLevels                                                               *)

Words == [module : Paths, level : Levels \cup Broken]
ListenerTasks == [alive : BOOLEAN, queue : Seq(Words)]
Hashes == [Paths -> Levels \cup Broken \cup {NoLevel}]

\* What the proofs need of the kinds of the variables.
LevelKinds ==
    /\ levels \in [Paths -> Levels \cup {NoLevel}] /\ levels[<<>>] \in Levels
    /\ remote \in Hashes /\ answer \in Hashes /\ fetched \in Hashes
    /\ attaching \in {"no", "fetching", "applying", "subscribing"}
    /\ polling \in {"off", "asleep", "fetching"}
    /\ listeners \in Seq(ListenerTasks) /\ Len(listeners) <= MaxListeners
    /\ changes \in 0..MaxChanges /\ troubles \in 0..MaxTroubles
    /\ polled \in BOOLEAN /\ touched \subseteq Paths

\* The queue q has a message about the module m.
Tells(q, m) == \E k \in 1..Len(q) : q[k].module = m
Announced(m) == \E i \in 1..Len(listeners) : Tells(listeners[i].queue, m)

\* The last message of the queue q about a module has the level of the hash.
EndsAt(q, hash) ==
    \A k \in 1..Len(q) :
       (\A j \in 1..Len(q) : k < j => q[j].module # q[k].module)
       => hash[q[k].module] \in {NoLevel, q[k].level}

\* Every listener ends where the hash is, and one that has ended has no messages.
Heard ==
    \A i \in 1..Len(listeners) :
       /\ EndsAt(listeners[i].queue, remote)
       /\ ~listeners[i].alive => listeners[i].queue = <<>>

\* Once a poll has applied the hash, a level that is not the remote one will be: there
\* is a message about it.
Levelled ==
    polled => \A m \in Paths \ touched :
                levels[m] = remote[m] \/ remote[m] = NoLevel \/ Announced(m)

\* What an attaching source is about to apply is not older than what has been polled.
AttachCurrent ==
    /\ attaching # "no" => polling = "off"
    /\ polled /\ attaching = "applying" => \A m \in Paths : remote[m] \in {NoLevel, answer[m]}

\* The inductive invariant of the log levels.
LevelsInv == LevelKinds /\ Heard /\ Levelled /\ AttachCurrent

\* The log levels begin without a source.
LEMMA LevelsBegin == LevelsInit => LevelsInv
<1> SUFFICES ASSUME LevelsInit PROVE LevelsInv
  OBVIOUS
<1>1. <<>> \in Seq(ListenerTasks) /\ Len(<<>>) = 0
  OBVIOUS
<1>2. LevelKinds
  <2>1. Unknown \in Hashes
    BY DEF Unknown, Hashes
  <2>2. /\ levels \in [Paths -> Levels \cup {NoLevel}] /\ levels[<<>>] \in Levels
        /\ changes \in 0..MaxChanges /\ troubles \in 0..MaxTroubles
    BY LevelsAssumption DEF LevelsInit
  <2>3. /\ remote = Unknown /\ answer = Unknown /\ fetched = Unknown
        /\ attaching = "no" /\ polling = "off" /\ listeners = <<>>
        /\ polled = FALSE /\ touched = {}
    BY DEF LevelsInit
  <2>4. Len(listeners) <= MaxListeners
    BY <1>1, <2>3, LevelsAssumption
  <2> QED BY <1>1, <2>1, <2>2, <2>3, <2>4 DEF LevelKinds
<1>3. Heard /\ Levelled /\ AttachCurrent
  BY <1>1 DEF LevelsInit, Heard, Levelled, AttachCurrent
<1> QED BY <1>2, <1>3 DEF LevelsInv

\* A message is about a module, and a listener has its messages in a queue.
LEMMA WordKinds ==
  \A w \in Words : w.module \in Paths /\ w.level \in Levels \cup Broken
BY DEF Words

LEMMA ListenerKinds ==
  ASSUME LevelKinds
  PROVE  /\ DOMAIN listeners = 1..Len(listeners) /\ Len(listeners) \in Nat
         /\ \A i \in 1..Len(listeners) :
              /\ listeners[i] \in ListenerTasks /\ listeners[i].alive \in BOOLEAN
              /\ listeners[i].queue \in Seq(Words)
<1>1. listeners \in Seq(ListenerTasks)
  BY DEF LevelKinds
<1>2. \A t \in ListenerTasks : t.alive \in BOOLEAN /\ t.queue \in Seq(Words)
  BY DEF ListenerTasks
<1> QED BY <1>1, <1>2

\* A message behind the others is the last one about its module.
LEMMA AppendedEnds ==
  ASSUME NEW q \in Seq(Words), NEW hash \in Hashes, EndsAt(q, hash),
         NEW m \in Paths, NEW l \in Levels \cup Broken
  PROVE  /\ EndsAt(Append(q, [module |-> m, level |-> l]), [hash EXCEPT ![m] = l])
         /\ Append(q, [module |-> m, level |-> l]) \in Seq(Words)
<1> DEFINE w == [module |-> m, level |-> l]
           r == Append(q, w)
           new == [hash EXCEPT ![m] = l]
<1>1. w \in Words
  BY DEF Words
<1>2. /\ r \in Seq(Words) /\ Len(r) = Len(q) + 1 /\ r[Len(q) + 1] = w
      /\ \A k \in 1..Len(q) : r[k] = q[k] /\ q[k] \in Words /\ q[k].module \in Paths
  <2>1. /\ r \in Seq(Words) /\ Len(r) = Len(q) + 1 /\ r[Len(q) + 1] = w
        /\ \A k \in 1..Len(q) : r[k] = q[k] /\ q[k] \in Words
    BY <1>1
  <2> QED BY <2>1, WordKinds
<1> HIDE DEF r, w
<1>3. w.module = m /\ w.level = l
  BY DEF w
<1>4. ASSUME NEW k \in 1..Len(r), \A j \in 1..Len(r) : k < j => r[j].module # r[k].module
      PROVE  new[r[k].module] \in {NoLevel, r[k].level}
  <2>1. Len(q) \in Nat
    OBVIOUS
  <2>2. CASE k = Len(q) + 1
    <3>1. r[k].module = m /\ r[k].level = l
      BY <1>2, <1>3, <2>2
    <3> QED BY <3>1 DEF Hashes
  <2>3. CASE k \in 1..Len(q)
    <3>1. r[k] = q[k] /\ q[k].module \in Paths
      BY <1>2, <2>3
    <3>2. Len(q) + 1 \in 1..Len(r) /\ k < Len(q) + 1
      BY <1>2, <2>1, <2>3
    <3>3. q[k].module # m
      BY <1>2, <1>3, <1>4, <3>1, <3>2
    <3>4. ASSUME NEW j \in 1..Len(q), k < j PROVE q[j].module # q[k].module
      BY <1>2, <1>4, <2>1, <3>1, <3>4
    <3>5. hash[q[k].module] \in {NoLevel, q[k].level}
      BY <2>3, <3>4 DEF EndsAt
    <3> QED BY <3>1, <3>3, <3>5 DEF Hashes
  <2> QED BY <1>2, <2>1, <2>2, <2>3
<1>5. EndsAt(r, new)
  BY <1>4 DEF EndsAt
<1> QED BY <1>2, <1>5 DEF r, w

\* A message that has been heard was the last about its module only with the level of
\* the hash.
LEMMA HeardEnds ==
  ASSUME NEW q \in Seq(Words), q # <<>>, NEW hash \in Hashes, EndsAt(q, hash)
  PROVE  /\ Head(q) \in Words /\ Tail(q) \in Seq(Words) /\ EndsAt(Tail(q), hash)
         /\ \A m \in Paths : Tells(q, m) /\ m # Head(q).module => Tells(Tail(q), m)
         /\ \/ Tells(Tail(q), Head(q).module)
            \/ hash[Head(q).module] \in {NoLevel, Head(q).level}
<1> DEFINE t == Tail(q)
<1>1. /\ Len(q) \in Nat /\ Len(q) > 0 /\ Head(q) = q[1] /\ q[1] \in Words
      /\ t \in Seq(Words) /\ Len(t) = Len(q) - 1
      /\ \A k \in 1..Len(t) : t[k] = q[k + 1]
  OBVIOUS
<1> HIDE DEF t
<1>2. ASSUME NEW k \in 1..Len(t), \A j \in 1..Len(t) : k < j => t[j].module # t[k].module
      PROVE  hash[t[k].module] \in {NoLevel, t[k].level}
  <2>1. k + 1 \in 1..Len(q) /\ t[k] = q[k + 1]
    BY <1>1
  <2>2. ASSUME NEW j \in 1..Len(q), k + 1 < j PROVE q[j].module # q[k + 1].module
    <3>1. j - 1 \in 1..Len(t) /\ k < j - 1 /\ t[j - 1] = q[(j - 1) + 1] /\ (j - 1) + 1 = j
      BY <1>1, <2>2
    <3>2. t[j - 1].module # t[k].module
      BY <1>2, <3>1
    <3> QED BY <2>1, <3>1, <3>2
  <2> QED BY <2>1, <2>2 DEF EndsAt
<1>3. EndsAt(t, hash)
  BY <1>2 DEF EndsAt
<1>4. ASSUME NEW m, NEW k \in 1..Len(q), q[k].module = m, k # 1
      PROVE  Tells(t, m)
  <2>1. k - 1 \in 1..Len(t) /\ t[k - 1] = q[(k - 1) + 1] /\ (k - 1) + 1 = k
    BY <1>1, <1>4
  <2>2. t[k - 1].module = m
    BY <1>4, <2>1
  <2> QED BY <2>1, <2>2 DEF Tells
<1>5. ASSUME NEW m \in Paths, Tells(q, m), m # Head(q).module PROVE Tells(t, m)
  <2>1. PICK k \in 1..Len(q) : q[k].module = m
    BY <1>5 DEF Tells
  <2> QED BY <1>1, <1>4, <1>5, <2>1
<1>6. ASSUME ~Tells(t, Head(q).module)
      PROVE  hash[Head(q).module] \in {NoLevel, Head(q).level}
  <2>1. ASSUME NEW j \in 1..Len(q), 1 < j PROVE q[j].module # q[1].module
    BY <1>1, <1>4, <1>6, <2>1
  <2>2. 1 \in 1..Len(q)
    BY <1>1
  <2> QED BY <1>1, <2>1, <2>2 DEF EndsAt
<1> QED BY <1>1, <1>3, <1>5, <1>6 DEF t

\* Applying what was fetched gives modules its levels or leaves them as they are; all
\* of them, unless a level is not valid.
LEMMA AppliedLevels ==
  ASSUME LevelKinds, NEW new \in Hashes
  PROVE  /\ Applied(new) \in [Paths -> Levels \cup {NoLevel}] /\ Applied(new)[<<>>] \in Levels
         /\ \A m \in Paths : \/ Applied(new)[m] = levels[m]
                             \/ Applied(new)[m] = new[m] /\ new[m] # NoLevel
         /\ ~Raises(new) => \A m \in Paths : new[m] # NoLevel => Applied(new)[m] = new[m]
<1>1. Paths = {Modules[i] : i \in DOMAIN Modules}
  BY DEF Paths, ToSet
<1>2. DOMAIN Modules = 1..Len(Modules) /\ Len(Modules) \in Nat
  BY LevelsAssumption
<1>3. ASSUME NEW m \in Reached(new) PROVE m \in Paths /\ new[m] \in Levels
  <2>1. PICK j \in DOMAIN Modules :
          /\ m = Modules[j] /\ new[Modules[j]] # NoLevel
          /\ \A b \in {i \in DOMAIN Modules : new[Modules[i]] \in Broken} : j < b
    BY <1>3 DEF Reached
  <2>2. new[m] \notin Broken
    <3> SUFFICES ASSUME new[m] \in Broken PROVE FALSE
      OBVIOUS
    <3>1. j < j
      BY <2>1
    <3> QED BY <1>2, <3>1
  <2> QED BY <1>1, <2>1, <2>2 DEF Hashes
<1>4. ASSUME NEW m \in Paths, ~Raises(new), new[m] # NoLevel PROVE m \in Reached(new)
  <2>1. PICK j \in DOMAIN Modules : m = Modules[j]
    BY <1>1
  <2>2. {i \in DOMAIN Modules : new[Modules[i]] \in Broken} = {}
    BY <1>1, <1>4 DEF Raises
  <2> QED BY <1>4, <2>1, <2>2 DEF Reached
<1>5. \A m \in Paths : Applied(new)[m] = IF m \in Reached(new) THEN new[m] ELSE levels[m]
  BY DEF Applied
<1>6. Applied(new) \in [Paths -> Levels \cup {NoLevel}]
  BY <1>3 DEF Applied, LevelKinds
<1>7. \A m \in Paths : m \in Reached(new) => new[m] # NoLevel
  BY <1>3, LevelsAssumption DEF NoLevel
<1>8. Applied(new)[<<>>] \in Levels
  BY <1>3, <1>5, LevelsAssumption DEF LevelKinds
<1> QED BY <1>4, <1>5, <1>6, <1>7, <1>8

\* Levels that change for other modules, or to the remote level, are those to be.
LEMMA LevelledStep ==
  ASSUME Levelled, UNCHANGED remote, UNCHANGED listeners, touched \subseteq touched', polled' => polled,
         \A m \in Paths \ touched' : levels'[m] = levels[m] \/ remote[m] = NoLevel \/ levels'[m] = remote[m]
  PROVE  Levelled'
BY DEF Levelled, Announced

\* A local change of a level touches its module.
LEMMA SetKeeps ==
  ASSUME LevelsInv, NEW m \in Paths, SetLevel(m, levels'[m]) \/ RemoveLevel(m),
         levels'[m] \in Levels \cup {NoLevel}, m = <<>> => levels'[m] \in Levels
  PROVE  LevelsInv'
<1> USE DEF LevelsInv
<1>1. /\ levels' = [levels EXCEPT ![m] = levels'[m]] /\ Change
      /\ touched' = touched \cup {m} /\ UNCHANGED <<remote, manager, listeners, polled>>
  <2>1. CASE SetLevel(m, levels'[m])
    BY <2>1 DEF SetLevel
  <2>2. CASE RemoveLevel(m)
    <3>1. levels' = [levels EXCEPT ![m] = NoLevel]
      BY <2>2 DEF RemoveLevel
    <3>2. levels'[m] = NoLevel
      BY <3>1 DEF LevelKinds
    <3> QED BY <2>2, <3>1, <3>2 DEF RemoveLevel
  <2> QED BY <2>1, <2>2
<1>2. \A n \in Paths \ {m} : levels'[n] = levels[n]
  BY <1>1 DEF LevelKinds
<1>3. LevelKinds'
  <2>1. levels' \in [Paths -> Levels \cup {NoLevel}] /\ levels'[<<>>] \in Levels
    BY <1>1, LevelsAssumption DEF LevelKinds
  <2>2. changes' \in 0..MaxChanges /\ UNCHANGED troubles
    BY <1>1, LevelsAssumption DEF Change, LevelKinds
  <2> QED BY <1>1, <2>1, <2>2 DEF LevelKinds, manager, Hashes
<1>4. Levelled'
  BY <1>1, <1>2, LevelledStep
<1>5. Heard' /\ AttachCurrent'
  BY <1>1 DEF Heard, EndsAt, AttachCurrent, manager
<1> QED BY <1>3, <1>4, <1>5

\* A new level of the hash is announced to every listener there is.
LEMMA RemoteSetKeeps ==
  ASSUME LevelsInv, NEW m \in Paths, NEW l \in Levels \cup Broken, RemoteSet(m, l)
  PROVE  LevelsInv'
<1> USE DEF LevelsInv
<1> DEFINE w == [module |-> m, level |-> l]
           Told(i) == IF listeners[i].alive
                      THEN [listeners[i] EXCEPT !.queue = Append(@, w)] ELSE listeners[i]
<1>1. /\ remote' = [remote EXCEPT ![m] = l] /\ polled' = FALSE
      /\ Change /\ UNCHANGED <<levels, manager, touched>>
      /\ DOMAIN listeners = 1..Len(listeners) /\ Len(listeners) \in Nat
      /\ listeners' = [i \in 1..Len(listeners) |-> Told(i)]
  BY DEF RemoteSet, LevelKinds
<1>2. ASSUME NEW i \in 1..Len(listeners)
      PROVE  /\ listeners'[i] = Told(i) /\ listeners'[i] \in ListenerTasks
             /\ EndsAt(listeners'[i].queue, remote')
             /\ ~listeners'[i].alive => listeners'[i].queue = <<>>
  <2>1. /\ listeners[i] \in ListenerTasks /\ listeners[i].queue \in Seq(Words)
        /\ listeners[i].alive \in BOOLEAN
        /\ EndsAt(listeners[i].queue, remote)
        /\ ~listeners[i].alive => listeners[i].queue = <<>>
    BY ListenerKinds DEF Heard
  <2>2. listeners'[i] = Told(i)
    BY <1>1
  <2>3. CASE listeners[i].alive
    <3>1. /\ EndsAt(Append(listeners[i].queue, w), remote')
          /\ Append(listeners[i].queue, w) \in Seq(Words)
      BY <1>1, <2>1, AppendedEnds DEF LevelKinds
    <3>2. listeners'[i].queue = Append(listeners[i].queue, w) /\ listeners'[i].alive
      BY <2>1, <2>2, <2>3 DEF ListenerTasks
    <3>3. listeners'[i] \in ListenerTasks
      BY <2>1, <2>2, <2>3, <3>1 DEF ListenerTasks
    <3> QED BY <2>2, <3>1, <3>2, <3>3
  <2>4. CASE ~listeners[i].alive
    <3>1. listeners'[i] = listeners[i] /\ listeners[i].queue = <<>> /\ Len(<<>>) = 0
      BY <2>1, <2>2, <2>4
    <3>2. EndsAt(<<>>, remote')
      BY <3>1 DEF EndsAt
    <3> HIDE DEF Told, LevelsInv
    <3> QED BY <2>1, <2>2, <3>1, <3>2
  <2> HIDE DEF Told
  <2> QED BY <2>1, <2>2, <2>3, <2>4
<1>3. Len(listeners') = Len(listeners) /\ listeners' \in Seq(ListenerTasks)
  <2>1. listeners' \in [1..Len(listeners) -> ListenerTasks]
    BY <1>1, <1>2
  <2>2. Len(listeners) \in Nat
    BY <1>1
  <2> HIDE DEF LevelsInv
  <2> QED BY <2>1, <2>2, SeqDef, LenProperties
<1>4. LevelKinds'
  <2>1. remote' \in Hashes
    BY <1>1 DEF LevelKinds, Hashes
  <2>2. changes' \in 0..MaxChanges /\ UNCHANGED troubles
    BY <1>1, LevelsAssumption DEF Change, LevelKinds
  <2>3. UNCHANGED <<levels, answer, fetched, attaching, polling, touched>> /\ polled' \in BOOLEAN
    BY <1>1 DEF manager
  <2> QED BY <1>3, <2>1, <2>2, <2>3 DEF LevelKinds, Hashes
<1>5. Heard'
  BY <1>2, <1>3 DEF Heard
<1>6. Levelled' /\ AttachCurrent'
  BY <1>1 DEF Levelled, AttachCurrent, manager
<1> QED BY <1>4, <1>5, <1>6

\* A level that is taken out of the hash is remote no more.
LEMMA RemoteDeleteKeeps ==
  ASSUME LevelsInv, NEW m \in Paths, RemoteDelete(m)
  PROVE  LevelsInv'
<1> USE DEF LevelsInv
<1>1. /\ remote' = [remote EXCEPT ![m] = NoLevel] /\ Change
      /\ UNCHANGED <<levels, manager, listeners, polled, touched>>
  BY DEF RemoteDelete
<1>2. \A n \in Paths : remote'[n] = remote[n] \/ remote'[n] = NoLevel
  BY <1>1 DEF LevelKinds, Hashes
<1>3. LevelKinds'
  <2>1. remote' \in Hashes
    BY <1>1 DEF LevelKinds, Hashes
  <2>2. changes' \in 0..MaxChanges /\ UNCHANGED troubles
    BY <1>1, LevelsAssumption DEF Change, LevelKinds
  <2>3. UNCHANGED <<levels, answer, fetched, attaching, polling, listeners, polled, touched>>
    BY <1>1 DEF manager
  <2> QED BY <2>1, <2>2, <2>3 DEF LevelKinds, Hashes
<1>4. Heard'
  <2>1. ASSUME NEW i \in 1..Len(listeners), NEW k \in 1..Len(listeners[i].queue)
        PROVE  listeners[i].queue[k].module \in Paths
    <3>1. listeners[i].queue \in Seq(Words)
      BY ListenerKinds
    <3>2. listeners[i].queue[k] \in Words
      BY <3>1
    <3> QED BY <3>2, WordKinds
  <2>2. ASSUME NEW i \in 1..Len(listeners) PROVE EndsAt(listeners[i].queue, remote')
    BY <1>2, <2>1 DEF Heard, EndsAt
  <2> QED BY <1>1, <2>2 DEF Heard
<1>5. Levelled'
  BY <1>1, <1>2 DEF Levelled, Announced
<1>6. AttachCurrent'
  BY <1>1, <1>2 DEF AttachCurrent, manager
<1> QED BY <1>3, <1>4, <1>5, <1>6

\* A message that is heard brings its module nearer to the hash, or there.
LEMMA ListenKeeps ==
  ASSUME LevelsInv, NEW i \in 1..Len(listeners), Listen(i)
  PROVE  LevelsInv'
<1> USE DEF LevelsInv
<1> DEFINE q == listeners[i].queue
           word == Head(q)
           broken == word.level \in Broken
<1>1. /\ q \in Seq(Words) /\ q # <<>> /\ listeners[i].alive /\ EndsAt(q, remote)
      /\ listeners[i] \in ListenerTasks
  BY ListenerKinds DEF Listen, Heard
<1>2. /\ word \in Words /\ Tail(q) \in Seq(Words) /\ EndsAt(Tail(q), remote)
      /\ \A m \in Paths : Tells(q, m) /\ m # word.module => Tells(Tail(q), m)
      /\ Tells(Tail(q), word.module) \/ remote[word.module] \in {NoLevel, word.level}
  BY <1>1, HeardEnds DEF LevelKinds
<1>3. word.module \in Paths /\ word.level \in Levels \cup Broken
  BY <1>2 DEF Words
<1> DEFINE new == IF broken THEN [alive |-> FALSE, queue |-> <<>>]
                  ELSE [listeners[i] EXCEPT !.queue = Tail(q)]
<1>4. /\ levels' = IF broken THEN levels ELSE [levels EXCEPT ![word.module] = word.level]
      /\ listeners' = [listeners EXCEPT ![i] = new]
      /\ polled' = (polled /\ ~broken)
      /\ UNCHANGED <<remote, manager, bounds, touched>>
  <2>1. levels' = IF broken THEN levels ELSE [levels EXCEPT ![word.module] = word.level]
    BY DEF Listen
  <2>2. listeners' = [listeners EXCEPT ![i] = new]
    BY DEF Listen
  <2>3. polled' = (polled /\ ~broken) /\ UNCHANGED <<remote, manager, bounds, touched>>
    BY DEF Listen
  <2> QED BY <2>1, <2>2, <2>3
<1>5. /\ new \in ListenerTasks /\ EndsAt(new.queue, remote)
      /\ ~new.alive => new.queue = <<>>
      /\ ~broken => new.queue = Tail(q)
  <2>1. CASE broken
    <3>1. new = [alive |-> FALSE, queue |-> <<>>] /\ <<>> \in Seq(Words) /\ Len(<<>>) = 0
      BY <2>1
    <3> HIDE DEF new
    <3> QED BY <2>1, <3>1 DEF ListenerTasks, EndsAt
  <2>2. CASE ~broken
    <3>1. new.queue = Tail(q) /\ new.alive /\ new \in ListenerTasks
      BY <1>1, <1>2, <2>2 DEF ListenerTasks
    <3> HIDE DEF new
    <3> QED BY <1>2, <3>1
  <2> QED BY <2>1, <2>2
<1> HIDE DEF new
<1>6. /\ Len(listeners) \in Nat
      /\ listeners' \in Seq(ListenerTasks) /\ Len(listeners') = Len(listeners)
      /\ listeners'[i] = new
      /\ \A j \in 1..Len(listeners) : j # i => listeners'[j] = listeners[j]
  <2>1. listeners \in Seq(ListenerTasks)
    BY DEF LevelKinds
  <2> HIDE DEF LevelsInv
  <2>2. listeners' = [listeners EXCEPT ![i] = new] /\ new \in ListenerTasks
    BY <1>4, <1>5
  <2> QED BY <2>1, <2>2, ExceptSeq, LenProperties
<1>7. LevelKinds'
  <2>1. levels' \in [Paths -> Levels \cup {NoLevel}] /\ levels'[<<>>] \in Levels
    BY <1>3, <1>4 DEF LevelKinds
  <2>2. polled' \in BOOLEAN /\ UNCHANGED <<remote, answer, fetched, attaching, polling, changes, troubles, touched>>
    BY <1>4 DEF manager, bounds, LevelKinds
  <2> QED BY <1>6, <2>1, <2>2 DEF LevelKinds, Hashes
<1>8. Heard'
  <2> SUFFICES ASSUME NEW j \in 1..Len(listeners)
               PROVE  /\ EndsAt(listeners'[j].queue, remote)
                      /\ ~listeners'[j].alive => listeners'[j].queue = <<>>
    BY <1>4, <1>6 DEF Heard
  <2>0. Heard
    OBVIOUS
  <2> HIDE DEF LevelsInv
  <2>1. CASE j = i
    BY <1>5, <1>6, <2>1
  <2>2. CASE j # i
    BY <1>6, <2>0, <2>2 DEF Heard
  <2> QED BY <2>1, <2>2
<1>9. Levelled'
  <2> SUFFICES ASSUME polled, ~broken, NEW m \in Paths \ touched
               PROVE  levels'[m] = remote[m] \/ remote[m] = NoLevel \/ Announced(m)'
    BY <1>4 DEF Levelled
  <2>1. listeners'[i].queue = Tail(q)
    BY <1>5, <1>6
  <2>2. Tells(Tail(q), m) => Announced(m)'
    BY <1>6, <2>1 DEF Announced
  <2>3. \A j \in 1..Len(listeners) : j # i /\ Tells(listeners[j].queue, m) => Announced(m)'
    BY <1>6 DEF Announced
  <2>4. levels'[m] = IF m = word.module THEN word.level ELSE levels[m]
    BY <1>4 DEF LevelKinds
  <2>5. CASE m = word.module
    BY <1>2, <2>2, <2>4, <2>5
  <2>6. CASE m # word.module
    <3>1. levels[m] = remote[m] \/ remote[m] = NoLevel \/ Announced(m)
      BY DEF Levelled
    <3>2. Announced(m) => Announced(m)'
      BY <1>2, <2>2, <2>3, <2>6 DEF Announced
    <3> QED BY <2>4, <2>6, <3>1, <3>2
  <2> QED BY <2>5, <2>6
<1>10. AttachCurrent'
  BY <1>4 DEF AttachCurrent, manager
<1> QED BY <1>7, <1>8, <1>9, <1>10

\* Attaching a source, up to the subscription.
LEMMA AttachKeeps ==
  ASSUME LevelsInv, Attach \/ AttachAnswered \/ AttachApply \/ AttachFails \/ Detach
  PROVE  LevelsInv'
<1> USE DEF LevelsInv
<1>1. Unknown \in Hashes
  BY DEF Unknown, Hashes
<1>2. CASE Attach \/ AttachAnswered \/ AttachFails \/ Detach
  <2>1. UNCHANGED <<levels, remote, listeners, polled, touched>>
    BY <1>2 DEF Attach, AttachAnswered, AttachFails, Detach
  <2>2. changes' \in 0..MaxChanges /\ troubles' \in 0..MaxTroubles
    BY <1>2, LevelsAssumption
       DEF LevelKinds, Attach, AttachAnswered, AttachFails, Detach, bounds, Change, Trouble
  <2>3. /\ answer' \in Hashes /\ fetched' \in Hashes
        /\ attaching' \in {"no", "fetching", "applying", "subscribing"}
        /\ polling' \in {"off", "asleep", "fetching"}
    BY <1>1, <1>2 DEF LevelKinds, Attach, AttachAnswered, AttachFails, Detach
  <2>4. LevelKinds'
    BY <2>1, <2>2, <2>3 DEF LevelKinds, Hashes
  <2>5. Heard' /\ Levelled'
    BY <2>1 DEF Heard, EndsAt, Levelled, Announced
  <2>6. AttachCurrent'
    BY <1>2, <2>1 DEF AttachCurrent, Attach, AttachAnswered, AttachFails, Detach
  <2> QED BY <2>4, <2>5, <2>6
<1>3. CASE AttachApply
  <2>1. /\ attaching = "applying" /\ levels' = Applied(answer) /\ answer' = Unknown
        /\ attaching' \in {"no", "subscribing"}
        /\ UNCHANGED <<remote, polling, fetched, listeners, changes, troubles, polled, touched>>
    BY <1>3 DEF AttachApply, bounds
  <2>2. /\ Applied(answer) \in [Paths -> Levels \cup {NoLevel}] /\ Applied(answer)[<<>>] \in Levels
        /\ \A m \in Paths : \/ Applied(answer)[m] = levels[m]
                            \/ Applied(answer)[m] = answer[m] /\ answer[m] # NoLevel
    BY AppliedLevels DEF LevelKinds
  <2>3. LevelKinds'
    BY <1>1, <2>1, <2>2 DEF LevelKinds, Hashes
  <2>4. Levelled'
    <3>1. CASE polled
      <4>1. \A m \in Paths : remote[m] \in {NoLevel, answer[m]}
        BY <2>1, <3>1 DEF AttachCurrent
      <4> QED BY <2>1, <2>2, <4>1, LevelledStep
    <3>2. CASE ~polled
      BY <2>1, <3>2 DEF Levelled
    <3> QED BY <3>1, <3>2
  <2>5. Heard' /\ AttachCurrent'
    BY <2>1 DEF Heard, EndsAt, AttachCurrent
  <2> QED BY <2>3, <2>4, <2>5
<1> QED BY <1>2, <1>3

\* A listener begins with nothing to hear; the source that is closed takes the last one
\* with it.
LEMMA ListenersKeep ==
  ASSUME LevelsInv, Subscribe \/ CloseSource
  PROVE  LevelsInv'
<1> USE DEF LevelsInv
<1>1. CASE Subscribe
  <2>1. /\ Len(listeners) < MaxListeners /\ listeners' = Append(listeners, Silent)
        /\ polling' = "asleep" /\ attaching' = "no"
        /\ UNCHANGED <<levels, remote, answer, fetched, changes, troubles, polled, touched>>
    BY <1>1 DEF Subscribe, bounds
  <2>2. Silent \in ListenerTasks /\ Silent.alive /\ Silent.queue = <<>> /\ Len(<<>>) = 0
    BY DEF Silent, ListenerTasks
  <2>3. /\ listeners' \in Seq(ListenerTasks) /\ Len(listeners') = Len(listeners) + 1
        /\ Len(listeners) \in Nat /\ listeners'[Len(listeners) + 1] = Silent
        /\ \A i \in 1..Len(listeners) : listeners'[i] = listeners[i]
    BY <2>1, <2>2 DEF LevelKinds
  <2>4. LevelKinds'
    BY <2>1, <2>3, LevelsAssumption DEF LevelKinds, Hashes
  <2>5. Heard'
    <3> SUFFICES ASSUME NEW i \in 1..Len(listeners')
                 PROVE  /\ EndsAt(listeners'[i].queue, remote)
                        /\ ~listeners'[i].alive => listeners'[i].queue = <<>>
      BY <2>1 DEF Heard
    <3>1. CASE i = Len(listeners) + 1
      BY <2>2, <2>3, <3>1 DEF EndsAt
    <3>2. CASE i \in 1..Len(listeners)
      BY <2>3, <3>2 DEF Heard
    <3> QED BY <2>3, <3>1, <3>2
  <2>6. Levelled'
    <3>1. \A m \in Paths : Announced(m) => Announced(m)'
      BY <2>3 DEF Announced
    <3> QED BY <2>1, <3>1 DEF Levelled
  <2>7. AttachCurrent'
    BY <2>1 DEF AttachCurrent
  <2> QED BY <2>4, <2>5, <2>6, <2>7
<1>2. CASE CloseSource
  <2> DEFINE n == Len(listeners)
  <2>1. /\ listeners # <<>> /\ listeners' = Front(listeners)
        /\ polled' = (polled /\ Last(listeners).queue = <<>>)
        /\ Change /\ UNCHANGED <<levels, remote, manager, touched>>
    BY <1>2 DEF CloseSource
  <2>2. n \in Nat /\ n > 0 /\ Last(listeners) = listeners[n]
    BY <2>1 DEF LevelKinds, Last
  <2>3. /\ listeners' \in Seq(ListenerTasks) /\ Len(listeners') = n - 1
        /\ \A i \in 1..(n - 1) : listeners'[i] = listeners[i]
    <3>1. listeners \in Seq(ListenerTasks) /\ listeners' = SubSeq(listeners, 1, n - 1)
      BY <2>1 DEF LevelKinds, Front
    <3>2. n - 1 \in Nat /\ 1 \in Int /\ n - 1 \in Int
      BY <2>2
    <3>3. \A i \in 1..(n - 1) : listeners[i] \in ListenerTasks
      BY <2>2, ListenerKinds
    <3> HIDE DEF LevelsInv, n
    <3>4. /\ listeners' \in Seq(ListenerTasks)
          /\ Len(listeners') = IF 1 <= n - 1 THEN (n - 1) - 1 + 1 ELSE 0
          /\ \A i \in 1..((n - 1) - 1 + 1) : listeners'[i] = listeners[1 + i - 1]
      BY <3>1, <3>2, <3>3, SubSeqProperties
    <3>5. (n - 1) - 1 + 1 = n - 1 /\ \A i \in 1..(n - 1) : 1 + i - 1 = i
      BY <3>2
    <3> QED BY <3>2, <3>4, <3>5
  <2>4. LevelKinds'
    <3>1. changes' \in 0..MaxChanges /\ UNCHANGED troubles
      BY <2>1, LevelsAssumption DEF Change, LevelKinds
    <3>2. polled' \in BOOLEAN /\ UNCHANGED <<answer, fetched, attaching, polling>>
      BY <2>1 DEF manager, LevelKinds
    <3>3. Len(listeners') <= MaxListeners
      BY <2>2, <2>3, LevelsAssumption DEF LevelKinds
    <3> QED BY <2>1, <2>3, <3>1, <3>2, <3>3 DEF LevelKinds, Hashes
  <2>5. Heard'
    BY <2>1, <2>2, <2>3 DEF Heard
  <2>6. Levelled'
    <3> SUFFICES ASSUME polled, Last(listeners).queue = <<>>, NEW m \in Paths, Announced(m)
                 PROVE  Announced(m)'
      BY <2>1 DEF Levelled
    <3>1. PICK i \in 1..n : Tells(listeners[i].queue, m)
      BY DEF Announced
    <3>2. i # n
      <4>1. ~Tells(<<>>, m)
        BY DEF Tells
      <4> QED BY <2>2, <3>1, <4>1
    <3>3. i \in 1..Len(listeners') /\ listeners'[i] = listeners[i]
      BY <2>2, <2>3, <3>2
    <3> QED BY <3>1, <3>3 DEF Announced
  <2>7. AttachCurrent'
    BY <2>1 DEF AttachCurrent, manager
  <2> QED BY <2>4, <2>5, <2>6, <2>7
<1> QED BY <1>1, <1>2

\* Polling: a hash that has been applied whole, and is the hash still, is followed.
LEMMA PollKeeps ==
  ASSUME LevelsInv, PollAnswered \/ PollApply \/ PollFails
  PROVE  LevelsInv'
<1> USE DEF LevelsInv
<1>1. CASE PollAnswered
  <2>1. /\ polling = "asleep" /\ polling' = "fetching" /\ fetched' = remote
        /\ UNCHANGED <<levels, remote, attaching, answer, listeners, changes, troubles, polled, touched>>
    BY <1>1 DEF PollAnswered, bounds
  <2>2. LevelKinds'
    BY <2>1 DEF LevelKinds, Hashes
  <2>3. Heard' /\ Levelled' /\ AttachCurrent'
    BY <2>1 DEF Heard, EndsAt, Levelled, Announced, AttachCurrent
  <2> QED BY <2>2, <2>3
<1>2. CASE PollApply
  <2>1. /\ polling = "fetching" /\ polling' = "asleep" /\ fetched' = Unknown
        /\ levels' = Applied(fetched)
        /\ polled' = (fetched = remote /\ ~Raises(fetched))
        /\ touched' = IF Raises(fetched) THEN touched ELSE {}
        /\ UNCHANGED <<remote, attaching, answer, listeners, changes, troubles>>
    BY <1>2 DEF PollApply, bounds
  <2>2. /\ Applied(fetched) \in [Paths -> Levels \cup {NoLevel}] /\ Applied(fetched)[<<>>] \in Levels
        /\ ~Raises(fetched) => \A m \in Paths : fetched[m] # NoLevel => Applied(fetched)[m] = fetched[m]
    BY AppliedLevels DEF LevelKinds
  <2>3. Unknown \in Hashes
    BY DEF Unknown, Hashes
  <2>4. LevelKinds'
    BY <2>1, <2>2, <2>3 DEF LevelKinds, Hashes
  <2>5. Levelled'
    BY <2>1, <2>2 DEF Levelled
  <2>6. Heard' /\ AttachCurrent'
    BY <2>1 DEF Heard, EndsAt, AttachCurrent
  <2> QED BY <2>4, <2>5, <2>6
<1>3. CASE PollFails
  <2>1. /\ troubles' \in 0..MaxTroubles
        /\ UNCHANGED <<levels, remote, attaching, answer, polling, fetched, listeners, changes, polled, touched>>
    BY <1>3, LevelsAssumption DEF PollFails, Trouble, manager, LevelKinds
  <2>2. LevelKinds'
    BY <2>1 DEF LevelKinds, Hashes
  <2>3. Heard' /\ Levelled' /\ AttachCurrent'
    BY <2>1 DEF Heard, EndsAt, Levelled, Announced, AttachCurrent
  <2> QED BY <2>2, <2>3
<1> QED BY <1>1, <1>2, <1>3

\* Every step of the log levels keeps the invariant.
LEMMA LevelsSteps == LevelsInv /\ [LevelsNext]_levelVars => LevelsInv'
<1> SUFFICES ASSUME LevelsInv, [LevelsNext]_levelVars PROVE LevelsInv'
  OBVIOUS
<1>1. CASE \E m \in Paths : RemoveLevel(m) \/ \E l \in Levels : SetLevel(m, l)
  <2>1. PICK m \in Paths : RemoveLevel(m) \/ \E l \in Levels : SetLevel(m, l)
    BY <1>1
  <2>2. CASE RemoveLevel(m)
    <3>1. levels'[m] = NoLevel /\ m # <<>>
      BY <2>2 DEF RemoveLevel, LevelsInv, LevelKinds
    <3> QED BY <2>2, <3>1, SetKeeps
  <2>3. ASSUME NEW l \in Levels, SetLevel(m, l) PROVE LevelsInv'
    <3>1. levels'[m] = l
      BY <2>3 DEF SetLevel, LevelsInv, LevelKinds
    <3> QED BY <2>3, <3>1, SetKeeps
  <2> QED BY <2>1, <2>2, <2>3
<1>2. CASE \E m \in Paths : RemoteDelete(m) \/ \E l \in Levels \cup Broken : RemoteSet(m, l)
  BY <1>2, RemoteDeleteKeeps, RemoteSetKeeps
<1>3. CASE \E i \in DOMAIN listeners : Listen(i)
  <2>1. DOMAIN listeners = 1..Len(listeners)
    BY DEF LevelsInv, LevelKinds
  <2> QED BY <1>3, <2>1, ListenKeeps
<1>4. CASE Attach \/ AttachAnswered \/ AttachApply \/ AttachFails \/ Detach
  BY <1>4, AttachKeeps
<1>5. CASE Subscribe \/ CloseSource
  BY <1>5, ListenersKeep
<1>6. CASE PollAnswered \/ PollApply \/ PollFails
  BY <1>6, PollKeeps
<1>7. CASE UNCHANGED levelVars
  <2>1. UNCHANGED <<levels, remote, attaching, answer, polling, fetched, listeners, changes, troubles, polled, touched>>
    BY <1>7 DEF levelVars
  <2>2. LevelKinds'
    BY <2>1 DEF LevelsInv, LevelKinds, Hashes
  <2>3. Heard' /\ Levelled' /\ AttachCurrent'
    BY <2>1 DEF LevelsInv, Heard, EndsAt, Levelled, Announced, AttachCurrent
  <2> QED BY <2>2, <2>3 DEF LevelsInv
<1> QED BY <1>1, <1>2, <1>3, <1>4, <1>5, <1>6, <1>7 DEF LevelsNext

\* A module that has a level of its own is filtered by it: no module above it is closer.
LEMMA OwnLevelCounts ==
  ASSUME LevelKinds, NEW m \in Paths, levels[m] # NoLevel
  PROVE  Effective(m) = levels[m]
<1> DEFINE above == {a \in Paths : IsPrefix(a, m) /\ levels[a] # NoLevel}
           closest == CHOOSE a \in above : \A b \in above : Len(b) <= Len(a)
<1>1. \A a \in Paths : a \in Seq(STRING)
  BY LevelsAssumption DEF Paths, ToSet
<1>2. ASSUME NEW a \in above PROVE Len(a) <= Len(m)
  BY DEF IsPrefix
<1>3. m \in above
  BY <1>1 DEF IsPrefix
<1>4. closest \in above /\ \A b \in above : Len(b) <= Len(closest)
  <2>1. \E a \in above : \A b \in above : Len(b) <= Len(a)
    BY <1>2, <1>3
  <2> QED BY <2>1
<1>5. closest = m
  <2>1. closest \in Seq(STRING) /\ m \in Seq(STRING)
    BY <1>1, <1>4
  <2>2. Len(closest) = Len(m)
    BY <1>2, <1>3, <1>4, <2>1
  <2>3. SubSeq(closest, 1, Len(closest)) = SubSeq(m, 1, Len(closest))
    BY <1>4 DEF IsPrefix
  <2> HIDE DEF closest
  <2>4. SubSeq(closest, 1, Len(closest)) = closest /\ SubSeq(m, 1, Len(m)) = m
    BY <2>1
  <2> QED BY <2>2, <2>3, <2>4
<1>6. Effective(m) = levels[closest]
  BY DEF Effective
<1> QED BY <1>5, <1>6

\* The invariant holds of the log levels with their remote source, for any modules and
\* levels, whatever order the answers, messages and changes come in.
THEOREM LevelsInvariance == LevelsSpec => []LevelsInv
<1> QED BY LevelsBegin, LevelsSteps, PTL DEF LevelsSpec

\* The levels that SinkManager holds are of their kinds, and the default is always set.
THEOREM LevelsTyped == LevelsSpec => []LevelTypes
<1>1. LevelsInv => LevelTypes
  BY DEF LevelsInv, LevelKinds, LevelTypes
<1> QED BY <1>1, LevelsInvariance, PTL

\* Once a poll has applied the hash as it is and every announced change has been heard,
\* the filter lets the records through that the remote levels do, whatever crossed on
\* the way: an older answer, an older message, a listener or a source that came or went.
THEOREM RemoteLevelsFollowed == LevelsSpec => []LevelsFollow
<1>1. LevelsInv => LevelsFollow
  <2> SUFFICES ASSUME LevelsInv, polled, Quiet, touched = {}, ~Raises(remote),
                      NEW m \in Paths, remote[m] # NoLevel, NEW n \in Levels
               PROVE  Passes(m, n) <=> n >= remote[m]
    BY DEF LevelsFollow, Agree
  <2>1. ~Announced(m)
    <3>1. DOMAIN listeners = 1..Len(listeners)
      BY DEF LevelsInv, LevelKinds
    <3>2. ~Tells(<<>>, m)
      BY DEF Tells
    <3> QED BY <3>1, <3>2 DEF Announced, Quiet
  <2>2. levels[m] = remote[m]
    BY <2>1 DEF LevelsInv, Levelled
  <2>3. Effective(m) = remote[m]
    BY <2>2, OwnLevelCounts DEF LevelsInv
  <2> QED BY <2>3 DEF Passes
<1> QED BY <1>1, LevelsInvariance, PTL
=============================================================================
