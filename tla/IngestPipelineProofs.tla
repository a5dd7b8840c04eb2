------------------------ MODULE IngestPipelineProofs ------------------------
(***************************************************************************)
(* Theorems about IngestPipeline, for every value of its constants: what   *)
(* the collections hold, then what clients are told and what the           *)
(* connector's bookkeeping is worth: the label of a single push, counts    *)
(* that agree with the audit trail, batches that run to the end, and       *)
(* documents that stay whole although no client ever says whether a push   *)
(* is an update.                                                           *)
(***************************************************************************)
EXTENDS IngestPipeline, FiniteSetTheorems, TLAPS

-----------------------------------------------------------------------------
(* Lemmas about the operators the actions are built from.                  *)

\* Both store operations take a collection's content to a content.
LEMMA DeleteType ==
  ASSUME NEW col \in [PointId -> Versions \cup {None}], NEW d \in Docs
  PROVE  DeleteByDocument(col, d) \in [PointId -> Versions \cup {None}]
  BY DEF DeleteByDocument

LEMMA UpsertType ==
  ASSUME NEW col \in [PointId -> Versions \cup {None}],
         NEW d \in Docs, NEW v \in Versions
  PROVE  Upsert(col, d, v) \in [PointId -> Versions \cup {None}]
  BY DEF Upsert

\* A request is a sequence of payloads.
LEMMA RequestsType == Requests \subseteq Seq(Payload)
<1> SUFFICES ASSUME NEW n \in 1 .. MaxBatch, NEW r \in [1 .. n -> Payload]
             PROVE  r \in Seq(Payload)
  BY DEF Requests
<1> n \in Nat
  BY BoundAssumption
<1> QED
  OBVIOUS

\* Inside the loop body the current event is one of the batch.
LEMMA CurrentType ==
  ASSUME TypeOK,
         pc \notin {"idle", "staging", "next", "reply", "abort"}
  PROVE  Current \in Event
  BY DEF TypeOK, Current

\* Auditing an event keeps the types, whatever the outcome it records.
LEMMA RecordType ==
  ASSUME TypeOK, pc \in {"audit", "handler"},
         NEW o \in OutcomeType,
         NEW f \in {"ingested", "updated", "deleted", "skipped", "failed"},
         Record(o, f)
  PROVE  TypeOK'
<1>1. Entry(o) \in AuditRecord
  BY DEF Entry, AuditRecord, TypeOK
<1>2. trail' \in Seq(AuditRecord)
  <2>1. trail \in Seq(AuditRecord)
    BY DEF TypeOK
  <2>2. trail' = Append(trail, Entry(o))
    BY DEF Record
  <2> QED
    BY <1>1, <2>1, <2>2
<1>3. counts' \in Count
  <2>1. counts \in Count /\ counts[f] + 1 \in Nat
    BY DEF TypeOK, Count
  <2>2. counts' = [counts EXCEPT ![f] = counts[f] + 1]
    BY DEF Record
  <2> QED
    BY <2>1, <2>2 DEF Count
<1>4. i \in 1 .. Len(events) /\ Len(events) \in Nat
  BY DEF TypeOK
<1>5. i' \in Nat /\ i' \in 1 .. Len(events) + 1
  BY <1>4 DEF Record
<1>6. UNCHANGED <<points, known, staged, queued, collection, docs, events>>
  BY DEF Record, connector, request
<1>7. pc' = "next" /\ content' = None /\ outcome' \in OutcomeType /\ unlogged' = FALSE
  BY DEF Record, OutcomeType
<1> QED
  BY <1>2, <1>3, <1>5, <1>6, <1>7 DEF TypeOK

\* So does a call of the audit log that raises.
LEMMA LogRaisesType ==
  ASSUME TypeOK, pc \in {"audit", "handler"},
         NEW o \in OutcomeType, NEW label \in {"handler", "abort"},
         LogRaises(o, label)
  PROVE  TypeOK'
<1>1. Entry(o) \in AuditRecord
  BY DEF Entry, AuditRecord, TypeOK
<1>2. trail' \in Seq(AuditRecord)
  <2>1. trail \in Seq(AuditRecord)
    BY DEF TypeOK
  <2>2. trail' \in {trail, Append(trail, Entry(o))}
    BY DEF LogRaises
  <2> QED
    BY <1>1, <2>1, <2>2
<1> QED
  BY <1>2 DEF LogRaises, TypeOK, connector, request

\* A request that ends leaves its locals empty.
LEMMA EndRequestType ==
  ASSUME EndRequest,
         points' \in [Collections -> [PointId -> Versions \cup {None}]],
         known' \subseteq Docs,
         staged' \in [Docs -> Versions \cup {None}],
         queued' \in 0 .. MaxQueue
  PROVE  TypeOK'
<1>1. counts' \in Count
  BY DEF EndRequest, NoCounts, Count
<1>2. trail' \in Seq(AuditRecord) /\ docs' \in Seq(Payload) /\ events' \in Seq(Event)
  BY DEF EndRequest
<1>3. Len(events') <= Len(docs')
  BY DEF EndRequest
<1>4. /\ pc' = "idle" /\ events' = <<>> /\ i' = 0 /\ unlogged' = FALSE
      /\ content' = None /\ collection' = None /\ outcome' \in OutcomeType
  BY DEF EndRequest, OutcomeType
<1> QED
  BY <1>1, <1>2, <1>3, <1>4 DEF TypeOK

\* Every step keeps every variable in its type.
THEOREM TypeCorrect == Spec => []TypeOK
<1>1. Init => TypeOK
  <2> SUFFICES ASSUME Init PROVE TypeOK
    OBVIOUS
  <2>1. counts \in Count
    BY DEF Init, NoCounts, Count
  <2>2. trail \in Seq(AuditRecord) /\ docs \in Seq(Payload) /\ events \in Seq(Event)
    BY DEF Init
  <2>3. Len(events) <= Len(docs) /\ queued \in 0 .. MaxQueue
    BY BoundAssumption DEF Init
  <2>4. /\ points \in [Collections -> [PointId -> Versions \cup {None}]]
        /\ staged \in [Docs -> Versions \cup {None}]
        /\ known \subseteq Docs
    BY DEF Init
  <2>5. /\ pc = "idle" /\ events = <<>> /\ i = 0 /\ unlogged = FALSE
        /\ content = None /\ collection = None /\ outcome \in OutcomeType
    BY DEF Init, OutcomeType
  <2> QED
    BY <2>1, <2>2, <2>3, <2>4, <2>5 DEF TypeOK
<1>2. TypeOK /\ [Next]_vars => TypeOK'
  <2> SUFFICES ASSUME TypeOK, [Next]_vars PROVE TypeOK'
    OBVIOUS
  <2>1. CASE Receive
    BY <2>1, RequestsType DEF Receive, TypeOK, connector, loop
  <2>2. CASE StageEvent
    <3>1. NextPayload \in Payload
      BY <2>2 DEF StageEvent, TypeOK, NextPayload
    <3>2. CASE NextPayload.declared = "deleted" /\ PushDeletion(NextPayload.doc)
      BY <2>2, <3>1, <3>2, BoundAssumption
      DEF StageEvent, PushDeletion, Enqueue, TypeOK, Payload, Event, loop
    <3>3. CASE /\ NextPayload.declared \in {"added", "modified"}
               /\ PushDocument(NextPayload.doc, NextPayload.version, NextPayload.declared)
      BY <2>2, <3>1, <3>3, BoundAssumption
      DEF StageEvent, PushDocument, Enqueue, TypeOK, Payload, Event, loop
    <3> QED
      BY <2>2, <3>2, <3>3 DEF StageEvent
  <2>3. CASE RejectRequest
    BY <2>3, EndRequestType DEF RejectRequest, TypeOK, connector
  <2>4. CASE StartProcessing
    BY <2>4 DEF StartProcessing, TypeOK, connector, request
  <2>5. CASE FinishRequest
    BY <2>5, EndRequestType DEF FinishRequest, TypeOK
  <2>6. CASE Dispatch
    BY <2>6 DEF Dispatch, Goto, TypeOK, connector, request, loop
  <2>7. CASE DeleteDocument
    <3>1. /\ Current \in Event
          /\ collection \in Collections
      BY <2>7, CurrentType DEF DeleteDocument, TypeOK
    <3>2. CASE Raise("delete")
      BY <2>7, <3>2 DEF DeleteDocument, Raise, Goto, TypeOK, connector, request, loop
    <3>3. CASE points' = [points EXCEPT ![collection] = DeleteByDocument(@, Current.doc)]
      <4>1. points' \in [Collections -> [PointId -> Versions \cup {None}]]
        BY <3>1, <3>3, DeleteType DEF TypeOK, Event
      <4> QED
        BY <2>7, <4>1
        DEF DeleteDocument, Raise, Goto, Conclude, OutcomeType, TypeOK,
            connector, request, loop
    <3> QED
      BY <2>7, <3>2, <3>3 DEF DeleteDocument
  <2>8. CASE Fetch
    <3>1. /\ Current \in Event
          /\ staged[Current.doc] \in Versions \cup {None}
      BY <2>8, CurrentType DEF Fetch, TypeOK, Event
    <3> QED
      BY <2>8, <3>1
      DEF Fetch, Goto, Conclude, OutcomeType, TypeOK, connector, request, loop
  <2>9. CASE ConvertAndChunk
    BY <2>9
    DEF ConvertAndChunk, Raise, Goto, Conclude, OutcomeType, TypeOK,
        connector, request, loop
  <2>10. CASE Embed
    BY <2>10 DEF Embed, Raise, Goto, TypeOK, connector, request, loop
  <2>11. CASE ClearOldChunks
    <3>1. /\ Current \in Event
          /\ collection \in Collections
      BY <2>11, CurrentType DEF ClearOldChunks, TypeOK
    <3>2. DeleteByDocument(points[collection], Current.doc)
            \in [PointId -> Versions \cup {None}]
      BY <3>1, DeleteType DEF TypeOK, Event
    <3>3. points' \in [Collections -> [PointId -> Versions \cup {None}]]
      BY <2>11, <3>2 DEF ClearOldChunks, Raise, Goto, TypeOK
    <3> QED
      BY <2>11, <3>3
      DEF ClearOldChunks, Raise, Goto, TypeOK, connector, request, loop
  <2>12. CASE StoreChunks
    <3>1. /\ Current \in Event
          /\ collection \in Collections
          /\ content \in Versions
      BY <2>12, CurrentType DEF StoreChunks, TypeOK
    <3>2. Upsert(points[collection], Current.doc, content)
            \in [PointId -> Versions \cup {None}]
      BY <3>1, UpsertType DEF TypeOK, Event
    <3>3. points' \in [Collections -> [PointId -> Versions \cup {None}]]
      BY <2>12, <3>2 DEF StoreChunks, Raise, Goto, TypeOK
    <3> QED
      BY <2>12, <3>3
      DEF StoreChunks, Raise, Goto, Conclude, OutcomeType, TypeOK,
          connector, request, loop
  <2>13. CASE AuditOutcome
    <3>1. CASE LogRaises(outcome, "handler")
      BY <2>13, <3>1, LogRaisesType DEF AuditOutcome, TypeOK
    <3>2. CASE Record(outcome, CountOf[outcome])
      <4>1. outcome \in OutcomeType /\ CountOf[outcome] \in
              {"ingested", "updated", "deleted", "skipped", "failed"}
        BY DEF CountOf, OutcomeType, TypeOK
      <4> QED
        BY <2>13, <3>2, <4>1, RecordType DEF AuditOutcome
    <3> QED
      BY <2>13, <3>1, <3>2 DEF AuditOutcome
  <2>14. CASE HandleException
    <3>1. "SKIPPED" \in OutcomeType
      BY DEF OutcomeType
    <3>2. CASE Record("SKIPPED", "failed")
      BY <2>14, <3>1, <3>2, RecordType DEF HandleException
    <3>3. CASE LogRaises("SKIPPED", "abort")
      BY <2>14, <3>1, <3>3, LogRaisesType DEF HandleException
    <3> QED
      BY <2>14, <3>2, <3>3 DEF HandleException
  <2>15. CASE Crash
    BY <2>15, EndRequestType, BoundAssumption DEF Crash, TypeOK
  <2>16. CASE UNCHANGED vars
    BY <2>16 DEF TypeOK, vars, connector, request, loop
  <2> QED
    BY <2>1, <2>2, <2>3, <2>4, <2>5, <2>6, <2>7, <2>8, <2>9, <2>10, <2>11, <2>12,
       <2>13, <2>14, <2>15, <2>16 DEF Next, Serve
<1>3. QED
  BY <1>1, <1>2, PTL DEF Spec

-----------------------------------------------------------------------------
(* Whole documents.  If every client declares its updates "modified", what *)
(* can be retrieved of a document is always one complete version or        *)
(* nothing, whatever fails and whenever the process is killed.             *)

\* After a delete nothing of d is left and other documents are untouched.
LEMMA DeleteEmpties ==
  ASSUME NEW col, NEW d \in Docs
  PROVE  /\ Empty(DeleteByDocument(col, d), d)
         /\ \A e \in Docs : e # d =>
              \A p \in PointId : p[2] = e => DeleteByDocument(col, d)[p] = col[p]
  BY DEF DeleteByDocument, Empty

\* Storing into a collection that holds nothing of d leaves exactly the stored
\* version, and other documents are untouched.
LEMMA UpsertFills ==
  ASSUME NEW col, NEW d \in Docs, NEW v \in Versions
  PROVE  /\ Empty(col, d) => Exact(Upsert(col, d, v), d, v)
         /\ \A e \in Docs : e # d =>
              \A p \in PointId : p[2] = e => Upsert(col, d, v)[p] = col[p]
  BY DEF Upsert, Empty, Exact

\* One complete version of d, or nothing.
Whole(col, d) == Empty(col, d) \/ \E v \in Versions : Exact(col, d, v)

AllWhole == \A c \in Collections, d \in Docs : Whole(points[c], d)

\* The strengthening of WholeDocuments that is inductive: no event of the
\* batch is an ADDED one, so chunks are only ever stored over a document that
\* has just been deleted.
WholeInv ==
  /\ AllWhole
  /\ \A k \in 1 .. Len(events) : events[k].change # "ADDED"
  /\ pc = "store" => Empty(points[collection], Current.doc)

LEMMA WholeSame ==
  ASSUME NEW col, NEW new, NEW d \in Docs, Whole(col, d),
         \A p \in PointId : p[2] = d => new[p] = col[p]
  PROVE  Whole(new, d)
  BY DEF Whole, Empty, Exact

\* delete_by_document keeps every document of every collection whole.
LEMMA DeleteKeepsWhole ==
  ASSUME TypeOK, AllWhole, Current \in Event, collection \in Collections,
         points' = [points EXCEPT ![collection] = DeleteByDocument(@, Current.doc)]
  PROVE  /\ \A c \in Collections, d \in Docs : Whole(points'[c], d)
         /\ Empty(points'[collection], Current.doc)
<1>1. points'[collection] = DeleteByDocument(points[collection], Current.doc)
  BY DEF TypeOK
<1>2. Empty(points'[collection], Current.doc)
  BY <1>1, DeleteEmpties DEF Event
<1>3. ASSUME NEW c \in Collections, NEW d \in Docs
      PROVE  Whole(points'[c], d)
  <2>1. CASE c = collection /\ d = Current.doc
    BY <1>2, <2>1 DEF Whole
  <2>2. CASE c = collection /\ d # Current.doc
    BY <1>1, <2>2, DeleteEmpties, WholeSame DEF AllWhole, Event
  <2>3. CASE c # collection
    BY <2>3 DEF TypeOK, AllWhole
  <2> QED
    BY <2>1, <2>2, <2>3
<1> QED
  BY <1>2, <1>3

\* store_chunks keeps every document whole if it finds nothing of the one it
\* stores.
LEMMA StoreKeepsWhole ==
  ASSUME TypeOK, AllWhole, Current \in Event, collection \in Collections,
         content \in Versions, Empty(points[collection], Current.doc),
         points' = [points EXCEPT ![collection] = Upsert(@, Current.doc, content)]
  PROVE  \A c \in Collections, d \in Docs : Whole(points'[c], d)
<1>1. points'[collection] = Upsert(points[collection], Current.doc, content)
  BY DEF TypeOK
<1> SUFFICES ASSUME NEW c \in Collections, NEW d \in Docs
             PROVE  Whole(points'[c], d)
  OBVIOUS
<1>2. CASE c = collection /\ d = Current.doc
  BY <1>1, <1>2, UpsertFills DEF Whole, Event
<1>3. CASE c = collection /\ d # Current.doc
  BY <1>1, <1>3, UpsertFills, WholeSame DEF AllWhole, Event
<1>4. CASE c # collection
  BY <1>4 DEF TypeOK, AllWhole
<1> QED
  BY <1>2, <1>3, <1>4

\* One step of the process, under clients that never declare "added".
LEMMA WholeStep ==
  ASSUME "added" \notin DeclaredTypes, TypeOK, WholeInv, [Next]_vars
  PROVE  WholeInv'
<1>1. CASE Receive
  BY <1>1 DEF Receive, WholeInv, AllWhole, Current, connector, loop
<1>2. CASE StageEvent
  <2>1. NextPayload \in Payload
    BY <1>2 DEF StageEvent, TypeOK, NextPayload
  <2>2. \E e \in Event : events' = Append(events, e) /\ e.change # "ADDED"
    BY <1>2, <2>1 DEF StageEvent, PushDeletion, PushDocument, Payload, Event
  <2> QED
    BY <1>2, <2>2 DEF StageEvent, WholeInv, AllWhole, TypeOK
<1>3. CASE RejectRequest \/ FinishRequest \/ Crash
  BY <1>3 DEF RejectRequest, FinishRequest, Crash, EndRequest, WholeInv, AllWhole
<1>4. CASE StartProcessing
  BY <1>4 DEF StartProcessing, WholeInv, AllWhole, connector, request
<1>5. CASE Dispatch
  BY <1>5 DEF Dispatch, Goto, WholeInv, AllWhole, request, connector, loop
<1>6. CASE DeleteDocument
  <2>1. CASE Raise("delete")
    BY <1>6, <2>1 DEF Raise, Goto, WholeInv, AllWhole, request, connector, loop
  <2>2. CASE points' = [points EXCEPT ![collection] = DeleteByDocument(@, Current.doc)]
    <3>1. AllWhole'
      BY <1>6, <2>2, CurrentType, DeleteKeepsWhole
      DEF DeleteDocument, TypeOK, WholeInv, AllWhole
    <3> QED
      BY <1>6, <3>1
      DEF DeleteDocument, Raise, Goto, Conclude, WholeInv, AllWhole, request, connector, loop
  <2> QED
    BY <1>6, <2>1, <2>2 DEF DeleteDocument
<1>7. CASE Fetch
  BY <1>7 DEF Fetch, Goto, Conclude, WholeInv, AllWhole, request, connector, loop
<1>8. CASE ConvertAndChunk
  BY <1>8 DEF ConvertAndChunk, Raise, Goto, Conclude, WholeInv, AllWhole, request, connector, loop
<1>9. CASE Embed
  <2>1. Current.change # "ADDED"
    BY <1>9 DEF Embed, WholeInv, AllWhole, TypeOK, Current
  <2> QED
    BY <1>9, <2>1 DEF Embed, Raise, Goto, WholeInv, AllWhole, request, connector, loop
<1>10. CASE ClearOldChunks
  <2>1. CASE Raise("delete")
    BY <1>10, <2>1 DEF Raise, Goto, WholeInv, AllWhole, request, connector, loop
  <2>2. CASE points' = [points EXCEPT ![collection] = DeleteByDocument(@, Current.doc)]
    <3>1. /\ AllWhole'
          /\ Empty(points'[collection], Current.doc)
      BY <1>10, <2>2, CurrentType, DeleteKeepsWhole
      DEF ClearOldChunks, TypeOK, WholeInv, AllWhole
    <3> QED
      BY <1>10, <3>1
      DEF ClearOldChunks, Raise, Goto, WholeInv, AllWhole, Current, request, connector, loop
  <2> QED
    BY <1>10, <2>1, <2>2 DEF ClearOldChunks
<1>11. CASE StoreChunks
  <2>1. CASE Raise("store")
    BY <1>11, <2>1 DEF Raise, Goto, WholeInv, AllWhole, request, connector, loop
  <2>2. CASE points' = [points EXCEPT ![collection] = Upsert(@, Current.doc, content)]
    <3>1. AllWhole'
      BY <1>11, <2>2, CurrentType, StoreKeepsWhole
      DEF StoreChunks, TypeOK, WholeInv, AllWhole
    <3> QED
      BY <1>11, <3>1
      DEF StoreChunks, Raise, Goto, Conclude, WholeInv, AllWhole, request, connector, loop
  <2> QED
    BY <1>11, <2>1, <2>2 DEF StoreChunks
<1>12. CASE AuditOutcome \/ HandleException
  BY <1>12
  DEF AuditOutcome, HandleException, Record, LogRaises, WholeInv, AllWhole,
      request, connector, loop
<1>13. CASE UNCHANGED vars
  BY <1>13 DEF vars, WholeInv, AllWhole, Current, request, connector, loop
<1> QED
  BY <1>1, <1>2, <1>3, <1>4, <1>5, <1>6, <1>7, <1>8, <1>9, <1>10, <1>11, <1>12, <1>13
  DEF Next, Serve

\* Clients that declare "modified" always see whole documents: the advice of
\* routes.py:160-163, for any number of documents, versions and collections,
\* with every call failing at any time and crashes at any step.
THEOREM DeclaredUpdatesKeepDocumentsWhole ==
  ASSUME "added" \notin DeclaredTypes
  PROVE  Spec => []WholeDocuments
<1>1. Init => WholeInv
  BY DEF Init, WholeInv, AllWhole, Whole, Empty
<1>2. TypeOK /\ WholeInv /\ [Next]_vars => WholeInv'
  BY WholeStep
<1>3. WholeInv => WholeDocuments
  BY DEF WholeInv, AllWhole, Whole, WholeDocuments
<1> QED
  BY <1>1, <1>2, <1>3, TypeCorrect, PTL DEF Spec

-----------------------------------------------------------------------------
(* An update that fails or is skipped leaves the old version in place.     *)

\* What has been established about the current event when the orchestrator
\* is about to delete for it.
ReadyInv ==
  /\ pc = "delete" => Current.change = "DELETED"
  /\ pc = "convert" => content \notin Unsupported
  /\ pc \in {"embed", "clear", "store"} =>
       content \notin Unsupported /\ ChunkCount[content] > 0

LEMMA ReadyStep ==
  ASSUME TypeOK, ReadyInv, [Next]_vars
  PROVE  ReadyInv'
<1>1. CASE Receive \/ StageEvent \/ StartProcessing
  BY <1>1 DEF Receive, StageEvent, StartProcessing, ReadyInv
<1>2. CASE RejectRequest \/ FinishRequest \/ Crash
  BY <1>2 DEF RejectRequest, FinishRequest, Crash, EndRequest, ReadyInv
<1>3. CASE Dispatch
  BY <1>3 DEF Dispatch, Goto, ReadyInv, Current, request, loop
<1>4. CASE DeleteDocument
  BY <1>4 DEF DeleteDocument, Raise, Goto, Conclude, ReadyInv
<1>5. CASE Fetch
  BY <1>5 DEF Fetch, Goto, Conclude, ReadyInv
<1>6. CASE ConvertAndChunk
  BY <1>6 DEF ConvertAndChunk, Raise, Goto, Conclude, ReadyInv, loop
<1>7. CASE Embed
  BY <1>7 DEF Embed, Raise, Goto, ReadyInv, loop
<1>8. CASE ClearOldChunks
  BY <1>8 DEF ClearOldChunks, Raise, Goto, ReadyInv, loop
<1>9. CASE StoreChunks
  BY <1>9 DEF StoreChunks, Raise, Goto, Conclude, ReadyInv
<1>10. CASE AuditOutcome \/ HandleException
  BY <1>10 DEF AuditOutcome, HandleException, Record, LogRaises, ReadyInv
<1>11. CASE UNCHANGED vars
  BY <1>11 DEF vars, ReadyInv, Current, request, loop
<1> QED
  BY <1>1, <1>2, <1>3, <1>4, <1>5, <1>6, <1>7, <1>8, <1>9, <1>10, <1>11 DEF Next, Serve

\* A step that deletes for the current event only empties that document.
LEMMA DeleteOnlyCurrent ==
  ASSUME TypeOK, Current \in Event, collection \in Collections,
         points' = [points EXCEPT ![collection] = DeleteByDocument(@, Current.doc)],
         NEW c \in Collections, NEW d \in Docs,
         ~Empty(points[c], d), Empty(points'[c], d)
  PROVE  c = collection /\ d = Current.doc
<1>1. CASE c # collection
  BY <1>1 DEF TypeOK
<1>2. CASE c = collection /\ d # Current.doc
  BY <1>2, DeleteEmpties DEF TypeOK, Empty, Event
<1> QED
  BY <1>1, <1>2

\* store_chunks never empties a document.
LEMMA StoreEmptiesNothing ==
  ASSUME TypeOK, Current \in Event, collection \in Collections, content \in Versions,
         points' = [points EXCEPT ![collection] = Upsert(@, Current.doc, content)],
         NEW c \in Collections, NEW d \in Docs, ~Empty(points[c], d)
  PROVE  ~Empty(points'[c], d)
<1>1. PICK p \in PointId : p[2] = d /\ points[c][p] # None
  BY DEF Empty
<1>2. points'[c][p] # None
  BY <1>1, ChunkAssumption DEF TypeOK, Upsert
<1> QED
  BY <1>1, <1>2 DEF Empty

LEMMA KeepsOldChunksStep ==
  ASSUME TypeOK, ReadyInv, Next
  PROVE  KeepsOldChunks
<1> SUFFICES ASSUME NEW c \in Collections, NEW d \in Docs,
                    ~Empty(points[c], d), Empty(points'[c], d)
             PROVE  /\ pc # "idle"
                    /\ c = collection
                    /\ d = Current.doc
                    /\ \/ Current.change = "DELETED"
                       \/ content \in Versions \ Unsupported /\ ChunkCount[content] > 0
  BY DEF KeepsOldChunks
<1>1. points' # points
  OBVIOUS
<1>2. DeleteDocument \/ ClearOldChunks \/ StoreChunks
  BY <1>1
  DEF Next, Serve, Receive, StageEvent, RejectRequest, StartProcessing, FinishRequest,
      Dispatch, Fetch, ConvertAndChunk, Embed, AuditOutcome, HandleException, Crash,
      Raise, Record, LogRaises, Goto
<1>3. /\ Current \in Event
      /\ collection \in Collections
      /\ pc # "idle"
  BY <1>2, CurrentType DEF DeleteDocument, ClearOldChunks, StoreChunks, TypeOK
<1>4. CASE DeleteDocument
  BY <1>1, <1>3, <1>4, DeleteOnlyCurrent DEF DeleteDocument, Raise, Goto, ReadyInv
<1>5. CASE ClearOldChunks
  BY <1>1, <1>3, <1>5, DeleteOnlyCurrent DEF ClearOldChunks, Raise, Goto, ReadyInv, TypeOK
<1>6. CASE StoreChunks
  BY <1>1, <1>3, <1>6, StoreEmptiesNothing DEF StoreChunks, Raise, Goto, TypeOK
<1> QED
  BY <1>2, <1>4, <1>5, <1>6

\* No step of any behaviour loses the chunks of a document except for the
\* event being processed on it, and for an update only once its replacement
\* is known to be convertible and not empty.
THEOREM FailedUpdatesKeepOldChunks == Spec => OldChunksSurvive
<1>1. Init => ReadyInv
  BY DEF Init, ReadyInv
<1>2. TypeOK /\ ReadyInv /\ [Next]_vars => ReadyInv'
  BY ReadyStep
<1>3. TypeOK /\ ReadyInv /\ [Next]_vars => [KeepsOldChunks]_vars
  BY KeepsOldChunksStep
<1> QED
  BY <1>1, <1>2, <1>3, TypeCorrect, PTL DEF Spec, OldChunksSurvive

-----------------------------------------------------------------------------
(* The content an event is processed with.                                 *)

\* The staging dict holds, for every document of the events staged so far, the
\* last content among them, and the fetched content is the staged one.
StagedInv ==
  /\ \A k \in 1 .. Len(events) : events[k].doc = docs[k].doc
  /\ \A k \in 1 .. Len(events) :
       (\A m \in k + 1 .. Len(events) : docs[m].doc # docs[k].doc)
         => staged[docs[k].doc] = docs[k].version
  /\ pc \notin {"idle", "staging"} => Len(events) = Len(docs)
  /\ content # None =>
       /\ pc \notin {"idle", "staging", "next", "fetch"}
       /\ content = staged[Current.doc]

LEMMA StagedStep ==
  ASSUME TypeOK, StagedInv, [Next]_vars
  PROVE  StagedInv'
<1>1. CASE Receive
  BY <1>1 DEF Receive, StagedInv, TypeOK, loop
<1>2. CASE StageEvent
  <2> DEFINE n == Len(events)
             p == NextPayload
  <2>1. /\ p \in Payload
        /\ p = docs[n + 1]
        /\ n \in Nat
        /\ content = None
    BY <1>2 DEF StageEvent, TypeOK, NextPayload, StagedInv
  <2>2. /\ \E e \in Event : events' = Append(events, e) /\ e.doc = p.doc
        /\ staged' = [staged EXCEPT ![p.doc] = p.version]
        /\ UNCHANGED <<docs, content, pc>>
    BY <1>2, <2>1 DEF StageEvent, PushDeletion, PushDocument, Payload, Event, loop
  <2>3. /\ Len(events') = n + 1
        /\ events'[n + 1].doc = p.doc
        /\ \A k \in 1 .. n : events'[k] = events[k]
    BY <2>2 DEF TypeOK
  <2>4. \A k \in 1 .. Len(events') : events'[k].doc = docs'[k].doc
    BY <2>1, <2>2, <2>3 DEF StagedInv
  <2>5. ASSUME NEW k \in 1 .. Len(events'),
               \A m \in k + 1 .. Len(events') : docs'[m].doc # docs'[k].doc
        PROVE  staged'[docs'[k].doc] = docs'[k].version
    <3>1. CASE k = n + 1
      BY <2>1, <2>2, <3>1 DEF TypeOK, Payload
    <3>2. CASE k # n + 1
      <4>1. k \in 1 .. n /\ n + 1 \in k + 1 .. Len(events')
        BY <2>1, <2>3, <3>2
      <4>2. docs[k].doc # p.doc
        BY <2>1, <2>2, <2>5, <4>1
      <4>3. \A m \in k + 1 .. n : docs[m].doc # docs[k].doc
        BY <2>1, <2>2, <2>3, <2>5, <4>1
      <4>4. staged[docs[k].doc] = docs[k].version
        BY <4>1, <4>3 DEF StagedInv
      <4>5. docs[k] \in Payload
        BY <4>1, <2>1 DEF TypeOK
      <4> QED
        BY <2>1, <2>2, <4>2, <4>4, <4>5 DEF TypeOK, Payload
    <3> QED
      BY <3>1, <3>2
  <2> QED
    BY <1>2, <2>1, <2>2, <2>4, <2>5 DEF StagedInv, StageEvent
<1>3. CASE RejectRequest \/ FinishRequest \/ Crash
  BY <1>3 DEF RejectRequest, FinishRequest, Crash, EndRequest, StagedInv
<1>4. CASE StartProcessing
  BY <1>4 DEF StartProcessing, StagedInv, connector, request, TypeOK
<1>5. CASE Dispatch
  BY <1>5 DEF Dispatch, Goto, StagedInv, connector, request, loop
<1>6. CASE DeleteDocument
  BY <1>6
  DEF DeleteDocument, Raise, Goto, Conclude, StagedInv, Current, connector, request, loop
<1>7. CASE Fetch
  BY <1>7 DEF Fetch, Goto, Conclude, StagedInv, Current, connector, request, loop
<1>8. CASE ConvertAndChunk \/ Embed
  BY <1>8
  DEF ConvertAndChunk, Embed, Raise, Goto, Conclude, StagedInv, Current,
      connector, request, loop
<1>9. CASE ClearOldChunks \/ StoreChunks
  BY <1>9
  DEF ClearOldChunks, StoreChunks, Raise, Goto, Conclude, StagedInv, Current,
      connector, request, loop
<1>10. CASE AuditOutcome \/ HandleException
  BY <1>10
  DEF AuditOutcome, HandleException, Record, LogRaises, StagedInv, Current,
      connector, request, loop
<1>11. CASE UNCHANGED vars
  BY <1>11 DEF vars, StagedInv, Current, connector, request, loop
<1> QED
  BY <1>1, <1>2, <1>3, <1>4, <1>5, <1>6, <1>7, <1>8, <1>9, <1>10, <1>11 DEF Next, Serve

\* Whatever an earlier, rejected request left staged, and however often a
\* batch repeats a document, what is indexed is the last content the request
\* being served pushed for it.
THEOREM EventsServeLastContent == Spec => []ServesLastContent
<1>1. Init => StagedInv
  BY DEF Init, StagedInv
<1>2. TypeOK /\ StagedInv /\ [Next]_vars => StagedInv'
  BY StagedStep
<1>3. TypeOK /\ StagedInv => ServesLastContent
  BY DEF TypeOK, StagedInv, ServesLastContent
<1> QED
  BY <1>1, <1>2, <1>3, TypeCorrect, PTL DEF Spec

-----------------------------------------------------------------------------
(* Nothing is retained between requests, if no request is rejected.        *)

ReleaseInv ==
  \A d \in Docs : staged[d] # None =>
    pc # "idle" /\ \E k \in 1 .. Len(events) : events[k].doc = d

LEMMA ReleaseStep ==
  ASSUME "invalid" \notin DeclaredTypes, TypeOK, ReleaseInv, [Next]_vars
  PROVE  ReleaseInv'
<1>1. CASE Receive
  BY <1>1 DEF Receive, ReleaseInv, connector, loop
<1>2. CASE StageEvent
  <2>1. NextPayload \in Payload
    BY <1>2 DEF StageEvent, TypeOK, NextPayload
  <2>2. /\ \E e \in Event : events' = Append(events, e) /\ e.doc = NextPayload.doc
        /\ staged' = [staged EXCEPT ![NextPayload.doc] = NextPayload.version]
        /\ pc' # "idle"
    BY <1>2, <2>1 DEF StageEvent, PushDeletion, PushDocument, Payload, Event
  <2>3. /\ Len(events') = Len(events) + 1
        /\ events'[Len(events) + 1].doc = NextPayload.doc
        /\ \A k \in 1 .. Len(events) : events'[k] = events[k]
        /\ Len(events) \in Nat
    BY <2>2 DEF TypeOK
  <2> SUFFICES ASSUME NEW d \in Docs, staged'[d] # None
               PROVE  \E k \in 1 .. Len(events') : events'[k].doc = d
    BY <2>2 DEF ReleaseInv
  <2>4. CASE d = NextPayload.doc
    BY <2>3, <2>4
  <2>5. CASE d # NextPayload.doc
    BY <2>2, <2>3, <2>5 DEF ReleaseInv, TypeOK
  <2> QED
    BY <2>4, <2>5
<1>3. CASE RejectRequest
  BY <1>3 DEF RejectRequest, NextPayload, TypeOK, Payload
<1>4. CASE FinishRequest \/ Crash
  BY <1>4 DEF FinishRequest, Crash, ReleaseInv
<1>5. CASE StartProcessing \/ Dispatch
  BY <1>5 DEF StartProcessing, Dispatch, Goto, ReleaseInv, connector, request
<1>6. CASE DeleteDocument \/ Fetch \/ ConvertAndChunk \/ Embed
  BY <1>6
  DEF DeleteDocument, Fetch, ConvertAndChunk, Embed, Raise, Goto, Conclude, ReleaseInv,
      connector, request
<1>7. CASE ClearOldChunks \/ StoreChunks \/ AuditOutcome \/ HandleException
  BY <1>7
  DEF ClearOldChunks, StoreChunks, AuditOutcome, HandleException, Record, LogRaises,
      Raise, Goto, Conclude, ReleaseInv, connector, request
<1>8. CASE UNCHANGED vars
  BY <1>8 DEF vars, ReleaseInv, connector, request
<1> QED
  BY <1>1, <1>2, <1>3, <1>4, <1>5, <1>6, <1>7, <1>8 DEF Next, Serve

\* Unless a request is rejected half way, the connector holds no content
\* between two requests: routes.py:8-9, for every failure and crash.
THEOREM AcceptedRequestsReleaseContent ==
  ASSUME "invalid" \notin DeclaredTypes
  PROVE  Spec => []NothingStagedWhenIdle
<1>1. Init => ReleaseInv
  BY DEF Init, ReleaseInv
<1>2. TypeOK /\ ReleaseInv /\ [Next]_vars => ReleaseInv'
  BY ReleaseStep
<1>3. ReleaseInv => NothingStagedWhenIdle
  BY DEF ReleaseInv, NothingStagedWhenIdle
<1> QED
  BY <1>1, <1>2, <1>3, TypeCorrect, PTL DEF Spec

-----------------------------------------------------------------------------
(* Refinement: the pipeline implements KnowledgeBase.                      *)

\* What a collection serves of d depends on the points of d alone.
LEMMA ServedSame ==
  ASSUME NEW col, NEW new, NEW d \in Docs,
         \A p \in PointId : p[2] = d => new[p] = col[p]
  PROVE  ServedVersion(new, d) = ServedVersion(col, d)
<1>1. Empty(new, d) <=> Empty(col, d)
  BY DEF Empty
<1>2. \A v \in Versions : Exact(new, d, v) <=> Exact(col, d, v)
  BY DEF Exact
<1>3. (CHOOSE v \in Versions : Exact(new, d, v)) = CHOOSE v \in Versions : Exact(col, d, v)
  BY <1>2
<1> QED
  BY <1>1, <1>2, <1>3 DEF ServedVersion

\* A collection that holds exactly a version with some chunk serves that one.
LEMMA ServedExact ==
  ASSUME NEW col, NEW d \in Docs, NEW v \in Versions,
         ChunkCount[v] > 0, Exact(col, d, v)
  PROVE  ServedVersion(col, d) = v
<1> DEFINE p == <<Source, d, 0>>
<1>1. p \in PointId /\ p[1] = Source /\ p[2] = d /\ p[3] = 0
  BY SourceAssumption, ChunkAssumption DEF PointId, Index
<1>2. col[p] = v
  BY <1>1 DEF Exact
<1>3. \A w \in Versions : Exact(col, d, w) => w = v
  BY <1>1, <1>2, ChunkAssumption DEF Exact
<1>4. ~Empty(col, d)
  BY <1>1, <1>2, ChunkAssumption DEF Empty
<1> QED
  BY <1>3, <1>4 DEF ServedVersion

\* A step that changes what one collection serves of one document.
LEMMA ServedUpdate ==
  ASSUME NEW b \in Collections, NEW e \in Docs, NEW x,
         ServedVersion(points'[b], e) = x,
         \A d \in Docs : d # e =>
           ServedVersion(points'[b], d) = ServedVersion(points[b], d),
         \A c \in Collections : c # b => points'[c] = points[c]
  PROVE  Served' = [Served EXCEPT ![b][e] = x]
<1>1. Served' = [c \in Collections |-> [d \in Docs |-> ServedVersion(points'[c], d)]]
  BY DEF Served
<1>2. \A c \in Collections : c # b =>
        [d \in Docs |-> ServedVersion(points'[c], d)] = Served[c]
  BY DEF Served
<1>3. [d \in Docs |-> ServedVersion(points'[b], d)] = [Served[b] EXCEPT ![e] = x]
  BY DEF Served
<1>4. Served = [c \in Collections |-> Served[c]]
  BY DEF Served
<1> DEFINE row == [Served[b] EXCEPT ![e] = x]
<1>5. \A c \in Collections : Served'[c] = IF c = b THEN row ELSE Served[c]
  BY <1>1, <1>2, <1>3
<1>6. Served' = [c \in Collections |-> IF c = b THEN row ELSE Served[c]]
  BY <1>1, <1>5
<1> HIDE DEF row
<1>7. Served' = [Served EXCEPT ![b] = row]
  BY <1>4, <1>6
<1> QED
  BY <1>7 DEF row

\* delete_by_document retracts the current document from the collection.
LEMMA DeleteRetracts ==
  ASSUME TypeOK, Current \in Event, collection \in Collections,
         points' = [points EXCEPT ![collection] = DeleteByDocument(@, Current.doc)]
  PROVE  Served' = [Served EXCEPT ![collection][Current.doc] = None]
<1>1. points'[collection] = DeleteByDocument(points[collection], Current.doc)
  BY DEF TypeOK
<1>2. ServedVersion(points'[collection], Current.doc) = None
  BY <1>1, DeleteEmpties DEF ServedVersion, Event
<1>3. \A d \in Docs : d # Current.doc =>
        ServedVersion(points'[collection], d) = ServedVersion(points[collection], d)
  BY <1>1, DeleteEmpties, ServedSame DEF Event
<1>4. \A c \in Collections : c # collection => points'[c] = points[c]
  BY DEF TypeOK
<1> QED
  BY <1>2, <1>3, <1>4, ServedUpdate DEF Event

\* store_chunks publishes the fetched version, if the document was absent.
LEMMA StorePublishes ==
  ASSUME TypeOK, Current \in Event, collection \in Collections,
         content \in Versions, ChunkCount[content] > 0,
         Empty(points[collection], Current.doc),
         points' = [points EXCEPT ![collection] = Upsert(@, Current.doc, content)]
  PROVE  /\ Served[collection][Current.doc] = None
         /\ Served' = [Served EXCEPT ![collection][Current.doc] = content]
<1>1. points'[collection] = Upsert(points[collection], Current.doc, content)
  BY DEF TypeOK
<1>2. ServedVersion(points'[collection], Current.doc) = content
  BY <1>1, UpsertFills, ServedExact DEF Event
<1>3. \A d \in Docs : d # Current.doc =>
        ServedVersion(points'[collection], d) = ServedVersion(points[collection], d)
  BY <1>1, UpsertFills, ServedSame DEF Event
<1>4. \A c \in Collections : c # collection => points'[c] = points[c]
  BY DEF TypeOK
<1>5. Served[collection][Current.doc] = None
  BY DEF Served, ServedVersion, Event
<1>6. Served' = [Served EXCEPT ![collection][Current.doc] = content]
  BY <1>2, <1>3, <1>4, ServedUpdate DEF Event
<1> QED
  BY <1>5, <1>6

\* Every step is a step of the knowledge base or invisible to it.
LEMMA KnowledgeBaseStep ==
  ASSUME TypeOK, WholeInv, ReadyInv, StagedInv, Next
  PROVE  KB!Next \/ UNCHANGED <<Served, staged>>
<1>1. CASE StageEvent
  <2>1. NextPayload \in Payload
    BY <1>1 DEF StageEvent, TypeOK, NextPayload
  <2>2. UNCHANGED Served
    BY <1>1 DEF StageEvent, Served
  <2>3. CASE PushDeletion(NextPayload.doc)
    <3>1. staged' = [d \in Docs |-> IF d \in {NextPayload.doc} THEN None ELSE staged[d]]
      BY <2>1, <2>3 DEF PushDeletion, TypeOK, Payload
    <3>2. KB!Withdraw({NextPayload.doc})
      BY <2>2, <3>1 DEF KB!Withdraw
    <3> QED
      BY <2>1, <3>2 DEF KB!Next, Payload
  <2>4. CASE /\ NextPayload.declared \in {"added", "modified"}
             /\ PushDocument(NextPayload.doc, NextPayload.version, NextPayload.declared)
    <3>1. KB!Offer(NextPayload.doc, NextPayload.version)
      BY <2>2, <2>4 DEF PushDocument, KB!Offer
    <3> QED
      BY <2>1, <2>4, <3>1 DEF KB!Next, Payload
  <2> QED
    BY <1>1, <2>3, <2>4 DEF StageEvent
<1>2. CASE FinishRequest
  <2> DEFINE D == {d \in Docs : \E k \in 1 .. Len(events) : events[k].doc = d}
  <2>1. KB!Withdraw(D)
    BY <1>2 DEF FinishRequest, KB!Withdraw, Served
  <2> QED
    BY <2>1 DEF KB!Next
<1>3. CASE Crash
  <2>1. KB!Withdraw(Docs)
    BY <1>3 DEF Crash, KB!Withdraw, Served
  <2> QED
    BY <2>1 DEF KB!Next
<1>4. CASE DeleteDocument \/ ClearOldChunks
  <2>1. /\ Current \in Event
        /\ collection \in Collections
        /\ UNCHANGED staged
    BY <1>4, CurrentType
    DEF DeleteDocument, ClearOldChunks, Raise, Goto, TypeOK, connector
  <2>2. \/ UNCHANGED points
        \/ points' = [points EXCEPT ![collection] = DeleteByDocument(@, Current.doc)]
    BY <1>4 DEF DeleteDocument, ClearOldChunks, Raise, Goto
  <2>3. CASE UNCHANGED points
    BY <2>1, <2>3 DEF Served
  <2>4. CASE points' = [points EXCEPT ![collection] = DeleteByDocument(@, Current.doc)]
    <3>1. KB!Retract(collection, Current.doc)
      BY <2>1, <2>4, DeleteRetracts DEF KB!Retract
    <3> QED
      BY <2>1, <3>1 DEF KB!Next, Event
  <2> QED
    BY <2>2, <2>3, <2>4
<1>5. CASE StoreChunks
  <2>1. /\ Current \in Event
        /\ collection \in Collections
        /\ content \in Versions
        /\ ChunkCount[content] > 0
        /\ Empty(points[collection], Current.doc)
        /\ content = staged[Current.doc]
        /\ UNCHANGED staged
    BY <1>5, CurrentType, ChunkAssumption
    DEF StoreChunks, Raise, Goto, TypeOK, WholeInv, ReadyInv, StagedInv, connector
  <2>2. CASE UNCHANGED points
    BY <2>1, <2>2 DEF Served
  <2>3. CASE points' = [points EXCEPT ![collection] = Upsert(@, Current.doc, content)]
    <3>1. KB!Publish(collection, Current.doc)
      BY <2>1, <2>3, StorePublishes, ChunkAssumption DEF KB!Publish
    <3> QED
      BY <2>1, <3>1 DEF KB!Next, Event
  <2> QED
    BY <1>5, <2>2, <2>3 DEF StoreChunks, Raise, Goto
<1>6. CASE \/ Receive \/ RejectRequest \/ StartProcessing \/ Dispatch \/ Fetch
           \/ ConvertAndChunk \/ Embed \/ AuditOutcome \/ HandleException
  <2>1. UNCHANGED <<points, staged>>
    BY <1>6
    DEF Receive, RejectRequest, StartProcessing, Dispatch, Fetch, ConvertAndChunk, Embed,
        AuditOutcome, HandleException, Record, LogRaises, Raise, Goto, connector
  <2> QED
    BY <2>1 DEF Served
<1> QED
  BY <1>1, <1>2, <1>3, <1>4, <1>5, <1>6 DEF Next, Serve

\* With clients that declare their updates, the pipeline with its failures and
\* crashes implements the knowledge base: a document is served in one complete,
\* currently offered version or not at all.
THEOREM PipelineImplementsKnowledgeBase ==
  ASSUME "added" \notin DeclaredTypes
  PROVE  Spec => ImplementsKnowledgeBase
<1>1. Init => WholeInv /\ ReadyInv /\ StagedInv
  BY DEF Init, WholeInv, AllWhole, Whole, Empty, ReadyInv, StagedInv
<1>2. Init => KB!Init
  BY DEF Init, KB!Init, Served, ServedVersion, Empty
<1>3. TypeOK /\ WholeInv /\ ReadyInv /\ StagedInv /\ [Next]_vars
        => WholeInv' /\ ReadyInv' /\ StagedInv'
  BY WholeStep, ReadyStep, StagedStep
<1>4. TypeOK /\ WholeInv /\ ReadyInv /\ StagedInv /\ [Next]_vars
        => [KB!Next]_<<Served, staged>>
  <2>1. UNCHANGED vars => UNCHANGED <<Served, staged>>
    BY DEF vars, connector, Served
  <2> QED
    BY <2>1, KnowledgeBaseStep
<1> QED
  BY <1>1, <1>2, <1>3, <1>4, TypeCorrect, PTL DEF Spec, ImplementsKnowledgeBase, KB!Spec, KB!kvars

-----------------------------------------------------------------------------
(* What can end a batch early.                                             *)

\* process_changes leaves by an exception only before the first event, or when
\* the audit log raised; and it answers after the last event.
StallInv ==
  /\ pc \in {"idle", "staging"} => i = 0 /\ trail = <<>>
  /\ pc = "abort" => unlogged \/ (i = 0 /\ trail = <<>>)
  /\ pc = "reply" => i > Len(events)

LEMMA StallStep ==
  ASSUME TypeOK, StallInv, [Next]_vars
  PROVE  StallInv'
<1>1. CASE Receive \/ StageEvent \/ RejectRequest \/ FinishRequest \/ Crash
  BY <1>1
  DEF Receive, StageEvent, RejectRequest, FinishRequest, Crash, EndRequest, StallInv, loop
<1>2. CASE StartProcessing
  BY <1>2 DEF StartProcessing, StallInv
<1>3. CASE Dispatch
  BY <1>3 DEF Dispatch, Goto, StallInv, request, loop
<1>4. CASE DeleteDocument \/ Fetch \/ ConvertAndChunk \/ Embed
  BY <1>4
  DEF DeleteDocument, Fetch, ConvertAndChunk, Embed, Raise, Goto, Conclude, StallInv
<1>5. CASE ClearOldChunks \/ StoreChunks
  BY <1>5 DEF ClearOldChunks, StoreChunks, Raise, Goto, Conclude, StallInv
<1>6. CASE AuditOutcome \/ HandleException
  BY <1>6 DEF AuditOutcome, HandleException, Record, LogRaises, StallInv
<1>7. CASE UNCHANGED vars
  BY <1>7 DEF vars, StallInv, request, loop
<1> QED
  BY <1>1, <1>2, <1>3, <1>4, <1>5, <1>6, <1>7 DEF Next, Serve

\* One bad document never stalls its batch (ingest_pipeline_orchestrator.py:14),
\* unless the audit log raises for it: whatever else fails, a request that ends
\* has been through all its events, or has begun none.
THEOREM OnlyUnloggedEventsStall == Spec => []OnlyTheAuditLogStalls
<1>1. Init => StallInv
  BY DEF Init, StallInv
<1>2. TypeOK /\ StallInv /\ [Next]_vars => StallInv'
  BY StallStep
<1>3. StallInv => OnlyTheAuditLogStalls
  BY DEF StallInv, OnlyTheAuditLogStalls, BatchRunsToTheEnd
<1> QED
  BY <1>1, <1>2, <1>3, TypeCorrect, PTL DEF Spec

-----------------------------------------------------------------------------
(* The connector's bookkeeping.  Clients leave ADDED or MODIFIED to it; one *)
(* collection is used; deletions, the audit log and the reading of the      *)
(* configuration work; no payload is refused; the process is not killed.    *)

Undisturbed ==
  /\ "delete" \notin Failures
  /\ "audit" \notin Failures
  /\ "config" \notin Failures
  /\ "invalid" \notin DeclaredTypes
  /\ ~MayCrash
  /\ \A b, c \in Collections : b = c

\* The first event that the orchestrator may still apply.
Ahead ==
  IF pc \in {"idle", "staging"} THEN 1
  ELSE IF pc \in {"audit", "handler"} THEN i + 1
  ELSE i

Deletes(k, d) == events[k].doc = d /\ events[k].change = "DELETED"

\* When the first n events of the batch have been applied, nothing of d will be
\* in the store: nothing is, and none of them touches it, or the last of them
\* that does is a deletion.
Gone(d, n) ==
  \/ /\ \A c \in Collections : Empty(points[c], d)
     /\ \A k \in Ahead .. n : events[k].doc # d
  \/ \E k \in Ahead .. n :
       /\ Deletes(k, d)
       /\ \A m \in k + 1 .. n : events[m].doc # d

\* The connector forgets only what will be gone, and an event is ADDED only if
\* nothing of its document will be left when its turn comes.
Accounted ==
  /\ \A d \in Docs \ known : Gone(d, Len(events))
  /\ \A k \in Ahead .. Len(events) :
       events[k].change = "ADDED" => Gone(events[k].doc, k - 1)

\* A request that has begun ends with an answer, after its last event.
BatchInv ==
  /\ pc # "abort"
  /\ pc = "reply" => i > Len(events)

TrackInv ==
  /\ BatchInv
  /\ AllWhole
  /\ pc = "delete" => Current.change = "DELETED"
  /\ pc \in {"fetch", "convert", "embed", "clear", "store"} => Current.change # "DELETED"
  /\ pc = "store" => Empty(points[collection], Current.doc)
  /\ Accounted

\* Gone survives a step that leaves the events ahead alone and fills no
\* document.
LEMMA GoneStays ==
  ASSUME Ahead' = Ahead, events' = events, NEW d \in Docs, NEW n \in Nat,
         \A c \in Collections : Empty(points[c], d) => Empty(points'[c], d),
         Gone(d, n)
  PROVE  Gone(d, n)'
  BY DEF Gone, Deletes

\* It survives the end of an event that is not a deletion, if that event left
\* the other documents alone.
LEMMA GoneSkips ==
  ASSUME Ahead \in Nat, Ahead' = Ahead + 1, events' = events,
         NEW d \in Docs, NEW n \in Nat, n >= Ahead,
         events[Ahead].change # "DELETED",
         d # events[Ahead].doc =>
           \A c \in Collections : Empty(points[c], d) => Empty(points'[c], d),
         Gone(d, n)
  PROVE  Gone(d, n)'
<1>1. Ahead \in Ahead .. n /\ \A k \in Ahead + 1 .. n : k \in Ahead .. n
  OBVIOUS
<1>2. CASE /\ \A c \in Collections : Empty(points[c], d)
           /\ \A k \in Ahead .. n : events[k].doc # d
  BY <1>1, <1>2 DEF Gone
<1>3. CASE \E k \in Ahead .. n :
             Deletes(k, d) /\ \A m \in k + 1 .. n : events[m].doc # d
  <2>1. PICK k \in Ahead .. n :
          Deletes(k, d) /\ \A m \in k + 1 .. n : events[m].doc # d
    BY <1>3
  <2>2. k \in Ahead + 1 .. n
    BY <2>1 DEF Deletes
  <2> QED
    BY <2>1, <2>2 DEF Gone, Deletes
<1> QED
  BY <1>2, <1>3 DEF Gone

\* It survives a deletion, of whatever document.
LEMMA GoneDeletes ==
  ASSUME Ahead \in Nat, Ahead' = Ahead + 1, events' = events,
         NEW d \in Docs, NEW n \in Nat, n >= Ahead,
         \A c \in Collections : Empty(points[c], d) => Empty(points'[c], d),
         d = events[Ahead].doc => \A c \in Collections : Empty(points'[c], d),
         Gone(d, n)
  PROVE  Gone(d, n)'
<1>1. Ahead \in Ahead .. n /\ \A k \in Ahead + 1 .. n : k \in Ahead .. n
  OBVIOUS
<1>2. CASE /\ \A c \in Collections : Empty(points[c], d)
           /\ \A k \in Ahead .. n : events[k].doc # d
  BY <1>1, <1>2 DEF Gone
<1>3. CASE \E k \in Ahead .. n :
             Deletes(k, d) /\ \A m \in k + 1 .. n : events[m].doc # d
  <2>1. PICK k \in Ahead .. n :
          Deletes(k, d) /\ \A m \in k + 1 .. n : events[m].doc # d
    BY <1>3
  <2>2. CASE k = Ahead
    <3>1. \A c \in Collections : Empty(points'[c], d)
      BY <2>1, <2>2 DEF Deletes
    <3> QED
      BY <2>1, <2>2, <3>1 DEF Gone
  <2>3. CASE k \in Ahead + 1 .. n
    BY <2>1, <2>3 DEF Gone, Deletes
  <2> QED
    BY <2>2, <2>3
<1> QED
  BY <1>2, <1>3 DEF Gone

\* The events of a batch are events on documents.
LEMMA EventType ==
  ASSUME TypeOK
  PROVE  /\ Len(events) \in Nat
         /\ \A k \in 1 .. Len(events) : events[k] \in Event /\ events[k].doc \in Docs
<1>1. events \in Seq(Event)
  BY DEF TypeOK
<1>2. \A k \in 1 .. Len(events) : events[k] \in Event
  BY <1>1
<1> QED
  BY <1>1, <1>2 DEF Event

\* The same for the bookkeeping as a whole.
LEMMA AccountStays ==
  ASSUME TypeOK, Accounted, Ahead \in Nat \ {0}, Ahead' = Ahead,
         UNCHANGED <<events, known>>,
         \A d \in Docs, c \in Collections : Empty(points[c], d) => Empty(points'[c], d)
  PROVE  Accounted'
<1>1. Len(events) \in Nat /\ \A k \in 1 .. Len(events) : events[k].doc \in Docs
  BY EventType
<1>2. ASSUME NEW d \in Docs \ known
      PROVE  Gone(d, Len(events))'
  <2>1. PICK n \in Nat : n = Len(events)
    BY <1>1
  <2>2. Gone(d, n)'
    BY <2>1, GoneStays DEF Accounted
  <2> QED
    BY <2>1, <2>2
<1>3. ASSUME NEW k \in Ahead .. Len(events), events[k].change = "ADDED"
      PROVE  Gone(events[k].doc, k - 1)'
  <2>1. k \in 1 .. Len(events)
    OBVIOUS
  <2>2. PICK d \in Docs, n \in Nat : d = events[k].doc /\ n = k - 1
    BY <1>1, <2>1
  <2>3. Gone(d, n)'
    BY <1>3, <2>2, GoneStays DEF Accounted
  <2> QED
    BY <2>2, <2>3
<1> QED
  BY <1>2, <1>3 DEF Accounted

LEMMA AccountSkips ==
  ASSUME TypeOK, Accounted, i \in 1 .. Len(events), Ahead = i, Ahead' = i + 1,
         UNCHANGED <<events, known>>, Current.change # "DELETED",
         \A d \in Docs : d # Current.doc =>
           \A c \in Collections : Empty(points[c], d) => Empty(points'[c], d)
  PROVE  Accounted'
<1>1. Len(events) \in Nat /\ \A k \in 1 .. Len(events) : events[k].doc \in Docs
  BY EventType
<1>2. Ahead \in Nat /\ Current = events[Ahead]
  BY DEF Current
<1>3. ASSUME NEW d \in Docs \ known
      PROVE  Gone(d, Len(events))'
  <2>1. PICK n \in Nat : n = Len(events) /\ n >= Ahead
    BY <1>1
  <2>2. Gone(d, n)
    BY <2>1 DEF Accounted
  <2>3. Gone(d, n)'
    BY <1>2, <2>1, <2>2, GoneSkips
  <2> QED
    BY <2>1, <2>3
<1>4. ASSUME NEW k \in i + 1 .. Len(events), events[k].change = "ADDED"
      PROVE  Gone(events[k].doc, k - 1)'
  <2>1. k - 1 \in Nat /\ k - 1 >= Ahead /\ k \in Ahead .. Len(events)
    OBVIOUS
  <2>2. PICK d \in Docs, n \in Nat : d = events[k].doc /\ n = k - 1
    BY <1>1, <2>1
  <2>3. Gone(d, n)
    BY <1>4, <2>1, <2>2 DEF Accounted
  <2>4. Gone(d, n)'
    BY <1>2, <2>1, <2>2, <2>3, GoneSkips
  <2> QED
    BY <2>2, <2>4
<1> QED
  BY <1>3, <1>4 DEF Accounted

LEMMA AccountDeletes ==
  ASSUME TypeOK, Accounted, i \in 1 .. Len(events), Ahead = i, Ahead' = i + 1,
         UNCHANGED <<events, known>>,
         \A d \in Docs, c \in Collections : Empty(points[c], d) => Empty(points'[c], d),
         \A c \in Collections : Empty(points'[c], Current.doc)
  PROVE  Accounted'
<1>1. Len(events) \in Nat /\ \A k \in 1 .. Len(events) : events[k].doc \in Docs
  BY EventType
<1>2. Ahead \in Nat /\ Current = events[Ahead]
  BY DEF Current
<1>3. ASSUME NEW d \in Docs \ known
      PROVE  Gone(d, Len(events))'
  <2>1. PICK n \in Nat : n = Len(events) /\ n >= Ahead
    BY <1>1
  <2>2. Gone(d, n)
    BY <2>1 DEF Accounted
  <2>3. Gone(d, n)'
    BY <1>2, <2>1, <2>2, GoneDeletes
  <2> QED
    BY <2>1, <2>3
<1>4. ASSUME NEW k \in i + 1 .. Len(events), events[k].change = "ADDED"
      PROVE  Gone(events[k].doc, k - 1)'
  <2>1. k - 1 \in Nat /\ k - 1 >= Ahead /\ k \in Ahead .. Len(events)
    OBVIOUS
  <2>2. PICK d \in Docs, n \in Nat : d = events[k].doc /\ n = k - 1
    BY <1>1, <2>1
  <2>3. Gone(d, n)
    BY <1>4, <2>1, <2>2 DEF Accounted
  <2>4. Gone(d, n)'
    BY <1>2, <2>1, <2>2, <2>3, GoneDeletes
  <2> QED
    BY <2>2, <2>4
<1> QED
  BY <1>3, <1>4 DEF Accounted

\* Staging an event keeps the bookkeeping.
LEMMA AccountStages ==
  ASSUME TypeOK, Accounted, StageEvent
  PROVE  Accounted'
<1>1. PICK p \in Payload, n \in Nat : p = NextPayload /\ n = Len(events)
  BY DEF StageEvent, TypeOK, NextPayload
<1>2. Ahead = 1 /\ Ahead' = 1
  BY DEF StageEvent, Ahead
<1>3. PICK e \in Event :
        /\ events' = Append(events, e)
        /\ e.doc = p.doc
        /\ \/ e.change = "DELETED" /\ known' = known \ {p.doc}
           \/ /\ e.change # "DELETED"
              /\ known' = known \cup {p.doc}
              /\ e.change = "ADDED" => p.doc \notin known
  BY <1>1 DEF StageEvent, PushDeletion, PushDocument, Payload, Event
<1>4. /\ Len(events') = n + 1
      /\ events'[n + 1] = e
      /\ \A k \in 1 .. n : events'[k] = events[k]
      /\ points' = points
  BY <1>1, <1>3, EventType DEF TypeOK, StageEvent
<1>5. ASSUME NEW d \in Docs, NEW m \in 0 .. n, Gone(d, m)
      PROVE  Gone(d, m)'
  <2>1. CASE /\ \A c \in Collections : Empty(points[c], d)
             /\ \A k \in 1 .. m : events[k].doc # d
    BY <1>2, <1>4, <2>1 DEF Gone
  <2>2. CASE \E k \in 1 .. m :
               Deletes(k, d) /\ \A l \in k + 1 .. m : events[l].doc # d
    <3>1. PICK k \in 1 .. m : Deletes(k, d) /\ \A l \in k + 1 .. m : events[l].doc # d
      BY <2>2
    <3>2. Deletes(k, d)' /\ \A l \in k + 1 .. m : events'[l].doc # d
      BY <1>4, <3>1 DEF Deletes
    <3> QED
      BY <1>2, <3>1, <3>2 DEF Gone
  <2> QED
    BY <1>2, <1>5, <2>1, <2>2 DEF Gone
<1>6. ASSUME NEW d \in Docs \ known' PROVE Gone(d, n + 1)'
  <2>1. CASE d = p.doc
    <3>1. Deletes(n + 1, d)' /\ n + 1 \in 1 .. n + 1
      BY <1>1, <1>3, <1>4, <1>6, <2>1 DEF Deletes
    <3> QED
      BY <1>2, <3>1 DEF Gone
  <2>2. CASE d # p.doc
    <3>1. Gone(d, n)'
      BY <1>1, <1>3, <1>5, <2>2 DEF Accounted
    <3>2. events'[n + 1].doc # d
      BY <1>3, <1>4, <2>2
    <3>3. CASE /\ \A c \in Collections : Empty(points'[c], d)
               /\ \A k \in 1 .. n : events'[k].doc # d
      BY <1>2, <3>2, <3>3 DEF Gone
    <3>4. CASE \E k \in 1 .. n :
                 Deletes(k, d)' /\ \A l \in k + 1 .. n : events'[l].doc # d
      <4>1. PICK k \in 1 .. n :
              Deletes(k, d)' /\ \A l \in k + 1 .. n : events'[l].doc # d
        BY <3>4
      <4>2. k \in 1 .. n + 1 /\ \A l \in k + 1 .. n + 1 : events'[l].doc # d
        BY <1>1, <3>2, <4>1
      <4> QED
        BY <1>2, <4>1, <4>2 DEF Gone
    <3> QED
      BY <1>2, <3>1, <3>3, <3>4 DEF Gone
  <2> QED
    BY <2>1, <2>2
<1>7. ASSUME NEW k \in 1 .. n + 1, events'[k].change = "ADDED"
      PROVE  Gone(events[k].doc, k - 1)'
  <2>1. CASE k = n + 1
    <3>1. p.doc \in Docs \ known
      BY <1>1, <1>3, <1>4, <1>7, <2>1 DEF Payload
    <3>2. Gone(p.doc, n)'
      BY <1>1, <1>5, <3>1 DEF Accounted
    <3> QED
      BY <1>1, <1>3, <1>4, <2>1, <3>2
  <2>2. CASE k # n + 1
    <3>1. k \in 1 .. n /\ k - 1 \in 0 .. n
      BY <1>1, <2>2
    <3>2. events[k].doc \in Docs /\ events'[k] = events[k]
      BY <1>1, <1>4, <3>1, EventType
    <3>3. Gone(events[k].doc, k - 1)
      BY <1>1, <1>2, <1>7, <3>1, <3>2 DEF Accounted
    <3>4. \A d \in Docs : Gone(d, k - 1) => Gone(d, k - 1)'
      BY <1>5, <3>1
    <3>5. PICK d \in Docs : d = events[k].doc
      BY <3>2
    <3> QED
      BY <3>2, <3>3, <3>4, <3>5
  <2> QED
    BY <2>1, <2>2
<1> QED
  BY <1>1, <1>2, <1>4, <1>6, <1>7 DEF Accounted

\* With one collection, delete_by_document leaves nothing of the document.
LEMMA DeleteEverywhere ==
  ASSUME TypeOK, Undisturbed, Current \in Event, collection \in Collections,
         points' = [points EXCEPT ![collection] = DeleteByDocument(@, Current.doc)]
  PROVE  /\ \A c \in Collections : Empty(points'[c], Current.doc)
         /\ \A d \in Docs, c \in Collections : Empty(points[c], d) => Empty(points'[c], d)
<1>1. points'[collection] = DeleteByDocument(points[collection], Current.doc)
  BY DEF TypeOK
<1>2. \A c \in Collections : c = collection
  BY DEF Undisturbed
<1>3. Empty(points'[collection], Current.doc)
  BY <1>1, DeleteEmpties DEF Event
<1>4. \A d \in Docs : Empty(points[collection], d) => Empty(points'[collection], d)
  BY <1>1 DEF DeleteByDocument, Empty
<1> QED
  BY <1>2, <1>3, <1>4

\* store_chunks fills no other document.
LEMMA StoreFillsOne ==
  ASSUME TypeOK, Current \in Event, collection \in Collections, content \in Versions,
         points' = [points EXCEPT ![collection] = Upsert(@, Current.doc, content)]
  PROVE  \A d \in Docs : d # Current.doc =>
           \A c \in Collections : Empty(points[c], d) => Empty(points'[c], d)
<1> SUFFICES ASSUME NEW d \in Docs, d # Current.doc,
                    NEW c \in Collections, Empty(points[c], d)
             PROVE  Empty(points'[c], d)
  OBVIOUS
<1>1. CASE c = collection
  <2>1. points'[c] = Upsert(points[c], Current.doc, content)
    BY <1>1 DEF TypeOK
  <2> QED
    BY <2>1, UpsertFills DEF Event, Empty
<1>2. CASE c # collection
  BY <1>2 DEF TypeOK
<1> QED
  BY <1>1, <1>2

\* When the turn of an ADDED event comes, its document is absent.
LEMMA AddedIsAbsent ==
  ASSUME TypeOK, Accounted, i \in 1 .. Len(events), Ahead = i, Current.change = "ADDED"
  PROVE  \A c \in Collections : Empty(points[c], Current.doc)
<1>1. i \in Ahead .. Len(events) /\ Current = events[i]
  BY EventType DEF Current
<1>2. Gone(Current.doc, i - 1)
  BY <1>1 DEF Accounted
<1>3. \A k \in Ahead .. i - 1 : FALSE
  BY EventType
<1> QED
  BY <1>2, <1>3 DEF Gone

\* A step that ends the current event, not a deletion, without writing, or
\* that prepares it further.
LEMMA TrackIdles ==
  ASSUME TypeOK, TrackInv, UNCHANGED <<points, known, events, i, collection>>,
         pc \in {"fetch", "convert", "embed", "store"},
         \/ pc' \in {"audit", "handler"}
         \/ pc' \in {"convert", "embed", "clear"}
         \/ pc' = "store" /\ pc = "embed" /\ Current.change = "ADDED"
  PROVE  TrackInv'
<1>1. /\ i \in 1 .. Len(events)
      /\ Ahead = i
      /\ Current \in Event
      /\ collection \in Collections
      /\ Current.change # "DELETED"
  BY CurrentType DEF TypeOK, Ahead, TrackInv
<1>2. Current' = Current /\ AllWhole'
  BY DEF Current, TrackInv, AllWhole
<1>3. CASE pc' \in {"audit", "handler"}
  <2>1. Ahead' = i + 1
    BY <1>3 DEF Ahead
  <2>2. Accounted'
    BY <1>1, <2>1, AccountSkips DEF TrackInv
  <2> QED
    BY <1>2, <1>3, <2>2 DEF TrackInv, BatchInv
<1>4. CASE pc' \in {"convert", "embed", "clear"}
  <2>1. Ahead' = Ahead /\ Ahead \in Nat \ {0}
    BY <1>1, <1>4, EventType DEF Ahead
  <2>2. Accounted'
    BY <2>1, AccountStays DEF TrackInv
  <2> QED
    BY <1>1, <1>2, <1>4, <2>2 DEF TrackInv, BatchInv
<1>5. CASE pc' = "store" /\ Current.change = "ADDED"
  <2>1. Ahead' = Ahead /\ Ahead \in Nat \ {0}
    BY <1>1, <1>5, EventType DEF Ahead
  <2>2. Accounted'
    BY <2>1, AccountStays DEF TrackInv
  <2>3. Empty(points'[collection'], Current'.doc)
    BY <1>1, <1>2, <1>5, AddedIsAbsent DEF TrackInv
  <2> QED
    BY <1>1, <1>2, <1>5, <2>2, <2>3 DEF TrackInv, BatchInv
<1> QED
  BY <1>3, <1>4, <1>5

\* A step that ends the current event with a write.
LEMMA TrackMoves ==
  ASSUME TypeOK, TrackInv, UNCHANGED <<known, events, i>>,
         pc \in {"delete", "store"}, pc' \in {"audit", "handler"},
         Accounted', AllWhole'
  PROVE  TrackInv'
  BY DEF TrackInv, BatchInv

LEMMA BatchStep ==
  ASSUME Undisturbed, TypeOK, BatchInv, Next
  PROVE  BatchInv'
<1>1. CASE \/ Receive \/ StageEvent \/ RejectRequest \/ StartProcessing
           \/ FinishRequest \/ Crash
  BY <1>1
  DEF Receive, StageEvent, RejectRequest, StartProcessing, FinishRequest, Crash,
      EndRequest, BatchInv, Undisturbed
<1>2. CASE Dispatch
  BY <1>2 DEF Dispatch, Goto, BatchInv, request, loop
<1>3. CASE DeleteDocument \/ Fetch \/ ConvertAndChunk \/ Embed
  BY <1>3
  DEF DeleteDocument, Fetch, ConvertAndChunk, Embed, Raise, Goto, Conclude, BatchInv
<1>4. CASE ClearOldChunks \/ StoreChunks
  BY <1>4 DEF ClearOldChunks, StoreChunks, Raise, Goto, Conclude, BatchInv
<1>5. CASE AuditOutcome \/ HandleException
  BY <1>5 DEF AuditOutcome, HandleException, Record, LogRaises, Undisturbed, BatchInv
<1> QED
  BY <1>1, <1>2, <1>3, <1>4, <1>5 DEF Next, Serve

LEMMA TrackStep ==
  ASSUME Undisturbed, TypeOK, TrackInv, Next
  PROVE  TrackInv'
<1>0. BatchInv'
  BY BatchStep DEF TrackInv
<1>1. CASE Receive \/ StartProcessing
  <2>1. Ahead' = Ahead /\ Ahead \in Nat \ {0}
    BY <1>1 DEF Receive, StartProcessing, Ahead, Undisturbed
  <2>2. UNCHANGED <<points, known, events>> /\ pc' \in {"staging", "next"}
    BY <1>1 DEF Receive, StartProcessing, Undisturbed, connector, request
  <2>3. Accounted'
    BY <2>1, <2>2, AccountStays DEF TrackInv
  <2> QED
    BY <1>0, <2>2, <2>3 DEF TrackInv, AllWhole
<1>2. CASE StageEvent
  <2>1. Accounted'
    BY <1>2, AccountStages DEF TrackInv
  <2> QED
    BY <1>0, <1>2, <2>1 DEF StageEvent, TrackInv, AllWhole
<1>3. CASE RejectRequest
  BY <1>3 DEF RejectRequest, NextPayload, TypeOK, Payload, Undisturbed
<1>4. CASE FinishRequest
  <2>1. /\ pc = "reply" /\ pc' = "idle" /\ i' = 0
        /\ events' = <<>>
        /\ UNCHANGED <<points, known>>
    BY <1>4 DEF FinishRequest, EndRequest, TrackInv, BatchInv
  <2>2. Ahead = i /\ i > Len(events) /\ Len(events) \in Nat /\ i \in Nat
    BY <2>1, EventType DEF Ahead, TrackInv, BatchInv, TypeOK
  <2>3. \A k \in Ahead .. Len(events) : FALSE
    BY <2>2
  <2>4. \A d \in Docs \ known, c \in Collections : Empty(points'[c], d)
    BY <2>1, <2>3 DEF TrackInv, Accounted, Gone
  <2>5. Len(events') = 0 /\ Ahead' = 1
    BY <2>1 DEF Ahead
  <2>6. Accounted'
    BY <2>1, <2>4, <2>5 DEF Accounted, Gone
  <2> QED
    BY <1>0, <2>1, <2>6 DEF TrackInv, AllWhole
<1>5. CASE Dispatch
  <2>1. /\ pc = "next" /\ pc' \in {"reply", "delete", "fetch"}
        /\ UNCHANGED <<points, known, events, i>>
        /\ pc' = "delete" => Current.change = "DELETED"
        /\ pc' = "fetch" => Current.change # "DELETED"
    BY <1>5 DEF Dispatch, Goto, connector, request, loop
  <2>2. Ahead' = Ahead /\ Ahead \in Nat \ {0}
    BY <2>1, EventType DEF Ahead, TypeOK
  <2>3. Accounted'
    BY <2>1, <2>2, AccountStays DEF TrackInv
  <2> QED
    BY <1>0, <2>1, <2>3 DEF TrackInv, AllWhole, Current
<1>6. CASE DeleteDocument
  <2>1. /\ points' = [points EXCEPT ![collection] = DeleteByDocument(@, Current.doc)]
        /\ pc = "delete" /\ pc' = "audit"
        /\ UNCHANGED <<known, events, i>>
    BY <1>6
    DEF DeleteDocument, Raise, Conclude, Undisturbed, connector, request
  <2>2. /\ Current \in Event
        /\ collection \in Collections
        /\ i \in 1 .. Len(events)
        /\ Ahead = i
        /\ Ahead' = i + 1
    BY <2>1, CurrentType DEF TypeOK, Ahead
  <2>3. Accounted'
    BY <2>1, <2>2, DeleteEverywhere, AccountDeletes DEF TrackInv
  <2>4. AllWhole'
    BY <2>1, <2>2, DeleteKeepsWhole DEF TrackInv, AllWhole
  <2> QED
    BY <2>1, <2>3, <2>4, TrackMoves
<1>7. CASE Fetch \/ ConvertAndChunk \/ Embed
  <2>1. /\ UNCHANGED <<points, known, events, i, collection>>
        /\ pc \in {"fetch", "convert", "embed"}
        /\ \/ pc' \in {"audit", "handler"}
           \/ pc' \in {"convert", "embed", "clear"}
           \/ pc' = "store" /\ pc = "embed" /\ Current.change = "ADDED"
    BY <1>7
    DEF Fetch, ConvertAndChunk, Embed, Raise, Goto, Conclude, connector, request, loop
  <2> QED
    BY <2>1, TrackIdles
<1>8. CASE ClearOldChunks
  <2>1. /\ points' = [points EXCEPT ![collection] = DeleteByDocument(@, Current.doc)]
        /\ pc = "clear" /\ pc' = "store"
        /\ UNCHANGED <<known, events, i, collection>>
    BY <1>8 DEF ClearOldChunks, Raise, Undisturbed, connector, request, loop
  <2>2. /\ Current \in Event
        /\ collection \in Collections
        /\ Ahead \in Nat \ {0}
        /\ Ahead' = Ahead
        /\ Current' = Current
    BY <2>1, CurrentType, EventType DEF TypeOK, Ahead, Current
  <2>3. Accounted'
    BY <2>1, <2>2, DeleteEverywhere, AccountStays DEF TrackInv
  <2>4. AllWhole' /\ Empty(points'[collection], Current.doc)
    BY <2>1, <2>2, DeleteKeepsWhole DEF TrackInv, AllWhole
  <2> QED
    BY <1>0, <2>1, <2>2, <2>3, <2>4 DEF TrackInv
<1>9. CASE StoreChunks
  <2>1. CASE UNCHANGED points
    <3>1. /\ UNCHANGED <<points, known, events, i, collection>>
          /\ pc = "store" /\ pc' \in {"audit", "handler"}
      BY <1>9, <2>1 DEF StoreChunks, Raise, Goto, Conclude, connector, request, loop
    <3> QED
      BY <3>1, TrackIdles
  <2>2. CASE points' = [points EXCEPT ![collection] = Upsert(@, Current.doc, content)]
    <3>1. /\ pc = "store" /\ pc' \in {"audit", "handler"}
          /\ UNCHANGED <<known, events, i>>
      BY <1>9 DEF StoreChunks, Raise, Goto, Conclude, connector, request, loop
    <3>2. /\ Current \in Event
          /\ collection \in Collections
          /\ content \in Versions
          /\ i \in 1 .. Len(events)
          /\ Ahead = i
          /\ Ahead' = i + 1
          /\ Current.change # "DELETED"
      BY <3>1, CurrentType DEF TypeOK, Ahead, TrackInv
    <3>3. Accounted'
      BY <2>2, <3>1, <3>2, StoreFillsOne, AccountSkips DEF TrackInv
    <3>4. AllWhole'
      BY <2>2, <3>1, <3>2, StoreKeepsWhole DEF TrackInv, AllWhole
    <3> QED
      BY <3>1, <3>3, <3>4, TrackMoves
  <2> QED
    BY <1>9, <2>1, <2>2 DEF StoreChunks, Raise, Goto
<1>10. CASE AuditOutcome \/ HandleException
  <2>1. /\ pc \in {"audit", "handler"} /\ pc' = "next"
        /\ i' = i + 1
        /\ UNCHANGED <<points, known, events>>
    BY <1>10
    DEF AuditOutcome, HandleException, LogRaises, Record, Undisturbed, connector, request
  <2>2. Ahead' = Ahead /\ Ahead \in Nat \ {0}
    BY <2>1 DEF Ahead, TypeOK
  <2>3. Accounted'
    BY <2>1, <2>2, AccountStays DEF TrackInv
  <2> QED
    BY <1>0, <2>1, <2>3 DEF TrackInv, AllWhole
<1>11. CASE Crash
  BY <1>11 DEF Crash, Undisturbed
<1> QED
  BY <1>1, <1>2, <1>3, <1>4, <1>5, <1>6, <1>7, <1>8, <1>9, <1>10, <1>11 DEF Next, Serve

LEMMA TrackStutter ==
  ASSUME TrackInv, UNCHANGED vars
  PROVE  TrackInv'
  BY DEF vars, connector, request, loop, TrackInv, BatchInv, AllWhole, Accounted, Gone,
         Deletes, Ahead, Current

LEMMA Tracked ==
  ASSUME Undisturbed
  PROVE  Spec => [](TypeOK /\ TrackInv)
<1>1. Init => TrackInv
  <2> SUFFICES ASSUME Init PROVE TrackInv
    OBVIOUS
  <2>1. \A c \in Collections, d \in Docs : Empty(points[c], d)
    BY DEF Init, Empty
  <2>2. Len(events) = 0 /\ Ahead = 1
    BY DEF Init, Ahead
  <2> QED
    BY <2>1, <2>2 DEF Init, TrackInv, BatchInv, AllWhole, Whole, Accounted, Gone
<1>2. TypeOK /\ TrackInv /\ [Next]_vars => TrackInv'
  BY TrackStep, TrackStutter
<1> QED
  BY <1>1, <1>2, TypeCorrect, PTL DEF Spec

\* The promise of push_document (api_push_source_connector.py:67): clients
\* need not say whether a push is an update.  It is kept, for any number of
\* documents, versions and batches and whatever conversion, embedding and
\* storing do, by an undisturbed process.
THEOREM UndisturbedTrackingKeepsDocumentsWhole ==
  ASSUME Undisturbed
  PROVE  Spec => []WholeDocuments
<1>1. TrackInv => WholeDocuments
  BY DEF TrackInv, AllWhole, Whole, WholeDocuments
<1> QED
  BY <1>1, Tracked, PTL

\* Under the same conditions the set of known documents never lags behind the
\* store between two requests: the deletion that took a document from it has
\* been applied, also when the batch pushed the document before or after.
THEOREM UndisturbedTrackingKnowsTheStore ==
  ASSUME Undisturbed
  PROVE  Spec => []StoredIsKnown
<1>1. TypeOK /\ TrackInv => StoredIsKnown
  <2> SUFFICES ASSUME TypeOK, TrackInv, pc = "idle",
                      NEW c \in Collections, NEW d \in Docs \ known
               PROVE  Empty(points[c], d)
    BY DEF StoredIsKnown
  <2>1. Len(events) = 0 /\ Ahead = 1
    BY DEF TypeOK, Ahead
  <2> QED
    BY <2>1 DEF TrackInv, Accounted, Gone
<1> QED
  BY <1>1, Tracked, PTL

-----------------------------------------------------------------------------
(* The label a single push is answered with.                               *)

\* What the store says of the only event of a batch, if it ended as `o`.
EndedAs(o) ==
  LET d == events[1].doc
      v == docs[1].version
  IN  /\ o = "DELETED" => events[1].change = "DELETED" /\ Empty(points[collection], d)
      /\ o = "UPDATED" => events[1].change = "MODIFIED" /\ Exact(points[collection], d, v)
      /\ o = "INGESTED" => events[1].change = "ADDED" /\ Holds(points[collection], d, v)

\* The only event has been counted as a failure or a skip, or it ended well.
Counted ==
  \/ counts.failed > 0
  \/ counts.skipped > 0
  \/ \E o \in {"DELETED", "UPDATED", "INGESTED"} : EndedAs(o)

\* While the only event is processed, the store is cleared before an update is
\* stored, and the outcome about to be audited is true; after it, so is the
\* count.
LabelInv ==
  Len(events) = 1 =>
    /\ pc = "delete" => Current.change = "DELETED"
    /\ pc \in {"clear", "store"} => Current.change # "DELETED"
    /\ pc = "store" /\ Current.change = "MODIFIED" =>
         Empty(points[collection], Current.doc)
    /\ pc = "audit" => EndedAs(outcome)
    /\ (pc = "next" /\ i > 1) \/ pc = "reply" => Counted

LEMMA OnlyEvent ==
  ASSUME TypeOK, Len(events) = 1,
         pc \notin {"idle", "staging", "next", "reply", "abort"}
  PROVE  i = 1 /\ Current = events[1]
  BY DEF TypeOK, Current

\* What the two operations of the store and the audit record establish.
LEMMA LabelDeletes ==
  ASSUME TypeOK, LabelInv, DeleteDocument, Len(events) = 1
  PROVE  pc' = "audit" => EndedAs(outcome)'
<1> SUFFICES ASSUME pc' = "audit" PROVE EndedAs(outcome)'
  OBVIOUS
<1>1. /\ points' = [points EXCEPT ![collection] = DeleteByDocument(@, Current.doc)]
      /\ outcome' = "DELETED"
      /\ pc = "delete"
      /\ UNCHANGED <<events, docs, collection>>
  BY DEF DeleteDocument, Raise, Goto, Conclude, request
<1>2. /\ Current = events[1]
      /\ Current \in Event
      /\ collection \in Collections
      /\ Current.change = "DELETED"
  BY <1>1, OnlyEvent, CurrentType DEF TypeOK, LabelInv
<1>3. points'[collection] = DeleteByDocument(points[collection], Current.doc)
  BY <1>1, <1>2 DEF TypeOK
<1>4. Empty(points'[collection], Current.doc)
  BY <1>2, <1>3, DeleteEmpties DEF Event
<1> QED
  BY <1>1, <1>2, <1>4 DEF EndedAs

LEMMA LabelStores ==
  ASSUME TypeOK, StagedInv, LabelInv, StoreChunks, Len(events) = 1
  PROVE  pc' = "audit" => EndedAs(outcome)'
<1> SUFFICES ASSUME pc' = "audit" PROVE EndedAs(outcome)'
  OBVIOUS
<1>1. /\ points' = [points EXCEPT ![collection] = Upsert(@, Current.doc, content)]
      /\ outcome' = IF Current.change = "ADDED" THEN "INGESTED" ELSE "UPDATED"
      /\ pc = "store"
      /\ UNCHANGED <<events, docs, collection>>
  BY DEF StoreChunks, Raise, Goto, Conclude, request
<1>2. /\ Current = events[1]
      /\ Current \in Event
      /\ collection \in Collections
      /\ content \in Versions
      /\ Current.change # "DELETED"
  BY <1>1, OnlyEvent, CurrentType DEF TypeOK, LabelInv
<1>3. content = docs[1].version /\ events[1].doc = docs[1].doc
  <2>1. content = staged[Current.doc]
    BY <1>2, ChunkAssumption DEF StagedInv
  <2>2. \A m \in 1 + 1 .. Len(events) : FALSE
    OBVIOUS
  <2>3. events[1].doc = docs[1].doc /\ staged[docs[1].doc] = docs[1].version
    BY <2>2 DEF StagedInv
  <2> QED
    BY <1>2, <2>1, <2>3
<1>4. points'[collection] = Upsert(points[collection], Current.doc, content)
  BY <1>1, <1>2 DEF TypeOK
<1>5. CASE Current.change = "ADDED"
  <2>1. Holds(points'[collection], Current.doc, content)
    BY <1>4 DEF Holds, Upsert
  <2> QED
    BY <1>1, <1>2, <1>3, <1>5, <2>1 DEF EndedAs
<1>6. CASE Current.change = "MODIFIED"
  <2>1. Empty(points[collection], Current.doc)
    BY <1>1, <1>6 DEF LabelInv
  <2>2. Exact(points'[collection], Current.doc, content)
    BY <1>2, <1>4, <2>1, UpsertFills DEF Event
  <2> QED
    BY <1>1, <1>2, <1>3, <1>6, <2>2 DEF EndedAs
<1> QED
  BY <1>2, <1>5, <1>6 DEF Event

LEMMA LabelRecords ==
  ASSUME TypeOK, LabelInv, AuditOutcome \/ HandleException, Len(events) = 1
  PROVE  pc' = "next" => Counted'
<1> SUFFICES ASSUME pc' = "next" PROVE Counted'
  OBVIOUS
<1>1. /\ UNCHANGED <<points, events, docs, collection>>
      /\ \/ pc = "audit" /\ Record(outcome, CountOf[outcome])
         \/ Record("SKIPPED", "failed")
  BY DEF AuditOutcome, HandleException, Record, LogRaises, connector, request
<1>2. counts \in Count
  BY DEF TypeOK
<1>3. CASE Record("SKIPPED", "failed")
  <2>1. counts'.failed > 0
    BY <1>2, <1>3 DEF Record, Count
  <2> QED
    BY <2>1 DEF Counted
<1>4. CASE pc = "audit" /\ Record(outcome, CountOf[outcome])
  <2>1. EndedAs(outcome) /\ outcome \in OutcomeType
    BY <1>4 DEF LabelInv, TypeOK
  <2>2. CASE outcome = "SKIPPED"
    <3>1. counts'.skipped > 0
      BY <1>2, <1>4, <2>2 DEF Record, Count, CountOf
    <3> QED
      BY <3>1 DEF Counted
  <2>3. CASE outcome # "SKIPPED"
    <3>1. \E o \in {"DELETED", "UPDATED", "INGESTED"} : EndedAs(o)
      BY <2>1, <2>3 DEF OutcomeType
    <3>2. \A o \in {"DELETED", "UPDATED", "INGESTED"} : EndedAs(o) => EndedAs(o)'
      BY <1>1 DEF EndedAs
    <3> QED
      BY <3>1, <3>2 DEF Counted
  <2> QED
    BY <2>2, <2>3
<1> QED
  BY <1>1, <1>3, <1>4

LEMMA LabelStep ==
  ASSUME TypeOK, StagedInv, LabelInv, [Next]_vars
  PROVE  LabelInv'
<1>1. CASE \/ Receive \/ StageEvent \/ RejectRequest \/ StartProcessing
           \/ FinishRequest \/ Crash
  BY <1>1
  DEF Receive, StageEvent, RejectRequest, StartProcessing, FinishRequest, Crash,
      EndRequest, LabelInv
<1>2. CASE Dispatch
  <2>1. CASE pc' = "reply"
    <3>1. i > Len(events) /\ UNCHANGED <<points, counts, events, docs, collection>>
      BY <1>2, <2>1 DEF Dispatch, Goto, request, loop
    <3> SUFFICES ASSUME Len(events') = 1 PROVE Counted'
      BY <2>1 DEF LabelInv
    <3>2. Counted
      BY <1>2, <3>1 DEF LabelInv, Dispatch
    <3> QED
      BY <3>1, <3>2 DEF Counted, EndedAs
  <2>2. CASE pc' \in {"delete", "fetch"}
    BY <1>2, <2>2 DEF Dispatch, Goto, LabelInv, Current, request, loop
  <2> QED
    BY <1>2, <2>1, <2>2 DEF Dispatch, Goto
<1>3. CASE DeleteDocument
  <2>1. pc' \in {"audit", "handler"} /\ UNCHANGED events
    BY <1>3 DEF DeleteDocument, Raise, Goto, Conclude, request
  <2> QED
    BY <1>3, <2>1, LabelDeletes DEF LabelInv
<1>4. CASE Fetch \/ ConvertAndChunk
  <2>1. /\ \/ pc' \in {"convert", "embed", "handler"}
           \/ pc' = "audit" /\ outcome' = "SKIPPED"
        /\ UNCHANGED events
    BY <1>4 DEF Fetch, ConvertAndChunk, Raise, Goto, Conclude, request
  <2> QED
    BY <2>1 DEF LabelInv, EndedAs
<1>5. CASE Embed
  <2>1. /\ \/ pc' = "handler"
           \/ pc' = "clear" /\ Current.change = "MODIFIED"
           \/ pc' = "store" /\ Current.change = "ADDED"
        /\ UNCHANGED <<events, i>>
    BY <1>5 DEF Embed, Raise, Goto, request, loop
  <2> QED
    BY <2>1 DEF LabelInv, Current
<1>6. CASE ClearOldChunks
  <2>1. CASE pc' = "handler"
    BY <2>1 DEF LabelInv
  <2>2. CASE pc' = "store"
    <3>1. /\ points' = [points EXCEPT ![collection] = DeleteByDocument(@, Current.doc)]
          /\ pc = "clear"
          /\ UNCHANGED <<events, i, collection>>
      BY <1>6, <2>2 DEF ClearOldChunks, Raise, Goto, request, loop
    <3>2. Current \in Event /\ collection \in Collections
      BY <3>1, CurrentType DEF TypeOK
    <3>3. points'[collection] = DeleteByDocument(points[collection], Current.doc)
      BY <3>1, <3>2 DEF TypeOK
    <3>4. Empty(points'[collection], Current.doc)
      BY <3>2, <3>3, DeleteEmpties DEF Event
    <3>5. Current' = Current
      BY <3>1 DEF Current
    <3> QED
      BY <2>2, <3>1, <3>4, <3>5 DEF LabelInv
  <2> QED
    BY <1>6, <2>1, <2>2 DEF ClearOldChunks, Raise, Goto
<1>7. CASE StoreChunks
  <2>1. pc' \in {"audit", "handler"} /\ UNCHANGED events
    BY <1>7 DEF StoreChunks, Raise, Goto, Conclude, request
  <2> QED
    BY <1>7, <2>1, LabelStores DEF LabelInv
<1>8. CASE AuditOutcome \/ HandleException
  <2>1. pc' \in {"next", "handler", "abort"} /\ UNCHANGED events
    BY <1>8 DEF AuditOutcome, HandleException, Record, LogRaises, request
  <2> QED
    BY <1>8, <2>1, LabelRecords DEF LabelInv
<1>9. CASE UNCHANGED vars
  BY <1>9 DEF vars, connector, request, loop, LabelInv, Counted, EndedAs, Current
<1> QED
  BY <1>1, <1>2, <1>3, <1>4, <1>5, <1>6, <1>7, <1>8, <1>9 DEF Next, Serve

\* What the answer to a single push says is what the store holds, whatever
\* failed on the way, for all clients: "updated" is never said of a mixture,
\* "deleted" never of a document with chunks left in the collection.
THEOREM LabelsAreTrue == Spec => []LabelIsTrue
<1>1. Init => StagedInv /\ LabelInv
  BY DEF Init, StagedInv, LabelInv
<1>2. TypeOK /\ StagedInv /\ LabelInv /\ [Next]_vars => StagedInv' /\ LabelInv'
  BY StagedStep, LabelStep
<1>3. TypeOK /\ LabelInv => LabelIsTrue
  <2> SUFFICES ASSUME TypeOK, LabelInv, pc = "reply", Len(events) = 1
               PROVE  LabelIsTrue
    BY DEF LabelIsTrue
  <2>1. Counted /\ counts \in Count
    BY DEF LabelInv, TypeOK
  <2>2. events[1].change \in {"ADDED", "MODIFIED", "DELETED"}
    BY EventType DEF Event
  <2> DEFINE label == ResultLabel(events[1].change, counts)
  <2>3. CASE counts.failed > 0 \/ counts.skipped > 0
    <3>1. label \in {"failed", "skipped"}
      BY <2>3 DEF ResultLabel
    <3> QED
      BY <3>1 DEF LabelIsTrue
  <2>4. CASE ~ (counts.failed > 0 \/ counts.skipped > 0)
    <3>1. label = LabelOf[events[1].change]
      BY <2>4 DEF ResultLabel
    <3>2. PICK o \in {"DELETED", "UPDATED", "INGESTED"} : EndedAs(o)
      BY <2>1, <2>4 DEF Counted
    <3>3. CASE o = "DELETED"
      BY <3>1, <3>2, <3>3 DEF EndedAs, LabelOf, LabelIsTrue
    <3>4. CASE o = "UPDATED"
      BY <3>1, <3>2, <3>4 DEF EndedAs, LabelOf, LabelIsTrue
    <3>5. CASE o = "INGESTED"
      BY <3>1, <3>2, <3>5 DEF EndedAs, LabelOf, LabelIsTrue, Holds
    <3> QED
      BY <3>2, <3>3, <3>4, <3>5
  <2> QED
    BY <2>3, <2>4
<1> QED
  BY <1>1, <1>2, <1>3, TypeCorrect, PTL DEF Spec

-----------------------------------------------------------------------------
(* The result counts and the audit trail.                                  *)

\* LastRecord for any trail, of which LastRecord(e, type) is the case of the
\* current one.
LastIn(records, e, type) ==
  \E k \in 1 .. Len(records) :
    /\ records[k] = [event |-> e, type |-> type]
    /\ \A m \in k + 1 .. Len(records) : records[m].event # e

\* One more record is the last one of its event and leaves those of the others.
LEMMA LastOfLonger ==
  ASSUME NEW records \in Seq(AuditRecord),
         NEW n \in Nat, NEW o \in OutcomeType, NEW e, NEW type
  PROVE  LET longer == Append(records, [event |-> n, type |-> o])
         IN  /\ e # n => (LastIn(longer, e, type) <=> LastIn(records, e, type))
             /\ LastIn(longer, n, type) <=> type = o
<1> DEFINE record == [event |-> n, type |-> o]
           longer == Append(records, record)
           l == Len(records)
<1>1. /\ l \in Nat
      /\ Len(longer) = l + 1
      /\ longer[l + 1] = record
      /\ \A k \in 1 .. l : longer[k] = records[k]
      /\ record.event = n /\ record.type = o
  <2>1. record \in AuditRecord
    BY DEF AuditRecord
  <2> QED
    BY <2>1
<1> HIDE DEF longer, l, record
<1>2. ASSUME e # n, LastIn(longer, e, type)
      PROVE  LastIn(records, e, type)
  <2>1. PICK k \in 1 .. l + 1 :
          /\ longer[k] = [event |-> e, type |-> type]
          /\ \A m \in k + 1 .. l + 1 : longer[m].event # e
    BY <1>1, <1>2 DEF LastIn
  <2>2. k # l + 1
    BY <1>1, <1>2, <2>1
  <2>3. k \in 1 .. l
    BY <1>1, <2>2
  <2>4. records[k] = [event |-> e, type |-> type]
    BY <1>1, <2>1, <2>3
  <2>5. \A m \in k + 1 .. l : records[m].event # e
    BY <1>1, <2>1, <2>3
  <2> QED
    BY <2>3, <2>4, <2>5 DEF LastIn, l
<1>3. ASSUME e # n, LastIn(records, e, type)
      PROVE  LastIn(longer, e, type)
  <2>1. PICK k \in 1 .. l :
          /\ records[k] = [event |-> e, type |-> type]
          /\ \A m \in k + 1 .. l : records[m].event # e
    BY <1>3 DEF LastIn, l
  <2>2. k \in 1 .. l + 1 /\ longer[k] = [event |-> e, type |-> type]
    BY <1>1, <2>1
  <2>3. ASSUME NEW m \in k + 1 .. l + 1
        PROVE  longer[m].event # e
    <3>1. CASE m = l + 1
      BY <1>1, <1>3, <3>1
    <3>2. CASE m # l + 1
      BY <1>1, <2>1, <3>2
    <3> QED
      BY <3>1, <3>2
  <2> QED
    BY <1>1, <2>2, <2>3 DEF LastIn
<1>4. ASSUME LastIn(longer, n, type)
      PROVE  type = o
  <2>1. PICK k \in 1 .. l + 1 :
          /\ longer[k] = [event |-> n, type |-> type]
          /\ \A m \in k + 1 .. l + 1 : longer[m].event # n
    BY <1>1, <1>4 DEF LastIn
  <2>2. l + 1 \notin k + 1 .. l + 1
    BY <1>1, <2>1
  <2>3. k = l + 1
    BY <1>1, <2>2
  <2>4. longer[k].type = type
    BY <2>1
  <2> QED
    BY <1>1, <2>3, <2>4
<1>5. ASSUME type = o
      PROVE  LastIn(longer, n, type)
  <2>1. l + 1 \in 1 .. Len(longer) /\ longer[l + 1] = [event |-> n, type |-> type]
    BY <1>1, <1>5 DEF record
  <2>2. \A m \in l + 1 + 1 .. Len(longer) : FALSE
    BY <1>1
  <2> QED
    BY <2>1, <2>2 DEF LastIn
<1> QED
  BY <1>2, <1>3, <1>4, <1>5 DEF longer, record

\* Records name their events by number.
LEMMA RecordEvents ==
  ASSUME NEW records \in Seq(AuditRecord)
  PROVE  \A k \in 1 .. Len(records) : records[k].event \in Nat
<1>1. \A k \in 1 .. Len(records) : records[k] \in AuditRecord
  OBVIOUS
<1>2. \A r \in AuditRecord : r.event \in Nat
  BY DEF AuditRecord
<1> QED
  BY <1>1, <1>2

\* Before the audit call of an event the trail ends with the events behind the
\* loop; in the except clause it may end with a record of the event itself.
TallyInv ==
  /\ pc \in {"idle", "staging"} => i = 0 /\ trail = <<>> /\ counts = NoCounts
  /\ \A k \in 1 .. Len(trail) : trail[k].event <= i
  /\ pc \notin {"handler", "abort"} => \A k \in 1 .. Len(trail) : trail[k].event < i
  /\ pc = "handler" => \A k \in 1 .. Len(trail) : trail[k].event = i => k = Len(trail)
  /\ ResultMatchesTrail

\* Before the first event nothing has been recorded or counted.
LEMMA NothingTallied ==
  ASSUME trail' = <<>>, counts' = NoCounts, i' \in {0, 1}, pc' # "reply",
         pc' \in {"idle", "staging"} => i' = 0
  PROVE  TallyInv'
<1>1. Cardinality({}) = 0
  BY FS_EmptySet
<1>2. \A e : e \notin 1 .. i' - 1
  OBVIOUS
<1>3. \A type : Told(type)' = {}
  BY <1>2 DEF Told
<1>4. \A type : Cardinality(Told(type)') = 0
  BY <1>1, <1>3
<1>5. /\ counts'.ingested = 0 /\ counts'.updated = 0 /\ counts'.deleted = 0
      /\ counts'.skipped + counts'.failed = 0
  BY DEF NoCounts
<1>6. CountsTold'
  BY <1>2, <1>4, <1>5 DEF CountsTold
<1>7. \A k : k \notin 1 .. Len(trail')
  OBVIOUS
<1> QED
  BY <1>6, <1>7 DEF TallyInv, ResultMatchesTrail, TrailInOrder

\* One more record of the event being processed, written in the try or in the
\* except clause, keeps the trail in order.
LEMMA OrderGrows ==
  ASSUME TypeOK, TallyInv, pc \in {"audit", "handler"}, NEW o \in OutcomeType,
         pc = "handler" => o = "SKIPPED",
         trail' = Append(trail, Entry(o))
  PROVE  /\ TrailInOrder'
         /\ \A k \in 1 .. Len(trail') : trail'[k].event <= i
         /\ pc = "audit" =>
              \A k \in 1 .. Len(trail') : trail'[k].event = i => k = Len(trail')
<1> DEFINE l == Len(trail)
<1>1. /\ l \in Nat
      /\ i \in Nat
      /\ trail \in Seq(AuditRecord)
      /\ Entry(o) \in AuditRecord
      /\ Entry(o).event = i /\ Entry(o).type = o
  BY DEF TypeOK, Entry, AuditRecord
<1>2. /\ Len(trail') = l + 1
      /\ trail'[l + 1] = Entry(o)
      /\ \A k \in 1 .. l : trail'[k] = trail[k]
  BY <1>1
<1>3. /\ \A k \in 1 .. l : trail[k].event <= i
      /\ pc = "audit" => \A k \in 1 .. l : trail[k].event < i
      /\ pc = "handler" => \A k \in 1 .. l : trail[k].event = i => k = l
      /\ TrailInOrder
  BY <1>1 DEF TallyInv, ResultMatchesTrail
<1>4. \A k \in 1 .. l : trail[k].event \in Nat
  BY <1>1, RecordEvents
<1> HIDE DEF l
<1>5. ASSUME NEW k \in 1 .. l + 1, NEW m \in 1 .. l + 1, k < m
      PROVE  /\ trail'[k].event <= trail'[m].event
             /\ trail'[k].event = trail'[m].event => m = k + 1 /\ trail'[m].type = "SKIPPED"
  <2>1. k \in 1 .. l /\ trail'[k] = trail[k]
    BY <1>1, <1>2, <1>5
  <2>2. CASE m = l + 1
    <3>1. trail'[m].event = i /\ trail'[m].type = o
      BY <1>1, <1>2, <2>2
    <3>2. CASE pc = "audit"
      BY <1>1, <1>3, <1>4, <2>1, <3>1, <3>2
    <3>3. CASE pc = "handler"
      <4>1. trail'[k].event = trail[k].event
        BY <2>1
      <4>2. trail[k].event <= i /\ (trail[k].event = i => k = l)
        BY <1>3, <2>1, <3>3
      <4>3. trail'[m].type = "SKIPPED"
        BY <3>1, <3>3
      <4> QED
        BY <2>2, <3>1, <4>1, <4>2, <4>3
    <3> QED
      BY <3>2, <3>3
  <2>3. CASE m # l + 1
    <3>1. m \in 1 .. l /\ trail'[m] = trail[m]
      BY <1>1, <1>2, <2>3
    <3> QED
      BY <1>3, <1>5, <2>1, <3>1 DEF TrailInOrder, l
  <2> QED
    BY <2>2, <2>3
<1>6. TrailInOrder'
  <2>1. \A k : k \in 1 .. Len(trail') <=> k \in 1 .. l + 1
    BY <1>2
  <2>2. \A k, m \in 1 .. l + 1 : k < m =>
          /\ trail'[k].event <= trail'[m].event
          /\ trail'[k].event = trail'[m].event => m = k + 1 /\ trail'[m].type = "SKIPPED"
    BY <1>5
  <2> QED
    BY <2>1, <2>2 DEF TrailInOrder
<1>7. ASSUME NEW k \in 1 .. l + 1
      PROVE  /\ trail'[k].event <= i
             /\ pc = "audit" => (trail'[k].event = i => k = l + 1)
  <2>1. CASE k = l + 1
    BY <1>1, <1>2, <2>1
  <2>2. CASE k # l + 1
    <3>1. k \in 1 .. l /\ trail'[k] = trail[k]
      BY <1>1, <1>2, <2>2
    <3> QED
      BY <1>1, <1>3, <3>1
  <2> QED
    BY <2>1, <2>2
<1> QED
  BY <1>2, <1>6, <1>7

\* What is told of the events behind the loop does not change with the records
\* of the one being processed.
LEMMA ToldStays ==
  ASSUME TypeOK, NEW o \in OutcomeType,
         trail' \in {trail, Append(trail, Entry(o))}, NEW e \in 1 .. i - 1, NEW type
  PROVE  LastRecord(e, type)' <=> LastRecord(e, type)
<1>1. /\ LastRecord(e, type) <=> LastIn(trail, e, type)
      /\ LastRecord(e, type)' <=> LastIn(trail', e, type)
  BY DEF LastRecord, LastIn
<1>2. /\ trail \in Seq(AuditRecord) /\ i \in Nat /\ e # i
  BY DEF TypeOK
<1>3. CASE trail' = Append(trail, Entry(o))
  BY <1>1, <1>2, <1>3, LastOfLonger DEF Entry
<1>4. CASE trail' = trail
  BY <1>1, <1>4
<1> QED
  BY <1>3, <1>4

\* An event counted and recorded joins those told of with its type.
LEMMA ToldGrows ==
  ASSUME TypeOK, pc \in {"audit", "handler"}, NEW o \in OutcomeType,
         trail' = Append(trail, Entry(o)), i' = i + 1, NEW type
  PROVE  /\ Told(type)' = Told(type) \cup (IF type = o THEN {i} ELSE {})
         /\ i \notin Told(type)
         /\ IsFiniteSet(Told(type))
         /\ Cardinality(Told(type)) \in Nat
<1>1. i \in Nat \ {0}
  BY DEF TypeOK
<1>2. \A e : e \in 1 .. i' - 1 <=> e \in 1 .. i - 1 \/ e = i
  BY <1>1
<1>3. ASSUME NEW e, e = i
      PROVE  LastRecord(e, type)' <=> type = o
  <2>1. LastRecord(e, type)' <=> LastIn(trail', e, type)
    BY DEF LastRecord, LastIn
  <2>2. LastIn(trail', e, type) <=> type = o
    BY <1>1, <1>3, LastOfLonger DEF Entry, TypeOK
  <2> QED
    BY <2>1, <2>2
<1>4. IsFiniteSet(Told(type)) /\ Cardinality(Told(type)) \in Nat
  <2>1. IsFiniteSet(1 .. i - 1) /\ Told(type) \subseteq 1 .. i - 1
    BY <1>1, FS_Interval DEF Told
  <2> QED
    BY <2>1, FS_Subset, FS_CardinalityType
<1>5. i \notin Told(type)
  BY <1>1 DEF Told
<1> QED
  BY <1>1, <1>2, <1>3, <1>4, <1>5, ToldStays DEF Told

\* The records are counted in one place, for every outcome and every failure.
LEMMA RecordTallies ==
  ASSUME TypeOK, TallyInv, pc \in {"audit", "handler"},
         NEW o \in OutcomeType, pc = "handler" => o = "SKIPPED",
         NEW f \in {"ingested", "updated", "deleted", "skipped", "failed"},
         f = CountOf[o] \/ (o = "SKIPPED" /\ f = "failed"),
         Record(o, f)
  PROVE  TallyInv'
<1> DEFINE one(type) == IF o = type THEN 1 ELSE 0
<1>1. /\ counts \in Count
      /\ i \in Nat \ {0}
      /\ CountsTold
  BY DEF TypeOK, TallyInv, ResultMatchesTrail
<1>2. /\ trail' = Append(trail, Entry(o))
      /\ counts' = [counts EXCEPT ![f] = @ + 1]
      /\ i' = i + 1 /\ pc' = "next"
  BY DEF Record
<1>3. \A type : /\ Told(type)' = Told(type) \cup (IF type = o THEN {i} ELSE {})
                /\ i \notin Told(type)
                /\ IsFiniteSet(Told(type))
                /\ Cardinality(Told(type)) \in Nat
  BY <1>2, ToldGrows
<1>4. ASSUME NEW type
      PROVE  Cardinality(Told(type)') = Cardinality(Told(type)) + one(type)
  <2>1. CASE type = o
    <3>1. Told(type)' = Told(type) \cup {i}
      BY <1>3, <2>1
    <3> HIDE DEF one
    <3>2. Cardinality(Told(type)') = Cardinality(Told(type)) + 1
      BY <1>3, <3>1, FS_AddElement
    <3> QED
      BY <2>1, <3>2 DEF one
  <2>2. CASE type # o
    <3>1. Told(type)' = Told(type)
      BY <1>3, <2>2
    <3> QED
      BY <1>3, <2>2, <3>1
  <2> QED
    BY <2>1, <2>2
<1>5. /\ counts'.ingested = counts.ingested + one("INGESTED")
      /\ counts'.updated = counts.updated + one("UPDATED")
      /\ counts'.deleted = counts.deleted + one("DELETED")
      /\ counts'.skipped + counts'.failed = counts.skipped + counts.failed + one("SKIPPED")
  <2>1. CASE o = "SKIPPED" /\ f = "failed"
    BY <1>1, <1>2, <2>1 DEF Count
  <2>2. CASE o = "SKIPPED" /\ f = "skipped"
    BY <1>1, <1>2, <2>2 DEF Count
  <2>3. CASE o = "INGESTED" /\ f = "ingested"
    BY <1>1, <1>2, <2>3 DEF Count
  <2>4. CASE o = "UPDATED" /\ f = "updated"
    BY <1>1, <1>2, <2>4 DEF Count
  <2>5. CASE o = "DELETED" /\ f = "deleted"
    BY <1>1, <1>2, <2>5 DEF Count
  <2> QED
    BY <2>1, <2>2, <2>3, <2>4, <2>5 DEF CountOf, OutcomeType
<1> HIDE DEF one
<1>6. /\ counts'.ingested = Cardinality(Told("INGESTED")')
      /\ counts'.updated = Cardinality(Told("UPDATED")')
      /\ counts'.deleted = Cardinality(Told("DELETED")')
      /\ counts'.skipped + counts'.failed = Cardinality(Told("SKIPPED")')
  BY <1>1, <1>4, <1>5 DEF CountsTold
<1>7. ASSUME NEW e \in 1 .. i' - 1
      PROVE  \E type \in OutcomeType : e \in Told(type)'
  <2>1. CASE e = i
    BY <1>3, <2>1
  <2>2. CASE e # i
    <3>1. e \in 1 .. i - 1
      BY <1>1, <1>2, <2>2
    <3>2. PICK type \in OutcomeType : e \in Told(type)
      BY <1>1, <3>1 DEF CountsTold
    <3> QED
      BY <1>3, <3>2
  <2> QED
    BY <2>1, <2>2
<1>8. CountsTold'
  BY <1>6, <1>7 DEF CountsTold
<1>9. TrailInOrder' /\ \A k \in 1 .. Len(trail') : trail'[k].event <= i
  BY <1>2, OrderGrows
<1>10. \A k \in 1 .. Len(trail') : trail'[k].event \in Nat
  <2>1. Entry(o) \in AuditRecord
    BY <1>1 DEF Entry, AuditRecord
  <2>2. trail' \in Seq(AuditRecord)
    BY <1>2, <2>1 DEF TypeOK
  <2> QED
    BY <2>2, RecordEvents
<1>11. \A k \in 1 .. Len(trail') : trail'[k].event < i' /\ trail'[k].event <= i'
  BY <1>1, <1>2, <1>9, <1>10
<1> QED
  BY <1>2, <1>8, <1>9, <1>11 DEF TallyInv, ResultMatchesTrail

\* Steps that neither count nor move on leave what is told of the events behind
\* the loop.
LEMMA TallyHolds ==
  ASSUME TypeOK, CountsTold, UNCHANGED <<counts, i>>,
         NEW o \in OutcomeType, trail' \in {trail, Append(trail, Entry(o))}
  PROVE  CountsTold'
<1>1. \A type : Told(type)' = Told(type)
  BY ToldStays DEF Told
<1> QED
  BY <1>1 DEF CountsTold

\* A call of the audit log that raises counts nothing.
LEMMA RaiseTallies ==
  ASSUME TypeOK, TallyInv, pc \in {"audit", "handler"},
         NEW o \in OutcomeType, pc = "handler" => o = "SKIPPED",
         NEW label \in {"handler", "abort"}, pc = "handler" => label = "abort",
         LogRaises(o, label)
  PROVE  TallyInv'
<1>1. /\ UNCHANGED <<counts, i>> /\ pc' = label
      /\ trail' \in {trail, Append(trail, Entry(o))}
      /\ i \in Nat
  BY DEF LogRaises, TypeOK
<1>2. CountsTold'
  BY <1>1, TallyHolds DEF TallyInv, ResultMatchesTrail
<1>3. CASE trail' = Append(trail, Entry(o))
  BY <1>1, <1>2, <1>3, OrderGrows DEF TallyInv, ResultMatchesTrail
<1>4. CASE trail' = trail
  <2>1. TrailInOrder'
    BY <1>4 DEF TallyInv, ResultMatchesTrail, TrailInOrder
  <2>2. \A k \in 1 .. Len(trail) : trail[k].event \in Nat
    BY RecordEvents DEF TypeOK
  <2>3. pc = "audit" => \A k \in 1 .. Len(trail) : trail[k].event # i
    BY <1>1, <2>2 DEF TallyInv
  <2> QED
    BY <1>1, <1>2, <1>4, <2>1, <2>3 DEF TallyInv, ResultMatchesTrail
<1> QED
  BY <1>1, <1>3, <1>4

\* Every other step of the loop leaves records, counts and events alone.
LEMMA TallyIdles ==
  ASSUME TypeOK, TallyInv, UNCHANGED <<trail, counts, events, i>>,
         pc \notin {"idle", "staging", "handler", "abort", "reply"},
         pc' \notin {"idle", "staging"},
         pc' = "reply" => i = Len(events) + 1
  PROVE  TallyInv'
<1>1. CountsTold'
  BY TallyHolds DEF TallyInv, ResultMatchesTrail, OutcomeType
<1>2. TrailInOrder'
  BY DEF TallyInv, ResultMatchesTrail, TrailInOrder
<1>3. \A k \in 1 .. Len(trail) : trail[k].event < i /\ trail[k].event \in Nat
  <2>1. \A k \in 1 .. Len(trail) : trail[k].event \in Nat
    BY RecordEvents DEF TypeOK
  <2> QED
    BY <2>1 DEF TallyInv
<1>4. i \in Nat
  BY DEF TypeOK
<1> QED
  BY <1>1, <1>2, <1>3, <1>4 DEF TallyInv, ResultMatchesTrail

LEMMA TallyStep ==
  ASSUME TypeOK, TallyInv, [Next]_vars
  PROVE  TallyInv'
<1>1. CASE Receive \/ StageEvent \/ StartProcessing
  <2>1. /\ trail' = <<>> /\ counts' = NoCounts
        /\ i' \in {0, 1} /\ pc' \in {"staging", "next", "abort"}
        /\ pc' = "staging" => i' = 0
    BY <1>1 DEF Receive, StageEvent, StartProcessing, TallyInv, loop
  <2> QED
    BY <2>1, NothingTallied
<1>2. CASE RejectRequest \/ FinishRequest \/ Crash
  <2>1. trail' = <<>> /\ counts' = NoCounts /\ i' = 0 /\ pc' = "idle"
    BY <1>2 DEF RejectRequest, FinishRequest, Crash, EndRequest
  <2> QED
    BY <2>1, NothingTallied
<1>3. CASE Dispatch
  <2>1. UNCHANGED <<trail, counts, events, i>> /\ pc = "next"
    BY <1>3 DEF Dispatch, Goto, request, loop
  <2>2. pc' \in {"delete", "fetch"} \/ (pc' = "reply" /\ i > Len(events))
    BY <1>3 DEF Dispatch, Goto
  <2>3. i \in 1 .. Len(events) + 1 /\ Len(events) \in Nat
    BY <2>1 DEF TypeOK
  <2> QED
    BY <2>1, <2>2, <2>3, TallyIdles
<1>4. CASE DeleteDocument \/ Fetch \/ ConvertAndChunk \/ Embed \/ ClearOldChunks \/ StoreChunks
  <2>1. /\ UNCHANGED <<trail, counts, events, i>>
        /\ pc \in {"delete", "fetch", "convert", "embed", "clear", "store"}
        /\ pc' \in {"convert", "embed", "clear", "store", "audit", "handler"}
    BY <1>4
    DEF DeleteDocument, Fetch, ConvertAndChunk, Embed, ClearOldChunks, StoreChunks,
        Raise, Goto, Conclude, request, loop
  <2> QED
    BY <2>1, TallyIdles
<1>5. CASE AuditOutcome
  <2>1. pc = "audit" /\ outcome \in OutcomeType
    BY <1>5 DEF AuditOutcome, TypeOK
  <2>2. CountOf[outcome] \in {"ingested", "updated", "deleted", "skipped", "failed"}
    BY <2>1 DEF CountOf, OutcomeType
  <2> QED
    BY <1>5, <2>1, <2>2, RaiseTallies, RecordTallies DEF AuditOutcome
<1>6. CASE HandleException
  <2>1. pc = "handler" /\ "SKIPPED" \in OutcomeType
    BY <1>6 DEF HandleException, OutcomeType
  <2> QED
    BY <1>6, <2>1, RaiseTallies, RecordTallies DEF HandleException
<1>7. CASE UNCHANGED vars
  <2>1. UNCHANGED <<trail, counts, events, i, pc>>
    BY <1>7 DEF vars, request, loop
  <2>2. \A type : Told(type)' = Told(type)
    BY <2>1 DEF Told, LastRecord
  <2> QED
    BY <2>1, <2>2 DEF TallyInv, ResultMatchesTrail, CountsTold, TrailInOrder
<1> QED
  BY <1>1, <1>2, <1>3, <1>4, <1>5, <1>6, <1>7 DEF Next, Serve

LEMMA Tallied == Spec => [](TypeOK /\ TallyInv)
<1>1. Init => TallyInv
  <2> SUFFICES ASSUME Init PROVE TallyInv
    OBVIOUS
  <2>1. trail = <<>> /\ counts = NoCounts /\ i = 0 /\ pc = "idle"
    BY DEF Init
  <2>2. \A type : Told(type) = {}
    <3>1. \A e : e \notin 1 .. i - 1
      BY <2>1
    <3> QED
      BY <3>1 DEF Told
  <2>3. Cardinality({}) = 0
    BY FS_EmptySet
  <2>4. CountsTold
    <3>1. \A e : e \notin 1 .. i - 1
      BY <2>1
    <3>2. \A type : Cardinality(Told(type)) = 0
      BY <2>2, <2>3
    <3>3. /\ counts.ingested = 0 /\ counts.updated = 0 /\ counts.deleted = 0
          /\ counts.skipped + counts.failed = 0
      BY <2>1 DEF NoCounts
    <3> QED
      BY <3>1, <3>2, <3>3 DEF CountsTold
  <2>5. \A k : k \notin 1 .. Len(trail)
    BY <2>1
  <2> QED
    BY <2>1, <2>4, <2>5 DEF TallyInv, ResultMatchesTrail, TrailInOrder
<1>2. TypeOK /\ TallyInv /\ [Next]_vars => TallyInv'
  BY TallyStep
<1> QED
  BY <1>1, <1>2, TypeCorrect, PTL DEF Spec

\* IngestResult and the audit trail never disagree, whatever fails and wherever,
\* the audit log before or after it wrote included: an event behind the loop is
\* counted once, in the field of its last record's type, records are in the
\* order of the events, and a second record of an event says SKIPPED (_log,
\* ingest_pipeline_orchestrator.py:150-164, and the counters after it).
THEOREM CountsMatchTheTrail == Spec => []ResultMatchesTrail
<1>1. TallyInv => ResultMatchesTrail
  BY DEF TallyInv
<1> QED
  BY <1>1, Tallied, PTL

-----------------------------------------------------------------------------
(* The audit trail and the store.                                          *)

\* Before an update is stored the document is cleared, and the outcome about
\* to be audited is true of the store.
TellInv ==
  /\ pc = "delete" => Current.change = "DELETED"
  /\ pc \in {"clear", "store"} => Current.change # "DELETED"
  /\ pc = "store" /\ Current.change = "MODIFIED" => Empty(points[collection], Current.doc)
  /\ pc = "audit" => SaysTrue(outcome, Current.doc)
  /\ TrailTellsTheStore

\* What is said of a document survives a step that leaves its chunks and its
\* staged content.
LEMMA SaysStays ==
  ASSUME NEW type, NEW d \in Docs, SaysTrue(type, d),
         UNCHANGED <<staged, collection>>,
         \A p \in PointId : p[2] = d => points'[collection][p] = points[collection][p]
  PROVE  SaysTrue(type, d)'
  BY DEF SaysTrue, Empty, Exact, Holds

\* The records of the events behind the loop stay true if the step changes the
\* store only for the event in progress.
LEMMA TellStays ==
  ASSUME TypeOK, TellInv, pc \notin {"idle", "staging", "reply", "abort", "next"},
         UNCHANGED <<i, events, staged, collection>>,
         NEW o \in OutcomeType, trail' \in {trail, Append(trail, Entry(o))},
         \A p \in PointId : p[2] # Current.doc => points'[collection][p] = points[collection][p]
  PROVE  TrailTellsTheStore'
<1>1. /\ i \in 1 .. Len(events) /\ Len(events) \in Nat
      /\ events \in Seq(Event)
  BY DEF TypeOK
<1> SUFFICES ASSUME NEW e \in 1 .. i - 1, NEW type \in OutcomeType, e \in Told(type)',
                    \A f \in e + 1 .. Len(events) : f <= i => events[f].doc # events[e].doc,
                    NEW d, d = events[e].doc
             PROVE  SaysTrue(type, d)'
  BY DEF TrailTellsTheStore, SaysTrue
<1>2. e \in Told(type)
  BY ToldStays DEF Told
<1>3. SaysTrue(type, d)
  BY <1>2 DEF TellInv, TrailTellsTheStore
<1>4. d \in Docs /\ d # Current.doc
  <2>1. e \in 1 .. Len(events) /\ i \in e + 1 .. Len(events)
    BY <1>1
  <2>2. events[e] \in Event
    BY <1>1, <2>1
  <2> QED
    BY <1>1, <2>1, <2>2 DEF Event, Current
<1> QED
  BY <1>3, <1>4, SaysStays

\* What the store's operations do to the chunks of the other documents.
LEMMA OthersKept ==
  ASSUME TypeOK, NEW e \in Event, collection \in Collections, NEW v,
         \/ points' = [points EXCEPT ![collection] = DeleteByDocument(@, e.doc)]
         \/ points' = [points EXCEPT ![collection] = Upsert(@, e.doc, v)]
  PROVE  \A p \in PointId : p[2] # e.doc => points'[collection][p] = points[collection][p]
  BY DEF TypeOK, DeleteByDocument, Upsert

\* The event in progress is recorded and the loop moves on.
LEMMA TellRecords ==
  ASSUME TypeOK, TellInv, pc \in {"audit", "handler"}, NEW o \in OutcomeType, NEW f,
         SaysTrue(o, Current.doc), Record(o, f)
  PROVE  TellInv'
<1>1. /\ trail' = Append(trail, Entry(o)) /\ i' = i + 1 /\ pc' = "next"
      /\ UNCHANGED <<points, events, staged, collection>>
      /\ i \in 1 .. Len(events) /\ Len(events) \in Nat /\ events \in Seq(Event)
  BY DEF Record, connector, request, TypeOK
<1>2. ASSUME NEW e \in 1 .. i' - 1, NEW type \in OutcomeType, e \in Told(type)',
             \A g \in e + 1 .. Len(events) : g <= i + 1 => events[g].doc # events[e].doc,
             NEW d, d = events[e].doc
      PROVE  SaysTrue(type, d)'
  <2>1. Told(type)' = Told(type) \cup (IF type = o THEN {i} ELSE {}) /\ i \notin Told(type)
    BY <1>1, ToldGrows
  <2>2. d \in Docs
    <3>1. e \in 1 .. Len(events)
      BY <1>1
    <3>2. events[e] \in Event
      BY <1>1, <3>1
    <3> QED
      BY <1>2, <3>2 DEF Event
  <2>3. SaysTrue(type, d)
    <3>1. CASE e = i
      BY <1>2, <2>1, <3>1 DEF Current
    <3>2. CASE e # i
      <4>1. e \in 1 .. i - 1 /\ e \in Told(type)
        BY <1>1, <1>2, <2>1, <3>2
      <4>2. \A g \in e + 1 .. Len(events) : g <= i => events[g].doc # events[e].doc
        BY <1>1, <1>2
      <4> QED
        BY <1>2, <4>1, <4>2 DEF TellInv, TrailTellsTheStore
    <3> QED
      BY <3>1, <3>2
  <2> QED
    BY <1>1, <2>2, <2>3, SaysStays
<1>3. TrailTellsTheStore'
  BY <1>1, <1>2 DEF TrailTellsTheStore, SaysTrue
<1> QED
  BY <1>1, <1>3 DEF TellInv

\* Before the first event there is nothing to be true.
LEMMA NothingTold ==
  ASSUME i' \in {0, 1}, pc' \notin {"delete", "clear", "store", "audit"}
  PROVE  TellInv'
<1>1. \A e : e \notin 1 .. i' - 1
  OBVIOUS
<1> QED
  BY <1>1 DEF TellInv, TrailTellsTheStore

LEMMA TellStep ==
  ASSUME TypeOK, StagedInv, StallInv, TellInv, [Next]_vars
  PROVE  TellInv'
<1>0. "SKIPPED" \in OutcomeType
  BY DEF OutcomeType
<1>1. CASE \/ Receive \/ StageEvent \/ RejectRequest \/ StartProcessing
           \/ FinishRequest \/ Crash
  <2>1. i' \in {0, 1} /\ pc' \in {"idle", "staging", "next", "abort"}
    BY <1>1
    DEF Receive, StageEvent, RejectRequest, StartProcessing, FinishRequest, Crash,
        EndRequest, StallInv, loop
  <2> QED
    BY <2>1, NothingTold
<1>2. CASE Dispatch
  <2>1. /\ UNCHANGED <<points, events, staged, collection, i, trail>>
        /\ pc' \in {"reply", "delete", "fetch"}
        /\ pc' = "delete" => Current.change = "DELETED"
    BY <1>2 DEF Dispatch, Goto, connector, request, loop
  <2>2. TrailTellsTheStore'
    BY <2>1 DEF TellInv, TrailTellsTheStore, Told, LastRecord, SaysTrue
  <2>3. Current' = Current
    BY <2>1 DEF Current
  <2> QED
    BY <2>1, <2>2, <2>3 DEF TellInv
<1>3. CASE DeleteDocument
  <2>1. /\ pc = "delete" /\ pc' \in {"audit", "handler"}
        /\ pc' = "audit" => outcome' = "DELETED"
        /\ UNCHANGED <<trail, i, events, staged, collection>>
        /\ \/ points' = [points EXCEPT ![collection] = DeleteByDocument(@, Current.doc)]
           \/ points' = points /\ pc' = "handler"
    BY <1>3 DEF DeleteDocument, Raise, Goto, Conclude, connector, request, loop
  <2>2. Current \in Event /\ collection \in Collections /\ Current' = Current
    BY <2>1, CurrentType DEF TypeOK, Current
  <2>3. TrailTellsTheStore'
    BY <1>0, <2>1, <2>2, OthersKept, TellStays
  <2>4. ASSUME pc' = "audit"
        PROVE  SaysTrue(outcome, Current.doc)'
    <3>1. points'[collection] = DeleteByDocument(points[collection], Current.doc)
      BY <2>1, <2>2, <2>4 DEF TypeOK
    <3>2. Empty(points'[collection], Current.doc)
      BY <2>2, <3>1, DeleteEmpties DEF Event
    <3> QED
      BY <2>1, <2>2, <2>4, <3>2 DEF SaysTrue
  <2> QED
    BY <2>1, <2>3, <2>4 DEF TellInv
<1>4. CASE Fetch \/ ConvertAndChunk \/ Embed
  <2>1. /\ pc \in {"fetch", "convert", "embed"}
        /\ pc' \in {"convert", "embed", "clear", "store", "handler", "audit"}
        /\ pc' = "audit" => outcome' = "SKIPPED"
        /\ pc' = "clear" => Current.change = "MODIFIED"
        /\ pc' = "store" => Current.change = "ADDED"
        /\ UNCHANGED <<trail, i, events, staged, collection, points>>
    BY <1>4
    DEF Fetch, ConvertAndChunk, Embed, Raise, Goto, Conclude, connector, request, loop
  <2>2. Current' = Current
    BY <2>1 DEF Current
  <2>3. TrailTellsTheStore'
    BY <1>0, <2>1, TellStays
  <2> QED
    BY <2>1, <2>2, <2>3 DEF TellInv, SaysTrue
<1>5. CASE ClearOldChunks
  <2>1. /\ pc = "clear" /\ pc' \in {"store", "handler"}
        /\ UNCHANGED <<trail, i, events, staged, collection>>
        /\ \/ points' = [points EXCEPT ![collection] = DeleteByDocument(@, Current.doc)]
           \/ points' = points /\ pc' = "handler"
    BY <1>5 DEF ClearOldChunks, Raise, Goto, connector, request, loop
  <2>2. Current \in Event /\ collection \in Collections /\ Current' = Current
    BY <2>1, CurrentType DEF TypeOK, Current
  <2>3. TrailTellsTheStore'
    BY <1>0, <2>1, <2>2, OthersKept, TellStays
  <2>4. ASSUME pc' = "store"
        PROVE  Empty(points'[collection], Current.doc)
    <3>1. points'[collection] = DeleteByDocument(points[collection], Current.doc)
      BY <2>1, <2>2, <2>4 DEF TypeOK
    <3> QED
      BY <2>2, <3>1, DeleteEmpties DEF Event
  <2>5. Current.change # "DELETED"
    BY <2>1 DEF TellInv
  <2> QED
    BY <2>1, <2>2, <2>3, <2>4, <2>5 DEF TellInv
<1>6. CASE StoreChunks
  <2>1. /\ pc = "store" /\ pc' \in {"audit", "handler"}
        /\ pc' = "audit" =>
             outcome' = IF Current.change = "ADDED" THEN "INGESTED" ELSE "UPDATED"
        /\ UNCHANGED <<trail, i, events, staged, collection>>
        /\ \/ points' = [points EXCEPT ![collection] = Upsert(@, Current.doc, content)]
           \/ points' = points /\ pc' = "handler"
    BY <1>6 DEF StoreChunks, Raise, Goto, Conclude, connector, request, loop
  <2>2. /\ Current \in Event /\ collection \in Collections /\ Current' = Current
        /\ content \in Versions /\ content = staged[Current.doc]
    BY <2>1, CurrentType, ChunkAssumption DEF TypeOK, Current, StagedInv
  <2>3. TrailTellsTheStore'
    BY <1>0, <2>1, <2>2, OthersKept, TellStays
  <2>4. ASSUME pc' = "audit"
        PROVE  SaysTrue(outcome, Current.doc)'
    <3>1. points'[collection] = Upsert(points[collection], Current.doc, content)
      BY <2>1, <2>2, <2>4 DEF TypeOK
    <3>2. CASE Current.change = "ADDED"
      <4>1. Holds(points'[collection], Current.doc, content)
        BY <3>1 DEF Holds, Upsert
      <4> QED
        BY <2>1, <2>2, <2>4, <3>2, <4>1 DEF SaysTrue
    <3>3. CASE Current.change = "MODIFIED"
      <4>1. Empty(points[collection], Current.doc)
        BY <2>1, <3>3 DEF TellInv
      <4>2. Exact(points'[collection], Current.doc, content)
        BY <2>2, <3>1, <4>1, UpsertFills DEF Event
      <4> QED
        BY <2>1, <2>2, <2>4, <3>3, <4>2 DEF SaysTrue
    <3> QED
      BY <2>1, <2>2, <3>2, <3>3 DEF TellInv, Event
  <2> QED
    BY <2>1, <2>3, <2>4 DEF TellInv
<1>7. CASE AuditOutcome \/ HandleException
  <2>1. PICK o \in OutcomeType :
          /\ SaysTrue(o, Current.doc)
          /\ \/ \E f : Record(o, f)
             \/ \E label \in {"handler", "abort"} : LogRaises(o, label)
    <3>1. CASE AuditOutcome
      BY <3>1 DEF AuditOutcome, TypeOK, TellInv
    <3>2. CASE HandleException
      BY <1>0, <3>2 DEF HandleException, SaysTrue
    <3> QED
      BY <1>7, <3>1, <3>2
  <2>2. pc \in {"audit", "handler"}
    BY <1>7 DEF AuditOutcome, HandleException
  <2>3. CASE \E f : Record(o, f)
    BY <2>1, <2>2, <2>3, TellRecords
  <2>4. CASE \E label \in {"handler", "abort"} : LogRaises(o, label)
    <3>1. /\ pc' \in {"handler", "abort"} /\ trail' \in {trail, Append(trail, Entry(o))}
          /\ UNCHANGED <<i, events, staged, collection, points>>
      BY <2>4 DEF LogRaises, connector, request
    <3>2. TrailTellsTheStore'
      BY <2>2, <3>1, TellStays
    <3> QED
      BY <3>1, <3>2 DEF TellInv
  <2> QED
    BY <2>1, <2>3, <2>4
<1>8. CASE UNCHANGED vars
  <2>1. UNCHANGED <<points, staged, pc, collection, events, i, outcome, trail>>
    BY <1>8 DEF vars, connector, request, loop
  <2> QED
    BY <2>1 DEF TellInv, TrailTellsTheStore, Told, LastRecord, SaysTrue, Current
<1> QED
  BY <1>1, <1>2, <1>3, <1>4, <1>5, <1>6, <1>7, <1>8 DEF Next, Serve

\* The last record of a document is true of the store until the next event on it
\* is taken up, for all clients, batches and failures: nothing the audit trail
\* says was done is found undone, and nothing is said before it is done.
THEOREM TrailIsTrueOfTheStore == Spec => []TrailTellsTheStore
<1>1. Init => StagedInv /\ StallInv /\ TellInv
  <2> SUFFICES ASSUME Init PROVE StagedInv /\ StallInv /\ TellInv
    OBVIOUS
  <2>1. i = 0 /\ pc = "idle" /\ \A e : e \notin 1 .. i - 1
    BY DEF Init
  <2> QED
    BY <2>1 DEF Init, StagedInv, StallInv, TellInv, TrailTellsTheStore
<1>2. TypeOK /\ StagedInv /\ StallInv /\ TellInv /\ [Next]_vars
        => StagedInv' /\ StallInv' /\ TellInv'
  BY StagedStep, StallStep, TellStep
<1>3. TellInv => TrailTellsTheStore
  BY DEF TellInv
<1> QED
  BY <1>1, <1>2, <1>3, TypeCorrect, PTL DEF Spec
=============================================================================
