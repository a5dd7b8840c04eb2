--------------------------- MODULE IngestPipeline ---------------------------
(***************************************************************************)
(* One ingest process: the push routes, the ApiPushSourceConnector they    *)
(* stage documents on, the IngestPipelineOrchestrator they call, and the   *)
(* ChromaDB collection the orchestrator writes to.                         *)
(*                                                                         *)
(* The route handlers are coroutines that never yield once the body has    *)
(* been read, so the process serves one request at a time; `pc` walks the  *)
(* request through the code.  Everything else may happen between two of    *)
(* its steps: the process may crash, a remote call may fail (before or     *)
(* after the server applied it), the gateway may read the collection.      *)
(***************************************************************************)
EXTENDS Naturals, Sequences, FiniteSets

CONSTANTS
  Sources,        \* source ids whose chunks share the vector store
  Source,         \* the source id of this process (API_PUSH_SOURCE_ID)
  Collections,    \* collections a request may name or default to
  Docs,           \* document ids
  Versions,       \* pushed contents: bytes, file type and chunk settings
  MaxChunks,      \* bound on the chunks of one version
  ChunkCount,     \* [Versions -> 0 .. MaxChunks], 0: empty Markdown
  Unsupported,    \* versions whose file type the converter refuses
  DeclaredTypes,  \* the change_type values clients put in their payloads
  MaxBatch,       \* bound on the documents of one request
  MaxQueue,       \* bound at which the count of queued events saturates
  Failures,       \* the calls that may raise
  MayCrash,       \* whether the process may die and be restarted
  None            \* no chunk, no content

Calls == {"config", "convert", "embed", "delete", "store", "audit"}

ASSUME SourceAssumption == Source \in Sources
ASSUME ChunkAssumption ==
  /\ MaxChunks \in Nat
  /\ ChunkCount \in [Versions -> 0 .. MaxChunks]
  /\ Unsupported \subseteq Versions
  /\ None \notin Versions
ASSUME BoundAssumption ==
  /\ MaxBatch \in Nat
  /\ MaxQueue \in Nat
ASSUME EnvironmentAssumption ==
  /\ DeclaredTypes \subseteq {"added", "modified", "deleted", "invalid"}
  /\ Failures \subseteq Calls
  /\ MayCrash \in BOOLEAN

VARIABLES
  points,      \* the vector store: the version each point id holds, per collection
  known,       \* connector: documents pushed and not deleted since boot
  staged,      \* connector: content held for fetch_document
  queued,      \* connector: events appended to the queue nobody drains
  pc,          \* where the process is in the current request
  collection,  \* request: the resolved collection
  docs,        \* request: the payloads
  events,      \* request: the events staged so far
  i,           \* orchestrator: index of the current event
  content,     \* orchestrator: the content fetched for the current event
  outcome,     \* orchestrator: the event type about to be audited
  counts,      \* orchestrator: the IngestResult under construction
  trail,       \* the audit records written for the current request
  unlogged     \* history: the audit log raised for the current event

connector == <<known, staged, queued>>
request == <<collection, docs, events>>
loop == <<i, content, outcome, counts, trail, unlogged>>
vars == <<points, connector, pc, request, loop>>

-----------------------------------------------------------------------------
(* Data.                                                                   *)

Index == 0 .. MaxChunks - 1
PointId == Sources \X Docs \X Index

\* A payload is one document of the request body.  "invalid" stands for every
\* payload _stage_event refuses; it carries no content, and neither does a
\* deletion.
Payload ==
  {p \in [doc: Docs, declared: DeclaredTypes, version: Versions \cup {None}] :
     p.version = None <=> p.declared \in {"deleted", "invalid"}}

Event == [doc: Docs, change: {"ADDED", "MODIFIED", "DELETED"}]

Requests == UNION {[1 .. n -> Payload] : n \in 1 .. MaxBatch}

OutcomeType == {"INGESTED", "UPDATED", "DELETED", "SKIPPED"}

\* A record names its event by its place in the batch.
AuditRecord == [event: Nat, type: OutcomeType]

Count == [ingested: Nat, updated: Nat, deleted: Nat, skipped: Nat, failed: Nat]

NoCounts ==
  [ingested |-> 0, updated |-> 0, deleted |-> 0, skipped |-> 0, failed |-> 0]

Current == events[i]

(* What the store's operations do to one collection.                       *)

\* delete_by_document matches on the document id alone, whatever the source.
DeleteByDocument(col, d) ==
  [p \in PointId |-> IF p[2] = d THEN None ELSE col[p]]

\* store_chunks upserts the points source:document:0 .. source:document:n-1.
Upsert(col, d, v) ==
  [p \in PointId |->
     IF p[1] = Source /\ p[2] = d /\ p[3] < ChunkCount[v] THEN v ELSE col[p]]

-----------------------------------------------------------------------------
Init ==
  /\ points = [c \in Collections |-> [p \in PointId |-> None]]
  /\ known = {}
  /\ staged = [d \in Docs |-> None]
  /\ queued = 0
  /\ pc = "idle"
  /\ collection = None
  /\ docs = <<>>
  /\ events = <<>>
  /\ i = 0
  /\ content = None
  /\ outcome = "SKIPPED"
  /\ counts = NoCounts
  /\ trail = <<>>
  /\ unlogged = FALSE

\* The handler returns or raises: its locals are gone.
EndRequest ==
  /\ pc' = "idle"
  /\ collection' = None
  /\ docs' = <<>>
  /\ events' = <<>>
  /\ i' = 0
  /\ content' = None
  /\ outcome' = "SKIPPED"
  /\ counts' = NoCounts
  /\ trail' = <<>>
  /\ unlogged' = FALSE

-----------------------------------------------------------------------------
(* The routes and the connector.                                           *)

Receive ==
  /\ pc = "idle"
  /\ \E c \in Collections, r \in Requests :
       /\ collection' = c
       /\ docs' = r
  /\ pc' = "staging"
  /\ UNCHANGED <<points, connector, events, loop>>

NextPayload == docs[Len(events) + 1]

Enqueue == queued' = IF queued < MaxQueue THEN queued + 1 ELSE queued

PushDeletion(d) ==
  /\ staged' = [staged EXCEPT ![d] = None]
  /\ known' = known \ {d}
  /\ events' = Append(events, [doc |-> d, change |-> "DELETED"])
  /\ Enqueue

\* Mutation: the route returns the connector's event whatever was declared.
PushDocumentUndeclared(d, v, declared) ==
  /\ staged' = [staged EXCEPT ![d] = v]
  /\ known' = known \cup {d}
  /\ events' = Append(events,
       [doc |-> d, change |-> IF d \in known THEN "MODIFIED" ELSE "ADDED"])
  /\ Enqueue

\* Mutation: content that is already staged is kept.
PushDocumentKeepsFirst(d, v, declared) ==
  /\ staged' = [staged EXCEPT ![d] = IF @ = None THEN v ELSE @]
  /\ known' = known \cup {d}
  /\ events' = Append(events,
       [doc |-> d,
        change |-> IF d \in known \/ declared = "modified" THEN "MODIFIED" ELSE "ADDED"])
  /\ Enqueue

PushDocument(d, v, declared) ==
  /\ staged' = [staged EXCEPT ![d] = v]
  /\ known' = known \cup {d}
  /\ events' = Append(events,
       [doc |-> d,
        change |-> IF d \in known \/ declared = "modified" THEN "MODIFIED" ELSE "ADDED"])
  /\ Enqueue

StageEvent ==
  /\ pc = "staging"
  /\ Len(events) < Len(docs)
  /\ \/ /\ NextPayload.declared = "deleted"
        /\ PushDeletion(NextPayload.doc)
     \/ /\ NextPayload.declared \in {"added", "modified"}
        /\ PushDocument(NextPayload.doc, NextPayload.version, NextPayload.declared)
  /\ UNCHANGED <<points, pc, collection, docs, loop>>

\* HTTP 400.  The payloads before the invalid one stay staged: the list of
\* events is built outside the try whose finally drops them.
RejectRequest ==
  /\ pc = "staging"
  /\ Len(events) < Len(docs)
  /\ NextPayload.declared = "invalid"
  /\ EndRequest
  /\ UNCHANGED <<points, connector>>

\* Mutation: the loop starts one event early.
StartProcessingEarly ==
  /\ pc = "staging"
  /\ Len(events) = Len(docs)
  /\ pc' = "next"
  /\ i' = 0
  /\ UNCHANGED <<points, connector, request, content, outcome, counts, trail, unlogged>>

\* The orchestrator is entered.  It reads the chunking configuration before
\* the loop, outside the try of each event: if that raises, no event is begun.
StartProcessing ==
  /\ pc = "staging"
  /\ Len(events) = Len(docs)
  /\ \/ pc' = "next" /\ i' = 1
     \/ "config" \in Failures /\ pc' = "abort" /\ UNCHANGED i
  /\ UNCHANGED <<points, connector, request, content, outcome, counts, trail, unlogged>>

\* Mutation: only the first document of the request is dropped.
FinishRequestDropsOne ==
  /\ pc \in {"reply", "abort"}
  /\ staged' = [staged EXCEPT ![events[1].doc] = None]
  /\ EndRequest
  /\ UNCHANGED <<points, known, queued>>

\* Mutation: dropping a document also forgets that it was pushed.
FinishRequestForgets ==
  /\ pc \in {"reply", "abort"}
  /\ staged' = [d \in Docs |->
                  IF \E k \in 1 .. Len(events) : events[k].doc = d
                  THEN None ELSE staged[d]]
  /\ known' = {d \in known : \A k \in 1 .. Len(events) : events[k].doc # d}
  /\ EndRequest
  /\ UNCHANGED <<points, queued>>

\* The finally clause drops every document of the request, and the response
\* ("reply") or the exception ("abort") leaves the handler.
FinishRequest ==
  /\ pc \in {"reply", "abort"}
  /\ staged' = [d \in Docs |->
                  IF \E k \in 1 .. Len(events) : events[k].doc = d
                  THEN None ELSE staged[d]]
  /\ EndRequest
  /\ UNCHANGED <<points, known, queued>>

\* The per-document label of a single push.
LabelOf == [DELETED |-> "deleted", MODIFIED |-> "updated", ADDED |-> "ingested"]

\* Mutation: failures are not looked at.
ResultLabelOptimistic(change, result) ==
  IF result.skipped > 0 THEN "skipped" ELSE LabelOf[change]

ResultLabel(change, result) ==
  IF result.failed > 0 THEN "failed"
  ELSE IF result.skipped > 0 THEN "skipped"
  ELSE LabelOf[change]

-----------------------------------------------------------------------------
(* The orchestrator: process_changes.                                      *)

Goto(label) ==
  /\ pc' = label
  /\ UNCHANGED <<points, connector, request, loop>>

\* `call` raises and the except clause takes over.
Raise(call) ==
  /\ call \in Failures
  /\ Goto("handler")

\* The event is done with but for its audit record, of type `o`.
Conclude(o) ==
  /\ outcome' = o
  /\ pc' = "audit"

Dispatch ==
  /\ pc = "next"
  /\ \/ /\ i > Len(events)
        /\ Goto("reply")
     \/ /\ i <= Len(events)
        /\ Current.change = "DELETED"
        /\ Goto("delete")
     \/ /\ i <= Len(events)
        /\ Current.change # "DELETED"
        /\ Goto("fetch")

\* Mutation: a deletion the store refuses is taken for done.
DeleteDocumentBestEffort ==
  /\ pc = "delete"
  /\ points' \in {[points EXCEPT ![collection] = DeleteByDocument(@, Current.doc)]}
       \cup (IF "delete" \in Failures THEN {points} ELSE {})
  /\ Conclude("DELETED")
  /\ UNCHANGED <<connector, request, i, content, counts, trail, unlogged>>

\* delete_by_document for a DELETED event.
DeleteDocument ==
  /\ pc = "delete"
  /\ \/ Raise("delete")
     \/ /\ points' = [points EXCEPT ![collection] = DeleteByDocument(@, Current.doc)]
        /\ \/ /\ Conclude("DELETED")
              /\ UNCHANGED <<i, content, counts, trail, unlogged>>
           \/ /\ "delete" \in Failures    \* applied, but the answer was lost
              /\ pc' = "handler"
              /\ UNCHANGED loop
        /\ UNCHANGED <<connector, request>>

\* Mutation: the old chunks are deleted before the document is fetched, which
\* is the order the docs give (docs/pipeline.md:33).
FetchAfterDelete ==
  /\ pc = "fetch"
  /\ points' = IF Current.change = "MODIFIED"
               THEN [points EXCEPT ![collection] = DeleteByDocument(@, Current.doc)]
               ELSE points
  /\ \/ /\ staged[Current.doc] = None
        /\ pc' = "handler"
        /\ UNCHANGED loop
     \/ /\ staged[Current.doc] # None
        /\ content' = staged[Current.doc]
        /\ \/ /\ staged[Current.doc] \in Unsupported
              /\ Conclude("SKIPPED")
           \/ /\ staged[Current.doc] \notin Unsupported
              /\ pc' = "convert"
              /\ UNCHANGED outcome
        /\ UNCHANGED <<i, counts, trail, unlogged>>
  /\ UNCHANGED <<connector, request>>

\* fetch_document and the supported-type check.
Fetch ==
  /\ pc = "fetch"
  /\ \/ /\ staged[Current.doc] = None       \* FileNotFoundError
        /\ Goto("handler")
     \/ /\ staged[Current.doc] # None
        /\ content' = staged[Current.doc]
        /\ \/ /\ staged[Current.doc] \in Unsupported
              /\ Conclude("SKIPPED")
           \/ /\ staged[Current.doc] \notin Unsupported
              /\ pc' = "convert"
              /\ UNCHANGED outcome
        /\ UNCHANGED <<points, connector, request, i, counts, trail, unlogged>>

\* convert and chunk.
ConvertAndChunk ==
  /\ pc = "convert"
  /\ \/ Raise("convert")
     \/ /\ ChunkCount[content] = 0
        /\ Conclude("SKIPPED")
        /\ UNCHANGED <<points, connector, request, i, content, counts, trail, unlogged>>
     \/ /\ ChunkCount[content] > 0
        /\ Goto("embed")

\* Mutation: updates are stored over the old chunks.
EmbedNeverClears ==
  /\ pc = "embed"
  /\ \/ Raise("embed")
     \/ Goto("store")

\* embed and the strict zip.
Embed ==
  /\ pc = "embed"
  /\ \/ Raise("embed")
     \/ /\ Current.change = "MODIFIED"
        /\ Goto("clear")
     \/ /\ Current.change = "ADDED"
        /\ Goto("store")

\* delete_by_document for a MODIFIED event, just before the new chunks go in.
ClearOldChunks ==
  /\ pc = "clear"
  /\ \/ Raise("delete")
     \/ /\ points' = [points EXCEPT ![collection] = DeleteByDocument(@, Current.doc)]
        /\ pc' = "store"
        /\ UNCHANGED <<connector, request, loop>>
     \/ /\ "delete" \in Failures
        /\ points' = [points EXCEPT ![collection] = DeleteByDocument(@, Current.doc)]
        /\ pc' = "handler"
        /\ UNCHANGED <<connector, request, loop>>

StoreChunks ==
  /\ pc = "store"
  /\ \/ Raise("store")
     \/ /\ points' = [points EXCEPT ![collection] = Upsert(@, Current.doc, content)]
        /\ \/ /\ Conclude(IF Current.change = "ADDED" THEN "INGESTED" ELSE "UPDATED")
              /\ UNCHANGED <<i, content, counts, trail, unlogged>>
           \/ /\ "store" \in Failures
              /\ pc' = "handler"
              /\ UNCHANGED loop
        /\ UNCHANGED <<connector, request>>

Entry(o) == [event |-> i, type |-> o]

\* One more audit record of type `o` for the current event, and the loop
\* moves on with `field` of the result incremented.
Record(o, field) ==
  /\ trail' = Append(trail, Entry(o))
  /\ counts' = [counts EXCEPT ![field] = @ + 1]
  /\ i' = i + 1
  /\ content' = None
  /\ outcome' = "SKIPPED"
  /\ unlogged' = FALSE
  /\ pc' = "next"
  /\ UNCHANGED <<points, connector, request>>

\* log_ingest_event raises, before the record of type `o` is written or after.
LogRaises(o, label) ==
  /\ "audit" \in Failures
  /\ trail' \in {trail, Append(trail, Entry(o))}
  /\ unlogged' = TRUE
  /\ pc' = label
  /\ UNCHANGED <<points, connector, request, i, content, outcome, counts>>

\* Mutation: updates are counted as ingested.
CountOfUpdateLost == [INGESTED |-> "ingested", UPDATED |-> "ingested",
                      DELETED |-> "deleted", SKIPPED |-> "skipped"]

\* The field of the result each kind of audited outcome counts in.
CountOf == [INGESTED |-> "ingested", UPDATED |-> "updated",
            DELETED |-> "deleted", SKIPPED |-> "skipped"]

\* The event has taken effect and is audited inside the try: a log that raises
\* makes it a failed one, to be recorded again.
AuditOutcome ==
  /\ pc = "audit"
  /\ \/ LogRaises(outcome, "handler")
     \/ Record(outcome, CountOf[outcome])

\* Mutation: a failed event is tried again, unrecorded.
HandleExceptionRetries ==
  /\ pc = "handler"
  /\ content' = None
  /\ pc' = "next"
  /\ UNCHANGED <<points, connector, request, i, outcome, counts, trail, unlogged>>

\* Mutation: the exception of one document ends the batch.
HandleExceptionReraises ==
  /\ pc = "handler"
  /\ Goto("abort")

\* The except clause.  Its own audit call is not guarded: if it raises, the
\* exception leaves process_changes and the rest of the batch is not applied.
HandleException ==
  /\ pc = "handler"
  /\ \/ Record("SKIPPED", "failed")
     \/ LogRaises("SKIPPED", "abort")

-----------------------------------------------------------------------------
\* The process dies and is restarted: the connector keeps nothing on disk.
Crash ==
  /\ MayCrash
  /\ known' = {}
  /\ staged' = [d \in Docs |-> None]
  /\ queued' = 0
  /\ EndRequest
  /\ UNCHANGED points

Serve ==
  \/ StageEvent \/ RejectRequest \/ StartProcessing \/ FinishRequest
  \/ Dispatch \/ DeleteDocument \/ Fetch \/ ConvertAndChunk \/ Embed
  \/ ClearOldChunks \/ StoreChunks \/ AuditOutcome \/ HandleException

Next == Receive \/ Serve \/ Crash

Spec == Init /\ [][Next]_vars

\* A started handler is run to its end by the event loop.
FairSpec == Spec /\ WF_vars(Serve)

-----------------------------------------------------------------------------
(* Properties.                                                             *)

\* Every variable holds a value of its type, and the locals of the handler
\* fit the place the process is at.
TypeOK ==
  /\ points \in [Collections -> [PointId -> Versions \cup {None}]]
  /\ known \subseteq Docs
  /\ staged \in [Docs -> Versions \cup {None}]
  /\ queued \in 0 .. MaxQueue
  /\ pc \in {"idle", "staging", "next", "fetch", "convert", "embed", "clear",
             "store", "delete", "audit", "handler", "reply", "abort"}
  /\ collection \in Collections \cup {None}
  /\ pc # "idle" => collection \in Collections
  /\ docs \in Seq(Payload)
  /\ events \in Seq(Event)
  /\ Len(events) <= Len(docs)
  /\ pc = "idle" => events = <<>>
  /\ i \in Nat
  /\ pc \notin {"idle", "staging", "next", "reply", "abort"} => i \in 1 .. Len(events)
  /\ pc = "next" => i \in 1 .. Len(events) + 1
  /\ content \in Versions \cup {None}
  /\ pc \in {"convert", "embed", "clear", "store"} => content \in Versions
  /\ outcome \in OutcomeType
  /\ counts \in Count
  /\ trail \in Seq(AuditRecord)
  /\ unlogged \in BOOLEAN

\* A collection whose content is `col` holds no chunk of document d.
Empty(col, d) == \A p \in PointId : p[2] = d => col[p] = None

\* It holds for d the chunks of version v and no other.
Exact(col, d, v) ==
  \A p \in PointId :
    p[2] = d => col[p] = IF p[1] = Source /\ p[3] < ChunkCount[v] THEN v ELSE None

\* What the gateway can retrieve of a document is never a mixture: all its
\* chunks come from one pushed version, and none of them is missing.
\* (delete-then-store, ingest_pipeline_orchestrator.py:123-126.)
WholeDocuments ==
  \A c \in Collections, d \in Docs :
    Empty(points[c], d) \/ \E v \in Versions : Exact(points[c], d, v)

\* The version of d that a collection serves: none, a whole one, or a mixture.
ServedVersion(col, d) ==
  IF Empty(col, d) THEN None
  ELSE IF \E v \in Versions : Exact(col, d, v)
       THEN CHOOSE v \in Versions : Exact(col, d, v)
       ELSE "mixture"

Served == [c \in Collections |-> [d \in Docs |-> ServedVersion(points[c], d)]]

KB == INSTANCE KnowledgeBase WITH served <- Served, offer <- staged

\* Ingestion implements the knowledge base a client that declares its updates
\* relies on: staging offers a version, the store's two operations retract and
\* publish it, and every other step is invisible.
ImplementsKnowledgeBase == KB!Spec

\* A step removes all chunks of a document only for the event being processed
\* on that document, and, unless the event is a deletion, only once the
\* replacement has been fetched and found convertible and not empty: a failed
\* or skipped update leaves the old version in place.  The code's order; the
\* docs (docs/pipeline.md:33 and the orchestrator's own docstring) put the
\* deletion first.
KeepsOldChunks ==
  \A c \in Collections, d \in Docs :
    ~Empty(points[c], d) /\ Empty(points'[c], d) =>
      /\ pc # "idle"
      /\ c = collection
      /\ d = Current.doc
      /\ \/ Current.change = "DELETED"
         \/ content \in Versions \ Unsupported /\ ChunkCount[content] > 0

OldChunksSurvive == [][KeepsOldChunks]_vars

\* An event is processed with the last content its own request pushed for the
\* document: neither an earlier entry of the batch nor what an earlier,
\* rejected request left staged is ever indexed.
ServesLastContent ==
  content # None =>
    \A k \in 1 .. Len(docs) :
      /\ docs[k].doc = Current.doc
      /\ \A m \in k + 1 .. Len(docs) : docs[m].doc # Current.doc
      => docs[k].version = content

\* The events behind the loop whose last record is of a type.  A log that
\* raised after it had written leaves a second record: SKIPPED after, say,
\* UPDATED.
LastRecord(e, type) ==
  \E k \in 1 .. Len(trail) :
    /\ trail[k] = [event |-> e, type |-> type]
    /\ \A m \in k + 1 .. Len(trail) : trail[m].event # e

Told(type) == {e \in 1 .. i - 1 : LastRecord(e, type)}

\* Each event behind the loop is counted once, as what its last record says.
CountsTold ==
  /\ counts.ingested = Cardinality(Told("INGESTED"))
  /\ counts.updated = Cardinality(Told("UPDATED"))
  /\ counts.deleted = Cardinality(Told("DELETED"))
  /\ counts.skipped + counts.failed = Cardinality(Told("SKIPPED"))
  /\ \A e \in 1 .. i - 1 : \E type \in OutcomeType : e \in Told(type)

\* Records are in the order of the events; no event has more than two, of which
\* the second says SKIPPED.
TrailInOrder ==
  \A k, m \in 1 .. Len(trail) : k < m =>
    /\ trail[k].event <= trail[m].event
    /\ trail[k].event = trail[m].event => m = k + 1 /\ trail[m].type = "SKIPPED"

\* The result counts and the audit trail tell the same story, also when the
\* audit log raises before or after it has written: what is answered counts
\* every event of the batch, as its last record says.
ResultMatchesTrail ==
  /\ CountsTold
  /\ TrailInOrder
  /\ pc = "reply" => i = Len(events) + 1

\* Every chunk of version v of d is there.
Holds(col, d, v) ==
  \A p \in PointId : p[1] = Source /\ p[2] = d /\ p[3] < ChunkCount[v] => col[p] = v

\* What a record of a type says of a document, whose staged content is the one
\* it was processed with.
SaysTrue(type, d) ==
  /\ type = "DELETED" => Empty(points[collection], d)
  /\ type = "UPDATED" => Exact(points[collection], d, staged[d])
  /\ type = "INGESTED" => Holds(points[collection], d, staged[d])

\* The trail and the store tell the same story: while a batch is processed, and
\* when it ends, the last record of a document says what the collection holds
\* of it, unless a later event on it has been taken up.
TrailTellsTheStore ==
  \A e \in 1 .. i - 1, type \in OutcomeType :
    /\ e \in Told(type)
    /\ \A f \in e + 1 .. Len(events) : f <= i => events[f].doc # events[e].doc
    => SaysTrue(type, events[e].doc)

\* The label a single push is answered with is true of the store: "deleted"
\* means nothing of the document is left in the collection, "updated" that the
\* collection holds exactly the pushed version, "ingested" that it holds every
\* chunk of it.
LabelIsTrue ==
  pc = "reply" /\ Len(events) = 1 =>
    LET d == events[1].doc
        v == docs[1].version
        label == ResultLabel(events[1].change, counts)
    IN  /\ label = "deleted" => Empty(points[collection], d)
        /\ label = "updated" => Exact(points[collection], d, v)
        /\ label = "ingested" => Holds(points[collection], d, v)

\* Between two requests the connector holds no document content.
NothingStagedWhenIdle == pc = "idle" => \A d \in Docs : staged[d] = None

\* Between two requests, a document with chunks in the store is one the
\* connector knows: its next push will be MODIFIED and clear them first.
StoredIsKnown ==
  pc = "idle" => \A c \in Collections, d \in Docs : ~Empty(points[c], d) => d \in known

\* A request that ends, with an answer or an exception, has been through every
\* event of its batch, or has not begun one.
BatchRunsToTheEnd ==
  pc \in {"reply", "abort"} => i > Len(events) \/ (i = 0 /\ trail = <<>>)

\* One bad document stalls its batch only if the audit log raised for it.
OnlyTheAuditLogStalls == unlogged \/ BatchRunsToTheEnd

\* Every request is answered.
Responds == pc # "idle" ~> pc = "idle"
=============================================================================
