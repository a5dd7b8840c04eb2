--------------------------- MODULE FilesystemSync ---------------------------
(***************************************************************************)
(* The FilesystemSourceConnector and the sync cycle its contract is        *)
(* written for: detect_changes(last sync), then process_changes on what it *)
(* returned.  Meanwhile users write and remove files, also in the middle   *)
(* of a scan.  The driver of the cycle is outside the repository; what it  *)
(* calls is modelled from the connector and the orchestrator.              *)
(*                                                                         *)
(* A version of a document is named by its modification time: every write  *)
(* takes the next tick of the clock.  What the store holds of a document   *)
(* is the set of versions its chunks come from.  A call may raise before   *)
(* it took effect or after, and the audit log as well as the others.       *)
(***************************************************************************)
EXTENDS Naturals

CONSTANTS
  Docs,           \* paths under the root
  MaxTime,        \* bound on the number of writes
  SinceLastSync,  \* the driver passes the last sync's time, else a distant past
  Durable,        \* the vector store outlives the process (ChromaDB)
  Blank,          \* versions with no chunks: unsupported type, empty Markdown
  MayFail,        \* whether the calls of the pipeline may raise
  MaxRestarts     \* bound on the restarts of the process

ASSUME BoundAssumption == MaxTime \in Nat /\ MaxRestarts \in Nat
ASSUME DeploymentAssumption ==
  /\ SinceLastSync \in BOOLEAN /\ Durable \in BOOLEAN /\ MayFail \in BOOLEAN
  /\ Blank \subseteq 1 .. MaxTime

VARIABLES
  files,     \* the modification time of each document on disk, or Absent
  clock,     \* the time of the last write
  known,     \* connector: modification times seen by the previous scan
  lastSync,  \* driver: when the last completed scan began
  pc,        \* where the cycle is
  paths,     \* scan: paths listed and not visited yet
  path,      \* scan: the path being visited
  scan,      \* scan: modification times read so far
  began,     \* scan: when it began
  pending,   \* events of the cycle not processed yet
  event,     \* the event being processed
  content,   \* the version fetched for it
  store,     \* vector store: the versions each document's chunks come from
  fate,      \* history: how the last event of each document ended
  lost,      \* history: documents whose old chunks were deleted for new ones
             \* that are not stored
  clean,     \* history: no event of the last cycle failed or was dropped
  restarts

disk == <<files, clock>>
connector == <<known, lastSync>>
scanning == <<paths, path, scan, began>>
processing == <<pending, event, content>>
results == <<store, fate, lost, clean>>
vars == <<disk, connector, pc, scanning, processing, results, restarts>>

Absent == 0
Nothing == [d \in Docs |-> Absent]

Fate == {"applied", "skipped", "failed", "dropped"}

Event == [doc: Docs, change: {"ADDED", "MODIFIED", "DELETED"}]

Init ==
  /\ files = Nothing
  /\ clock = 0
  /\ known = Nothing
  /\ lastSync = 0
  /\ pc = "idle"
  /\ paths = {}
  /\ path \in Docs
  /\ scan = Nothing
  /\ began = 0
  /\ pending = {}
  /\ event \in [doc: Docs, change: {"ADDED"}]
  /\ content = Absent
  /\ store = [d \in Docs |-> {}]
  /\ fate = [d \in Docs |-> "applied"]
  /\ lost = {}
  /\ clean = TRUE
  /\ restarts = 0

-----------------------------------------------------------------------------
(* The users of the directory.                                             *)

WriteFile(d) ==
  /\ clock < MaxTime
  /\ clock' = clock + 1
  /\ files' = [files EXCEPT ![d] = clock + 1]
  /\ UNCHANGED <<connector, pc, scanning, processing, results, restarts>>

RemoveFile(d) ==
  /\ files[d] # Absent
  /\ files' = [files EXCEPT ![d] = Absent]
  /\ UNCHANGED <<clock, connector, pc, scanning, processing, results, restarts>>

-----------------------------------------------------------------------------
(* detect_changes.  The connector's lock keeps other calls out, not users. *)

BeginScan ==
  /\ pc = "idle"
  /\ pc' = "scan"
  /\ paths' = {d \in Docs : files[d] # Absent}
  /\ scan' = Nothing
  /\ began' = clock
  /\ UNCHANGED <<disk, connector, path, processing, results, restarts>>

\* path.is_file()
VisitPath ==
  /\ pc = "scan"
  /\ \E d \in paths :
       /\ paths' = paths \ {d}
       /\ path' = d
       /\ pc' = IF files[d] = Absent THEN "scan" ELSE "stat"
  /\ UNCHANGED <<disk, connector, scan, began, processing, results, restarts>>

\* path.stat(): if the file has gone by now the scan raises, and the snapshot
\* stays as it was.
StatPath ==
  /\ pc = "stat"
  /\ \/ /\ files[path] = Absent
        /\ pc' = "idle"
        /\ paths' = {}
        /\ UNCHANGED scan
     \/ /\ files[path] # Absent
        /\ pc' = "scan"
        /\ scan' = [scan EXCEPT ![path] = files[path]]
        /\ UNCHANGED paths
  /\ UNCHANGED <<disk, connector, path, began, processing, results, restarts>>

Since == IF SinceLastSync THEN lastSync ELSE 0

\* Mutation: a document that changed is added as well.
AddedAlsoChanged == {d \in Docs : scan[d] # Absent /\ scan[d] # known[d] /\ scan[d] >= Since}

Added == {d \in Docs : scan[d] # Absent /\ known[d] = Absent /\ scan[d] >= Since}

Modified ==
  {d \in Docs : scan[d] # Absent /\ known[d] # Absent /\ scan[d] # known[d] /\ scan[d] >= Since}

\* Mutation: deletions honour the watermark too.
DeletedSince == {d \in Docs : scan[d] = Absent /\ known[d] # Absent /\ known[d] >= Since}

Deleted == {d \in Docs : scan[d] = Absent /\ known[d] # Absent}

\* Mutation: the sync is dated by the scan's end.
DetectChangesLate ==
  /\ pc = "scan"
  /\ paths = {}
  /\ pending' = [doc: Added, change: {"ADDED"}]
                  \cup [doc: Modified, change: {"MODIFIED"}]
                  \cup [doc: Deleted, change: {"DELETED"}]
  /\ known' = scan
  /\ lastSync' = clock
  /\ pc' = "begin"
  /\ clean' = TRUE
  /\ UNCHANGED <<disk, scanning, event, content, store, fate, lost, restarts>>

DetectChanges ==
  /\ pc = "scan"
  /\ paths = {}
  /\ pending' = [doc: Added, change: {"ADDED"}]
                  \cup [doc: Modified, change: {"MODIFIED"}]
                  \cup [doc: Deleted, change: {"DELETED"}]
  /\ known' = scan
  /\ lastSync' = began
  /\ pc' = "begin"
  /\ clean' = TRUE
  /\ UNCHANGED <<disk, scanning, event, content, store, fate, lost, restarts>>

-----------------------------------------------------------------------------
(* process_changes, on documents one at a time.                            *)

\* An exception leaves process_changes.  The snapshot has moved, so what is
\* still pending is dropped, and the document in hand had its event failed.
AbortSync(failed) ==
  /\ MayFail
  /\ fate' = [d \in Docs |->
                IF \E e \in pending : e.doc = d THEN "dropped"
                ELSE IF d \in failed THEN "failed" ELSE fate[d]]
  /\ pending' = {}
  /\ clean' = FALSE
  /\ pc' = "idle"
  /\ UNCHANGED <<disk, connector, scanning, event, content, store, lost, restarts>>

\* The chunking configuration is read before the loop, outside its try.
BeginSync ==
  /\ pc = "begin"
  /\ \/ AbortSync({})
     \/ /\ pc' = "process"
        /\ UNCHANGED <<disk, connector, scanning, processing, results, restarts>>

NextEvent ==
  /\ pc = "process"
  /\ \E e \in pending :
       /\ pending' = pending \ {e}
       /\ event' = e
       /\ pc' = IF e.change = "DELETED" THEN "delete" ELSE "fetch"
  /\ UNCHANGED <<disk, connector, scanning, content, results, restarts>>

EndSync ==
  /\ pc = "process"
  /\ pending = {}
  /\ pc' = "idle"
  /\ UNCHANGED <<disk, connector, scanning, processing, results, restarts>>

\* A call raises and the except clause takes over.
Raise ==
  /\ MayFail
  /\ pc' = "handler"
  /\ UNCHANGED <<disk, connector, scanning, processing, results, restarts>>

\* A call has taken effect; its answer may be lost, which raises all the same.
Answered(label) ==
  /\ pc' \in {label} \cup (IF MayFail THEN {"handler"} ELSE {})
  /\ UNCHANGED <<disk, connector, scanning, processing, fate, clean, restarts>>

\* delete_by_document for a DELETED event.
Delete ==
  /\ pc = "delete"
  /\ \/ Raise
     \/ /\ store' = [store EXCEPT ![event.doc] = {}]
        /\ lost' = lost \ {event.doc}
        /\ Answered("audit")

\* fetch_document reads the file as it is now; then the check of its type,
\* convert, chunk and embed.  Of a blank version nothing is stored or deleted.
Fetch ==
  /\ pc = "fetch"
  /\ \/ Raise
     \/ /\ files[event.doc] = Absent       \* FileNotFoundError
        /\ pc' = "handler"
        /\ UNCHANGED <<disk, connector, scanning, processing, results, restarts>>
     \/ /\ files[event.doc] # Absent
        /\ content' = files[event.doc]
        /\ pc' = IF files[event.doc] \in Blank THEN "audit"
                 ELSE IF event.change = "MODIFIED" THEN "clear" ELSE "store"
        /\ UNCHANGED <<disk, connector, scanning, pending, event, results, restarts>>

\* delete_by_document for a MODIFIED event.
ClearOldChunks ==
  /\ pc = "clear"
  /\ \/ Raise
     \/ /\ store' = [store EXCEPT ![event.doc] = {}]
        /\ lost' = IF store[event.doc] = {} THEN lost ELSE lost \cup {event.doc}
        /\ Answered("store")

\* The chunks go in over whatever is there: a version that had more of them
\* keeps its tail.
StoreChunks ==
  /\ pc = "store"
  /\ \/ Raise
     \/ /\ \E left \in {{}, store[event.doc]} :
             store' = [store EXCEPT ![event.doc] = left \cup {content}]
        /\ lost' = lost \ {event.doc}
        /\ Answered("audit")

Mixed(d) == \E v, w \in store[d] : v # w

\* The fate of an event that reaches its audit record.  Storing over the tail
\* of an earlier version leaves what an earlier event did not apply unapplied.
Outcome ==
  IF event.change # "DELETED" /\ content \in Blank THEN "skipped"
  ELSE IF Mixed(event.doc) THEN fate[event.doc]
  ELSE "applied"

\* The event has taken effect, or was skipped, and is audited inside the try.
AuditOutcome ==
  /\ pc = "audit"
  /\ \/ Raise
     \/ /\ fate' = [fate EXCEPT ![event.doc] = Outcome]
        /\ pc' = "process"
        /\ UNCHANGED <<disk, connector, scanning, processing, store, lost, clean, restarts>>

\* The except clause records the event as skipped, and nobody reports it
\* again.  It calls the audit log unguarded: if that raises, the cycle ends.
HandleException ==
  /\ pc = "handler"
  /\ \/ AbortSync({event.doc})
     \/ /\ fate' = [fate EXCEPT ![event.doc] = "failed"]
        /\ clean' = FALSE
        /\ pc' = "process"
        /\ UNCHANGED <<disk, connector, scanning, processing, store, lost, restarts>>

\* The process is restarted: the snapshot is gone, and with the in-memory
\* vector store so are the chunks.
Restart ==
  /\ restarts < MaxRestarts
  /\ restarts' = restarts + 1
  /\ known' = Nothing
  /\ lastSync' = 0
  /\ pc' = "idle"
  /\ paths' = {}
  /\ pending' = {}
  /\ IF Durable
     THEN UNCHANGED results
     ELSE /\ store' = [d \in Docs |-> {}]
          /\ fate' = [d \in Docs |-> "applied"]
          /\ lost' = {}
          /\ clean' = TRUE
  /\ UNCHANGED <<disk, path, scan, began, event, content>>

Cycle ==
  \/ BeginScan \/ VisitPath \/ StatPath \/ DetectChanges \/ BeginSync
  \/ NextEvent \/ EndSync \/ Delete \/ Fetch \/ ClearOldChunks
  \/ StoreChunks \/ AuditOutcome \/ HandleException

Next == Cycle \/ Restart \/ \E d \in Docs : WriteFile(d) \/ RemoveFile(d)

Spec == Init /\ [][Next]_vars

\* The driver keeps running sync cycles, also after one that raised.
FairSpec == Spec /\ WF_vars(Cycle)

-----------------------------------------------------------------------------
(* Properties.                                                             *)

\* The variables have their types: times never run ahead of the clock, no two
\* events of a cycle concern one document, and a lost document has no chunks.
TypeOK ==
  /\ files \in [Docs -> 0 .. clock]
  /\ clock \in 0 .. MaxTime
  /\ known \in [Docs -> 0 .. clock]
  /\ lastSync \in 0 .. clock
  /\ pc \in {"idle", "scan", "stat", "begin", "process", "delete", "fetch",
             "clear", "store", "audit", "handler"}
  /\ paths \subseteq Docs
  /\ path \in Docs
  /\ scan \in [Docs -> 0 .. clock]
  /\ began \in 0 .. clock
  /\ pending \subseteq Event
  /\ \A e, f \in pending : e.doc = f.doc => e = f
  /\ event \in Event
  /\ content \in 0 .. clock
  /\ pc \in {"clear", "store"} => content # Absent
  /\ store \in [Docs -> SUBSET (1 .. clock)]
  /\ fate \in [Docs -> Fate]
  /\ lost \in SUBSET Docs
  /\ \A d \in lost : store[d] = {}
  /\ clean \in BOOLEAN
  /\ restarts \in 0 .. MaxRestarts

\* The store holds the document as it is on disk.
InSync(d) == store[d] = IF files[d] = Absent THEN {} ELSE {files[d]}

Working == pc \in {"delete", "fetch", "clear", "store", "audit", "handler"}

InProgress(d) == (\E e \in pending : e.doc = d) \/ (Working /\ event.doc = d)

\* The last event of the document failed, was skipped for want of chunks, or
\* was dropped with the rest of its cycle when process_changes raised.
Unapplied(d) == fate[d] # "applied"

\* A document the store holds differently from the disk is one the next scan
\* will report, or has an event in progress, or had its last event fail, be
\* skipped, or be dropped by a cycle that raised: no change is missed because
\* it fell between two steps of a scan or of the pipeline.
OnlyUnappliedIsMissed ==
  \A d \in Docs : InSync(d) \/ known[d] # files[d] \/ InProgress(d) \/ Unapplied(d)

\* The chunks of a document all come from one version, unless its last event
\* was not applied: a document is only ever ADDED when nothing of it is stored.
NoMixtures == \A d \in Docs : Mixed(d) => Unapplied(d)

\* When the users and the restarts stop, the store comes to agree with the
\* disk, but for the documents whose last event was not applied.
Converges == <>[](\A d \in Docs : InSync(d) \/ Unapplied(d))

\* After a cycle that raised nothing, in which no event failed, and that saw
\* the files as they are, no document is lost any more: the next successful
\* sync makes good an update whose deletion succeeded and whose re-storage
\* failed.
SuccessfulSyncHeals == pc = "idle" /\ clean /\ known = files => lost = {}
=============================================================================
