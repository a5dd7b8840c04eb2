------------------------ MODULE FilesystemSyncProofs ------------------------
(***************************************************************************)
(* Theorems about FilesystemSync, for any directory, any number of writes  *)
(* and restarts and whatever fails.  SyncInv is the invariant behind them. *)
(***************************************************************************)
EXTENDS FilesystemSync, TLAPS

-----------------------------------------------------------------------------
(* Types.                                                                  *)

LEMMA EventsOfChanges ==
  ASSUME NEW change \in {"ADDED", "MODIFIED", "DELETED"}, NEW S \in SUBSET Docs
  PROVE  /\ [doc: S, change: {change}] \subseteq Event
         /\ \A e \in [doc: S, change: {change}] : e.doc \in S /\ e.change = change
BY DEF Event

\* A scan that is complete reports each document at most once, under the
\* change that its comparison with the snapshot calls for.
Reported(e) ==
  /\ e \in Event
  /\ e.change = "ADDED" => e.doc \in Added
  /\ e.change = "MODIFIED" => e.doc \in Modified
  /\ e.change = "DELETED" => e.doc \in Deleted

LEMMA DetectedEvents ==
  ASSUME DetectChanges
  PROVE  /\ \A e \in pending' : Reported(e)
         /\ \A e, f \in pending' : e.doc = f.doc => e = f
         /\ \A d \in Added \cup Modified \cup Deleted : \E e \in pending' : e.doc = d
<1>1. Added \subseteq Docs /\ Modified \subseteq Docs /\ Deleted \subseteq Docs
  BY DEF Added, Modified, Deleted
<1>2. pending' = [doc: Added, change: {"ADDED"}]
                   \cup [doc: Modified, change: {"MODIFIED"}]
                   \cup [doc: Deleted, change: {"DELETED"}]
  BY DEF DetectChanges
<1>3. \A e \in pending' : Reported(e)
  BY <1>1, <1>2 DEF Reported, Event
<1>4. \A e, f \in pending' : e.doc = f.doc => e = f
  <2>1. ASSUME NEW e \in pending', NEW f \in pending', e.doc = f.doc
        PROVE  e.change = f.change
    BY <1>3, <2>1 DEF Reported, Added, Modified, Deleted, Event
  <2>2. \A e \in pending' : e = [doc |-> e.doc, change |-> e.change]
    BY <1>3 DEF Reported, Event
  <2> QED
    BY <2>1, <2>2
<1>5. ASSUME NEW d \in Added \cup Modified \cup Deleted
      PROVE  \E e \in pending' : e.doc = d
  <2>1. \/ d \in Added /\ [doc |-> d, change |-> "ADDED"] \in pending'
        \/ d \in Modified /\ [doc |-> d, change |-> "MODIFIED"] \in pending'
        \/ d \in Deleted /\ [doc |-> d, change |-> "DELETED"] \in pending'
    BY <1>2, <1>5
  <2> QED
    BY <2>1
<1> QED
  BY <1>3, <1>4, <1>5

LEMMA TypesInit ==
  Init => TypeOK
BY BoundAssumption DEF Init, TypeOK, Nothing, Absent, Event, Fate

LEMMA TypesNext ==
  TypeOK /\ [Next]_vars => TypeOK'
<1> SUFFICES ASSUME TypeOK, [Next]_vars PROVE TypeOK'
  OBVIOUS
<1> USE DEF TypeOK, disk, connector, scanning, processing, results, Absent
<1>1. clock \in Nat /\ MaxTime \in Nat /\ MaxRestarts \in Nat
  BY BoundAssumption
<1>2. ASSUME NEW d \in Docs, WriteFile(d) PROVE TypeOK'
  <2>1. /\ clock' = clock + 1 /\ clock' \in 0..MaxTime
        /\ files' \in [Docs -> 0..clock']
    BY <1>1, <1>2 DEF WriteFile
  <2>2. /\ known \in [Docs -> 0..clock'] /\ scan \in [Docs -> 0..clock']
        /\ store \in [Docs -> SUBSET (1..clock')]
        /\ {lastSync, began, content} \subseteq 0..clock'
    <3>1. 0..clock \subseteq 0..clock' /\ 1..clock \subseteq 1..clock'
      BY <1>1, <2>1
    <3> QED
      BY <3>1
  <2> QED
    BY <1>2, <2>1, <2>2 DEF WriteFile
<1>3. ASSUME NEW d \in Docs, RemoveFile(d) PROVE TypeOK'
  BY <1>1, <1>3 DEF RemoveFile
<1>4. CASE BeginScan
  BY <1>1, <1>4 DEF BeginScan, Nothing
<1>5. CASE VisitPath
  BY <1>5 DEF VisitPath
<1>6. CASE StatPath
  BY <1>6 DEF StatPath
<1>7. CASE DetectChanges
  <2>1. pending' \subseteq Event /\ \A e, f \in pending' : e.doc = f.doc => e = f
    BY <1>7, DetectedEvents DEF Reported
  <2> QED
    BY <1>7, <2>1 DEF DetectChanges
<1> event.doc \in Docs
  BY DEF Event
\* What the processing of an event leaves alone, and what it may change.
<1>8. ASSUME UNCHANGED <<disk, connector, scanning, restarts>>,
             pending' \in SUBSET pending, event' \in Event, content' \in 0..clock,
             pc' \in {"idle", "process", "delete", "fetch", "clear", "store", "audit", "handler"},
             pc' \in {"clear", "store"} => content' # Absent,
             store' \in [Docs -> SUBSET (1..clock)], fate' \in [Docs -> Fate],
             lost' \in SUBSET Docs, \A d \in lost' : store'[d] = {}, clean' \in BOOLEAN
      PROVE  TypeOK'
  BY <1>8
<1>9. CASE Raise
  BY <1>8, <1>9 DEF Raise
<1>10. ASSUME NEW failed, AbortSync(failed) PROVE TypeOK'
  <2>1. fate' \in [Docs -> Fate]
    BY <1>10 DEF AbortSync, Fate
  <2> QED
    BY <1>8, <1>10, <2>1 DEF AbortSync
<1>11. CASE BeginSync
  <2>1. CASE AbortSync({})
    BY <1>10, <2>1
  <2>2. CASE ~AbortSync({})
    BY <1>8, <1>11, <2>2 DEF BeginSync
  <2> QED
    BY <2>1, <2>2
<1>12. CASE NextEvent
  BY <1>8, <1>12 DEF NextEvent
<1>13. CASE EndSync
  BY <1>8, <1>13 DEF EndSync
<1>14. CASE Delete
  BY <1>8, <1>9, <1>14 DEF Delete, Answered
<1>15. CASE Fetch
  BY <1>8, <1>9, <1>15 DEF Fetch
<1>16. CASE ClearOldChunks
  BY <1>8, <1>9, <1>16 DEF ClearOldChunks, Answered
<1>17. CASE StoreChunks
  <2>1. CASE Raise
    BY <1>9, <2>1
  <2>2. CASE ~Raise
    <3> PICK left \in {{}, store[event.doc]} :
          store' = [store EXCEPT ![event.doc] = left \cup {content}]
      BY <1>17, <2>2 DEF StoreChunks
    <3>1. left \cup {content} \subseteq 1..clock
      BY <1>1, <1>17 DEF StoreChunks
    <3>2. store' \in [Docs -> SUBSET (1..clock)]
      BY <3>1
    <3>3. lost' = lost \ {event.doc} /\ \A d \in lost' : store'[d] = {}
      BY <1>17, <2>2 DEF StoreChunks
    <3> QED
      BY <1>8, <1>17, <2>2, <3>2, <3>3 DEF StoreChunks, Answered
  <2> QED
    BY <2>1, <2>2
<1>18. CASE AuditOutcome
  <2>1. CASE Raise
    BY <1>9, <2>1
  <2>2. CASE ~Raise
    <3>1. Outcome \in Fate
      BY DEF Outcome, Fate
    <3> QED
      BY <1>8, <1>18, <2>2, <3>1 DEF AuditOutcome
  <2> QED
    BY <2>1, <2>2
<1>19. CASE HandleException
  <2>1. CASE AbortSync({event.doc})
    BY <1>10, <2>1
  <2>2. CASE ~AbortSync({event.doc})
    BY <1>8, <1>19, <2>2 DEF HandleException, Fate
  <2> QED
    BY <2>1, <2>2
<1>20. CASE Restart
  <2>1. /\ known' \in [Docs -> 0..clock] /\ lastSync' \in 0..clock
        /\ pc' = "idle" /\ paths' = {} /\ pending' = {}
        /\ restarts' = restarts + 1 /\ restarts < MaxRestarts
        /\ UNCHANGED <<disk, path, scan, began, event, content>>
    BY <1>1, <1>20 DEF Restart, Nothing
  <2>2. \/ UNCHANGED results
        \/ /\ store' \in [Docs -> SUBSET (1..clock)] /\ fate' \in [Docs -> Fate]
           /\ lost' = {} /\ clean' = TRUE
    BY <1>20 DEF Restart, Fate
  <2>3. restarts' \in 0..MaxRestarts
    BY <1>1, <2>1
  <2> QED
    BY <2>1, <2>2, <2>3
<1>21. CASE UNCHANGED vars
  BY <1>21 DEF vars
<1> QED
  BY <1>2, <1>3, <1>4, <1>5, <1>6, <1>7, <1>11, <1>12, <1>13, <1>14, <1>15, <1>16,
     <1>17, <1>18, <1>19, <1>20, <1>21 DEF Next, Cycle

(* Every variable keeps its type, whatever users do and calls raise: times *)
(* never run ahead of the clock, a cycle has one event per document, and a *)
(* lost document has no chunks.                                            *)
THEOREM SyncTypeCorrect ==
  Spec => []TypeOK
BY TypesInit, TypesNext, PTL DEF Spec

-----------------------------------------------------------------------------
(* The invariant.  An event is due for as long as it is pending or being   *)
(* processed: what it says of the snapshot holds, and a document to be     *)
(* ADDED has no chunks that would be mixed with the new ones.              *)

Unstored(d) == store[d] = {} \/ Unapplied(d)

Due(e) ==
  /\ e.change = "DELETED" <=> known[e.doc] = Absent
  /\ e.change = "ADDED" => Unstored(e.doc)

EventsAreDue ==
  /\ pc \in {"idle", "scan", "stat"} => pending = {}
  /\ \A e \in pending : Due(e)
  /\ Working => /\ event.change = "DELETED" <=> known[event.doc] = Absent
                /\ \A e \in pending : e.doc # event.doc
  /\ pc = "delete" => event.change = "DELETED"
  /\ pc \in {"fetch", "clear", "store"} => event.change # "DELETED"
  /\ pc = "fetch" => Due(event)
  /\ pc = "store" => Unstored(event.doc)

\* What was fetched is what is there, or was replaced after the scan.
ContentIsNewest ==
  pc \in {"clear", "store", "audit"} /\ event.change # "DELETED" =>
    content = files[event.doc] \/ known[event.doc] # files[event.doc]

\* An event that reaches its audit record has done what it is about: the store
\* has the new version, with a tail only where an event before was not applied.
AuditedIsDone ==
  pc = "audit" =>
    LET d == event.doc IN
      \/ event.change = "DELETED" /\ store[d] = {}
      \/ /\ event.change # "DELETED"
         /\ content \in Blank \/ store[d] = {content} \/ (Mixed(d) /\ Unapplied(d))

\* Of a document that the connector does not know nothing is stored.
UnknownIsUnstored ==
  \A d \in Docs : known[d] = Absent => Unstored(d) \/ InProgress(d)

\* A file older than the last sync was seen by it as it is.
OldIsKnown ==
  \A d \in Docs : files[d] # Absent /\ files[d] <= lastSync => known[d] = files[d]

\* A file older than the scan in progress is seen by it, or will be.
OldIsScanned ==
  pc \in {"scan", "stat"} => \A d \in Docs :
    files[d] # Absent /\ files[d] <= began =>
      d \in paths \/ (pc = "stat" /\ path = d) \/ scan[d] = files[d]

SyncInv ==
  /\ EventsAreDue
  /\ ContentIsNewest
  /\ AuditedIsDone
  /\ UnknownIsUnstored
  /\ OldIsKnown
  /\ OldIsScanned
  /\ OnlyUnappliedIsMissed
  /\ NoMixtures

LEMMA SyncInit ==
  Init => SyncInv
BY DEF Init, SyncInv, EventsAreDue, ContentIsNewest, AuditedIsDone, UnknownIsUnstored,
       OldIsKnown, OldIsScanned, OnlyUnappliedIsMissed, NoMixtures, Mixed, Nothing,
       Working, Unstored, InSync, Due

\* Users change one file; everything else of the state stays.
LEMMA UsersKeepSync ==
  ASSUME TypeOK, SyncInv, NEW d \in Docs, WriteFile(d) \/ RemoveFile(d)
  PROVE  SyncInv'
<1>1. /\ UNCHANGED <<connector, pc, scanning, processing, results, restarts>>
      /\ \A x \in Docs \ {d} : files'[x] = files[x]
      /\ files'[d] = Absent \/ files'[d] = clock + 1
  BY DEF WriteFile, RemoveFile, TypeOK
<1>2. UNCHANGED <<known, lastSync, paths, path, scan, began, pending, event, content,
                  store, fate, pc>>
  BY <1>1 DEF connector, scanning, processing, results
<1>3. /\ clock \in Nat /\ known[d] \in 0..clock /\ lastSync \in 0..clock /\ began \in 0..clock
      /\ known[d] # clock + 1 /\ ~(clock + 1 <= lastSync) /\ ~(clock + 1 <= began)
      /\ clock + 1 # Absent /\ event.doc \in Docs
  BY BoundAssumption DEF TypeOK, Event, Absent
<1>4. /\ EventsAreDue' /\ AuditedIsDone' /\ UnknownIsUnstored' /\ NoMixtures'
      /\ \A x \in Docs : /\ InProgress(x)' = InProgress(x)
                         /\ Unapplied(x)' = Unapplied(x)
  BY <1>2 DEF SyncInv, EventsAreDue, AuditedIsDone, UnknownIsUnstored, NoMixtures, Due,
              Unstored, Unapplied, Mixed, Working, InProgress
<1>5. OldIsKnown' /\ OldIsScanned'
  BY <1>1, <1>2, <1>3 DEF SyncInv, OldIsKnown, OldIsScanned
\* Either way the file is not what a snapshot that knows it says it was.
<1>6. known[d] # Absent => known[d] # files'[d]
  BY <1>1, <1>3
<1>7. ContentIsNewest'
  BY <1>1, <1>2, <1>3, <1>6
     DEF SyncInv, ContentIsNewest, EventsAreDue, Working
<1>8. InSync(d)' \/ known'[d] # files'[d] \/ InProgress(d)' \/ Unapplied(d)'
  <2>1. CASE known[d] = Absent
    BY <1>1, <1>2, <1>3, <1>4, <2>1 DEF SyncInv, UnknownIsUnstored, Unstored, InSync
  <2>2. CASE known[d] # Absent
    BY <1>2, <1>6, <2>2
  <2> QED
    BY <2>1, <2>2
<1>9. OnlyUnappliedIsMissed'
  BY <1>1, <1>2, <1>4, <1>8 DEF SyncInv, OnlyUnappliedIsMissed, InSync
<1> QED
  BY <1>4, <1>5, <1>7, <1>9 DEF SyncInv

\* The scan reads; what it reads only OldIsScanned speaks of.
LEMMA ScanKeepsSync ==
  ASSUME TypeOK, SyncInv, BeginScan \/ VisitPath \/ StatPath
  PROVE  SyncInv'
<1>1. /\ UNCHANGED <<files, known, lastSync, pending, event, content, store, fate>>
      /\ pc \in {"idle", "scan", "stat"} /\ pc' \in {"idle", "scan", "stat"}
  BY DEF BeginScan, VisitPath, StatPath, disk, connector, processing, results
<1>2. /\ EventsAreDue' /\ ContentIsNewest' /\ AuditedIsDone' /\ OldIsKnown' /\ NoMixtures'
      /\ \A d \in Docs : InProgress(d)' = InProgress(d) /\ Unapplied(d)' = Unapplied(d)
  BY <1>1 DEF SyncInv, EventsAreDue, ContentIsNewest, AuditedIsDone, OldIsKnown, NoMixtures,
              Due, Unstored, Unapplied, Mixed, Working, InProgress
<1>3. UnknownIsUnstored' /\ OnlyUnappliedIsMissed'
  BY <1>1, <1>2 DEF SyncInv, UnknownIsUnstored, OnlyUnappliedIsMissed, Unstored, InSync
<1>4. OldIsScanned'
  <2>1. CASE BeginScan
    BY <2>1 DEF BeginScan, OldIsScanned, disk
  <2>2. CASE VisitPath
    BY <2>2 DEF VisitPath, OldIsScanned, SyncInv, disk
  <2>3. CASE StatPath
    BY <2>3 DEF StatPath, OldIsScanned, SyncInv, TypeOK, disk
  <2> QED
    BY <2>1, <2>2, <2>3
<1> QED
  BY <1>2, <1>3, <1>4 DEF SyncInv

\* The snapshot moves: what it gains, loses or sees changed is reported.
LEMMA DetectionKeepsSync ==
  ASSUME TypeOK, SyncInv, DetectChanges
  PROVE  SyncInv'
<1>1. /\ pc = "scan" /\ paths = {} /\ pending = {} /\ pc' = "begin"
      /\ known' = scan /\ lastSync' = began
      /\ UNCHANGED <<files, store, fate>>
  BY DEF DetectChanges, SyncInv, EventsAreDue, disk
<1>2. \A d \in Docs : known[d] = Absent => Unstored(d)
  BY <1>1 DEF SyncInv, UnknownIsUnstored, InProgress, EventsAreDue, Working
<1>3. /\ \A e \in pending' : Reported(e)
      /\ \A d \in Added \cup Modified \cup Deleted : InProgress(d)'
  BY DetectedEvents DEF InProgress
<1>4. EventsAreDue'
  <2>1. ASSUME NEW e \in pending' PROVE Due(e)'
    BY <1>1, <1>2, <1>3 DEF Reported, Due, Event, Added, Modified, Deleted, Unstored,
                               Unapplied
  <2> QED
    BY <1>1, <2>1 DEF EventsAreDue, Working
<1>5. OldIsKnown'
  BY <1>1 DEF OldIsKnown, OldIsScanned, SyncInv
<1>6. UnknownIsUnstored'
  BY <1>1, <1>2, <1>3 DEF UnknownIsUnstored, Unstored, Unapplied, Deleted
<1>7. OnlyUnappliedIsMissed'
  <2>1. SUFFICES ASSUME NEW d \in Docs, ~InSync(d), scan[d] = files[d], ~Unapplied(d)
                 PROVE  d \in Added \cup Modified \cup Deleted
    BY <1>1, <1>3 DEF OnlyUnappliedIsMissed, InSync, Unapplied
  <2>2. known[d] # files[d]
    BY <1>1, <2>1 DEF SyncInv, OnlyUnappliedIsMissed, InProgress, Working
  <2>3. files[d] # Absent => files[d] >= Since
    BY <2>2, BoundAssumption DEF SyncInv, OldIsKnown, Since, TypeOK, Absent
  <2> QED
    BY <2>1, <2>2, <2>3 DEF Added, Modified, Deleted
<1>8. ContentIsNewest' /\ AuditedIsDone' /\ OldIsScanned' /\ NoMixtures'
  BY <1>1 DEF ContentIsNewest, AuditedIsDone, OldIsScanned, NoMixtures, Mixed, Unapplied,
              SyncInv
<1> QED
  BY <1>4, <1>5, <1>6, <1>7, <1>8 DEF SyncInv

\* The exception drops what is in progress: every such document is unapplied.
LEMMA AbortKeepsSync ==
  ASSUME TypeOK, SyncInv, NEW failed, AbortSync(failed),
         Working => event.doc \in failed
  PROVE  SyncInv'
<1>1. /\ pc' = "idle" /\ pending' = {} /\ UNCHANGED <<files, known, lastSync, store>>
      /\ fate' = [d \in Docs |->
                    IF \E e \in pending : e.doc = d THEN "dropped"
                    ELSE IF d \in failed THEN "failed" ELSE fate[d]]
  BY DEF AbortSync, disk, connector
<1>2. \A d \in Docs : Unapplied(d) \/ InProgress(d) => Unapplied(d)'
  BY <1>1 DEF Unapplied, InProgress
<1>3. EventsAreDue' /\ ContentIsNewest' /\ AuditedIsDone' /\ OldIsKnown' /\ OldIsScanned'
  BY <1>1 DEF EventsAreDue, ContentIsNewest, AuditedIsDone, OldIsKnown, OldIsScanned,
              Working, SyncInv
<1>4. UnknownIsUnstored' /\ OnlyUnappliedIsMissed' /\ NoMixtures'
  BY <1>1, <1>2
     DEF SyncInv, UnknownIsUnstored, OnlyUnappliedIsMissed, NoMixtures, Mixed, Unstored,
         InSync
<1> QED
  BY <1>3, <1>4 DEF SyncInv

LEMMA BeginKeepsSync ==
  ASSUME TypeOK, SyncInv, BeginSync
  PROVE  SyncInv'
<1>1. CASE AbortSync({})
  BY <1>1, AbortKeepsSync DEF BeginSync, Working
<1>2. CASE ~AbortSync({})
  <2>1. /\ pc = "begin" /\ pc' = "process"
        /\ UNCHANGED <<files, known, lastSync, pending, store, fate>>
    BY <1>2 DEF BeginSync, disk, connector, processing, results
  <2> QED
    BY <2>1
       DEF SyncInv, EventsAreDue, ContentIsNewest, AuditedIsDone, UnknownIsUnstored,
           OldIsKnown, OldIsScanned, OnlyUnappliedIsMissed, NoMixtures, Mixed, Unapplied,
           Due, Unstored, Working, InProgress, InSync
<1> QED
  BY <1>1, <1>2

LEMMA NextEventKeepsSync ==
  ASSUME TypeOK, SyncInv, NextEvent
  PROVE  SyncInv'
<1>1. PICK e \in pending :
        /\ pc = "process" /\ pending' = pending \ {e} /\ event' = e
        /\ pc' = IF e.change = "DELETED" THEN "delete" ELSE "fetch"
        /\ UNCHANGED <<files, known, lastSync, content, store, fate>>
  BY DEF NextEvent, disk, connector, results
<1>2. EventsAreDue'
  BY <1>1 DEF EventsAreDue, Due, Unstored, Unapplied, Working, SyncInv, TypeOK
<1>3. \A d \in Docs : InProgress(d) => InProgress(d)'
  BY <1>1 DEF InProgress, Working
<1>4. UnknownIsUnstored' /\ OnlyUnappliedIsMissed'
  BY <1>1, <1>3
     DEF SyncInv, UnknownIsUnstored, OnlyUnappliedIsMissed, Unstored, Unapplied, InSync
<1>5. ContentIsNewest' /\ AuditedIsDone' /\ OldIsKnown' /\ OldIsScanned' /\ NoMixtures'
  BY <1>1 DEF ContentIsNewest, AuditedIsDone, OldIsKnown, OldIsScanned, NoMixtures, Mixed,
              Unapplied, SyncInv
<1> QED
  BY <1>2, <1>4, <1>5 DEF SyncInv

\* An event is over: its document is stored as it is on disk, or its fate is
\* another than applied, or it is different from the snapshot again.
EventEnds ==
  LET d == event.doc IN
    /\ Working /\ pc' = "process"
    /\ UNCHANGED <<files, known, lastSync, pending, event, store>>
    /\ \A x \in Docs \ {d} : fate'[x] = fate[x]
    /\ known[d] = Absent => Unstored(d)'
    /\ InSync(d) \/ known[d] # files[d] \/ Unapplied(d)'
    /\ Mixed(d) => Unapplied(d)'

LEMMA EndKeepsSync ==
  ASSUME TypeOK, SyncInv, EventEnds
  PROVE  SyncInv'
<1> DEFINE d == event.doc
<1>1. d \in Docs /\ \A e \in pending : e.doc \in Docs \ {d}
  BY DEF TypeOK, Event, EventEnds, SyncInv, EventsAreDue
<1>2. /\ pc' = "process" /\ UNCHANGED <<files, known, lastSync, pending, event, store>>
      /\ \A x \in Docs \ {d} : fate'[x] = fate[x]
  BY DEF EventEnds
<1> HIDE DEF d
<1>3. /\ \A x \in Docs \ {d} : /\ Unapplied(x)' = Unapplied(x) /\ Unstored(x)' = Unstored(x)
                               /\ InProgress(x) => InProgress(x)'
      /\ \A x \in Docs : Mixed(x)' = Mixed(x) /\ InSync(x)' = InSync(x)
  BY <1>2 DEF Unstored, Unapplied, InSync, InProgress, Mixed, d
<1>4. EventsAreDue'
  BY <1>1, <1>2, <1>3 DEF EventsAreDue, Due, Working, SyncInv
<1>5. UnknownIsUnstored' /\ OnlyUnappliedIsMissed' /\ NoMixtures'
  BY <1>1, <1>2, <1>3
     DEF SyncInv, UnknownIsUnstored, OnlyUnappliedIsMissed, NoMixtures, EventEnds, d
<1>6. ContentIsNewest' /\ AuditedIsDone' /\ OldIsKnown' /\ OldIsScanned'
  BY <1>2 DEF ContentIsNewest, AuditedIsDone, OldIsKnown, OldIsScanned, SyncInv
<1> QED
  BY <1>4, <1>5, <1>6 DEF SyncInv

LEMMA HandlingKeepsSync ==
  ASSUME TypeOK, SyncInv, HandleException
  PROVE  SyncInv'
<1>1. CASE AbortSync({event.doc})
  BY <1>1, AbortKeepsSync
<1>2. CASE ~AbortSync({event.doc})
  <2>1. /\ pc = "handler" /\ pc' = "process" /\ fate' = [fate EXCEPT ![event.doc] = "failed"]
        /\ UNCHANGED <<files, known, lastSync, pending, event, store>>
    BY <1>2 DEF HandleException, disk, connector, processing
  <2>2. Unapplied(event.doc)'
    BY <2>1 DEF Unapplied, TypeOK, Event
  <2> QED
    BY <2>1, <2>2, EndKeepsSync DEF EventEnds, Working, Unstored
<1> QED
  BY <1>1, <1>2

LEMMA AuditKeepsSync ==
  ASSUME TypeOK, SyncInv, AuditOutcome, ~Raise
  PROVE  SyncInv'
<1> DEFINE d == event.doc
<1>1. /\ pc = "audit" /\ pc' = "process" /\ fate' = [fate EXCEPT ![d] = Outcome]
      /\ UNCHANGED <<files, known, lastSync, pending, event, store>>
  BY DEF AuditOutcome, disk, connector, processing
<1>2. d \in Docs /\ fate'[d] = Outcome /\ \A x \in Docs \ {d} : fate'[x] = fate[x]
  BY <1>1 DEF TypeOK, Event
<1>3. (event.change = "DELETED" <=> known[d] = Absent) /\ store[d] \subseteq 1..clock
  BY <1>1, <1>2 DEF SyncInv, EventsAreDue, Working, TypeOK
<1>4. CASE event.change = "DELETED"
  <2>1. store[d] = {}
    BY <1>1, <1>4 DEF SyncInv, AuditedIsDone
  <2> QED
    BY <1>1, <1>2, <1>3, <1>4, <2>1, EndKeepsSync
       DEF EventEnds, Working, Unstored, InSync, Mixed
<1>5. CASE event.change # "DELETED" /\ content \in Blank
  <2>1. Unapplied(d)'
    BY <1>1, <1>2, <1>5 DEF Outcome, Unapplied
  <2> QED
    BY <1>1, <1>2, <2>1, EndKeepsSync DEF EventEnds, Working, Unstored
<1>6. CASE event.change # "DELETED" /\ content \notin Blank
  <2>1. store[d] = {content} \/ (Mixed(d) /\ Unapplied(d))
    BY <1>1, <1>6 DEF SyncInv, AuditedIsDone
  <2>2. CASE Mixed(d) /\ Unapplied(d)
    <3>1. Unapplied(d)'
      BY <1>1, <1>2, <1>6, <2>2 DEF Outcome, Unapplied
    <3> QED
      BY <1>1, <1>2, <3>1, EndKeepsSync DEF EventEnds, Working, Unstored
  <2>3. CASE store[d] = {content}
    <3>1. InSync(d) \/ known[d] # files[d]
      <4>1. content \in 1..clock
        BY <1>3, <2>3
      <4>2. content # Absent
        BY <4>1 DEF Absent
      <4> QED
        BY <1>1, <1>6, <2>3, <4>2 DEF SyncInv, ContentIsNewest, InSync
    <3>2. ~Mixed(d)
      BY <2>3 DEF Mixed
    <3> QED
      BY <1>1, <1>2, <1>3, <1>6, <3>1, <3>2, EndKeepsSync DEF EventEnds, Working
  <2> QED
    BY <2>1, <2>2, <2>3
<1> QED
  BY <1>4, <1>5, <1>6

\* A stage of an event touches the chunks of its document and nothing else.
Stage ==
  /\ Working /\ Working'
  /\ UNCHANGED <<files, known, lastSync, pending, event, fate>>
  /\ \A x \in Docs \ {event.doc} : store'[x] = store[x]
  /\ Mixed(event.doc)' => Unapplied(event.doc)

LEMMA StageKeepsSync ==
  ASSUME TypeOK, SyncInv, Stage
  PROVE  /\ pending' = pending /\ \A e \in pending : Due(e)' /\ e.doc # event.doc
         /\ UnknownIsUnstored' /\ OnlyUnappliedIsMissed' /\ NoMixtures'
         /\ OldIsKnown' /\ OldIsScanned'
<1>1. \A e \in pending : e.doc \in Docs \ {event.doc} /\ Due(e)
  BY DEF TypeOK, Event, Stage, SyncInv, EventsAreDue
<1>2. /\ \A x \in Docs \ {event.doc} : /\ Unstored(x)' = Unstored(x)
                                       /\ Mixed(x)' = Mixed(x) /\ InSync(x)' = InSync(x)
      /\ \A x \in Docs : /\ InProgress(x) => InProgress(x)'
                         /\ Unapplied(x)' = Unapplied(x)
      /\ InProgress(event.doc)'
  BY DEF Stage, Unstored, Unapplied, Mixed, InSync, InProgress
<1>3. pending' = pending /\ \A e \in pending : Due(e)' /\ e.doc # event.doc
  BY <1>1, <1>2 DEF Due, Stage
<1>4. UnknownIsUnstored' /\ OnlyUnappliedIsMissed' /\ NoMixtures'
  BY <1>2 DEF SyncInv, UnknownIsUnstored, OnlyUnappliedIsMissed, NoMixtures, Stage
<1>5. OldIsKnown' /\ OldIsScanned'
  BY DEF SyncInv, OldIsKnown, OldIsScanned, Stage, Working
<1> QED
  BY <1>3, <1>4, <1>5

LEMMA HandlerReached ==
  ASSUME TypeOK, SyncInv, Stage, pc' = "handler"
  PROVE  SyncInv'
<1>1. /\ pending' = pending /\ \A e \in pending : Due(e)' /\ e.doc # event.doc
      /\ UnknownIsUnstored' /\ OnlyUnappliedIsMissed' /\ NoMixtures'
      /\ OldIsKnown' /\ OldIsScanned'
  BY StageKeepsSync
<1>2. EventsAreDue' /\ ContentIsNewest' /\ AuditedIsDone'
  BY <1>1 DEF EventsAreDue, ContentIsNewest, AuditedIsDone, Stage, Working, SyncInv
<1> QED
  BY <1>1, <1>2 DEF SyncInv

LEMMA RaiseKeepsSync ==
  ASSUME TypeOK, SyncInv, Working, Raise
  PROVE  SyncInv'
<1>1. /\ pc' = "handler"
      /\ UNCHANGED <<files, known, lastSync, pending, event, store, fate>>
  BY DEF Raise, disk, connector, processing, results
<1>2. Mixed(event.doc)' => Unapplied(event.doc)
  BY <1>1 DEF Mixed, SyncInv, NoMixtures, TypeOK, Event
<1> QED
  BY <1>1, <1>2, HandlerReached DEF Stage, Working

LEMMA DeletionKeepsSync ==
  ASSUME TypeOK, SyncInv, Delete, ~Raise
  PROVE  SyncInv'
<1>1. /\ pc = "delete" /\ pc' \in {"audit", "handler"}
      /\ store' = [store EXCEPT ![event.doc] = {}]
      /\ UNCHANGED <<files, known, lastSync, pending, event, content, fate>>
  BY DEF Delete, Answered, disk, connector, processing
<1>2. store'[event.doc] = {} /\ \A x \in Docs \ {event.doc} : store'[x] = store[x]
  BY <1>1 DEF TypeOK, Event
<1>3. Stage
  BY <1>1, <1>2 DEF Stage, Working, Mixed
<1>4. CASE pc' = "audit"
  <2>1. EventsAreDue' /\ ContentIsNewest' /\ AuditedIsDone'
    BY <1>1, <1>2, <1>3, <1>4, StageKeepsSync
       DEF EventsAreDue, ContentIsNewest, AuditedIsDone, Working, SyncInv
  <2> QED
    BY <1>3, <2>1, StageKeepsSync DEF SyncInv
<1> QED
  BY <1>1, <1>3, <1>4, HandlerReached

LEMMA FetchKeepsSync ==
  ASSUME TypeOK, SyncInv, Fetch, ~Raise
  PROVE  SyncInv'
<1>1. /\ pc = "fetch" /\ pc' \in {"handler", "audit", "clear", "store"}
      /\ UNCHANGED <<files, known, lastSync, pending, event, store, fate>>
  BY DEF Fetch, disk, connector, processing, results
<1>2. Stage
  BY <1>1 DEF Stage, Working, Mixed, SyncInv, NoMixtures, TypeOK, Event
<1>3. CASE pc' # "handler"
  <2>1. /\ content' = files[event.doc]
        /\ pc' = IF files[event.doc] \in Blank THEN "audit"
                 ELSE IF event.change = "MODIFIED" THEN "clear" ELSE "store"
    BY <1>3 DEF Fetch
  <2>2. event.change # "DELETED" /\ (event.change = "ADDED" => Unstored(event.doc)')
    BY <1>1 DEF SyncInv, EventsAreDue, Due, Unstored, Unapplied
  <2>3. event.change \in {"ADDED", "MODIFIED"}
    BY <2>2 DEF TypeOK, Event
  <2>4. EventsAreDue'
    BY <1>1, <1>2, <1>3, <2>1, <2>2, <2>3, StageKeepsSync DEF EventsAreDue, Working, SyncInv
  <2>5. ContentIsNewest' /\ AuditedIsDone'
    BY <1>1, <2>1, <2>2 DEF ContentIsNewest, AuditedIsDone
  <2> QED
    BY <1>2, <2>4, <2>5, StageKeepsSync DEF SyncInv
<1> QED
  BY <1>2, <1>3, HandlerReached

LEMMA ClearKeepsSync ==
  ASSUME TypeOK, SyncInv, ClearOldChunks, ~Raise
  PROVE  SyncInv'
<1>1. /\ pc = "clear" /\ pc' \in {"store", "handler"}
      /\ store' = [store EXCEPT ![event.doc] = {}]
      /\ UNCHANGED <<files, known, lastSync, pending, event, content, fate>>
  BY DEF ClearOldChunks, Answered, disk, connector, processing
<1>2. store'[event.doc] = {} /\ \A x \in Docs \ {event.doc} : store'[x] = store[x]
  BY <1>1 DEF TypeOK, Event
<1>3. Stage
  BY <1>1, <1>2 DEF Stage, Working, Mixed
<1>4. CASE pc' = "store"
  <2>1. EventsAreDue' /\ ContentIsNewest' /\ AuditedIsDone'
    BY <1>1, <1>2, <1>3, <1>4, StageKeepsSync
       DEF EventsAreDue, ContentIsNewest, AuditedIsDone, Unstored, Working, SyncInv
  <2> QED
    BY <1>3, <2>1, StageKeepsSync DEF SyncInv
<1> QED
  BY <1>1, <1>3, <1>4, HandlerReached

\* A tail that stays is of a document that an earlier event left unapplied.
LEMMA StoringKeepsSync ==
  ASSUME TypeOK, SyncInv, StoreChunks, ~Raise
  PROVE  SyncInv'
<1> PICK left \in {{}, store[event.doc]} :
      store' = [store EXCEPT ![event.doc] = left \cup {content}]
  BY DEF StoreChunks
<1>1. /\ pc = "store" /\ pc' \in {"audit", "handler"}
      /\ UNCHANGED <<files, known, lastSync, pending, event, content, fate>>
  BY DEF StoreChunks, Answered, disk, connector, processing
<1>2. /\ store'[event.doc] = left \cup {content}
      /\ \A x \in Docs \ {event.doc} : store'[x] = store[x]
  BY <1>1 DEF TypeOK, Event
<1>3. \/ store'[event.doc] = {content}
      \/ Mixed(event.doc)' /\ Unapplied(event.doc)
  <2>1. CASE left \subseteq {content}
    BY <1>2, <2>1
  <2>2. CASE ~(left \subseteq {content})
    <3>1. Unapplied(event.doc)
      BY <1>1, <2>2 DEF SyncInv, EventsAreDue, Unstored
    <3> QED
      BY <1>1, <1>2, <2>2, <3>1 DEF Mixed
  <2> QED
    BY <2>1, <2>2
<1>4. Stage
  BY <1>1, <1>2, <1>3 DEF Stage, Working, Mixed
<1>5. CASE pc' = "audit"
  <2>1. event.change # "DELETED" /\ (Unapplied(event.doc) => Unapplied(event.doc)')
    BY <1>1 DEF SyncInv, EventsAreDue, Unapplied
  <2>2. EventsAreDue'
    BY <1>1, <1>4, <1>5, StageKeepsSync DEF EventsAreDue, Working, SyncInv
  <2>3. ContentIsNewest' /\ AuditedIsDone'
    BY <1>1, <1>3, <1>5, <2>1 DEF ContentIsNewest, AuditedIsDone, SyncInv
  <2> QED
    BY <1>4, <2>2, <2>3, StageKeepsSync DEF SyncInv
<1> QED
  BY <1>1, <1>4, <1>5, HandlerReached

LEMMA EndSyncKeepsSync ==
  ASSUME TypeOK, SyncInv, EndSync
  PROVE  SyncInv'
<1>1. /\ pc = "process" /\ pc' = "idle" /\ pending = {}
      /\ UNCHANGED <<files, known, lastSync, pending, event, content, store, fate>>
  BY DEF EndSync, disk, connector, processing, results
<1> QED
  BY <1>1
     DEF SyncInv, EventsAreDue, ContentIsNewest, AuditedIsDone, UnknownIsUnstored,
         OldIsKnown, OldIsScanned, OnlyUnappliedIsMissed, NoMixtures, Mixed, Unapplied,
         Due, Unstored, Working, InProgress, InSync

\* A restart forgets the snapshot, and with it the store.
LEMMA RestartKeepsSync ==
  ASSUME ~Durable, TypeOK, Restart
  PROVE  SyncInv'
<1>1. /\ known' = Nothing /\ lastSync' = 0 /\ pc' = "idle" /\ pending' = {}
      /\ store' = [d \in Docs |-> {}] /\ files' = files
  BY DEF Restart, disk
<1>2. \A d \in Docs : known'[d] = Absent /\ store'[d] = {} /\ ~(files'[d] # Absent /\ files'[d] <= 0)
  BY <1>1, BoundAssumption DEF Nothing, TypeOK, Absent
<1> QED
  BY <1>1, <1>2
     DEF SyncInv, EventsAreDue, ContentIsNewest, AuditedIsDone, UnknownIsUnstored,
         OldIsKnown, OldIsScanned, OnlyUnappliedIsMissed, NoMixtures, Mixed, Unstored,
         Working, InSync

\* The store is lost with the snapshot, or neither is ever lost.
LostTogether == ~Durable \/ MaxRestarts = 0

LEMMA SyncNext ==
  ASSUME LostTogether
  PROVE  TypeOK /\ SyncInv /\ [Next]_vars => SyncInv'
<1> SUFFICES ASSUME TypeOK, SyncInv, [Next]_vars PROVE SyncInv'
  OBVIOUS
<1>1. ASSUME Working, Raise PROVE SyncInv'
  BY <1>1, RaiseKeepsSync
<1>2. CASE Delete
  BY <1>1, <1>2, DeletionKeepsSync DEF Delete, Working
<1>3. CASE Fetch
  BY <1>1, <1>3, FetchKeepsSync DEF Fetch, Working
<1>4. CASE ClearOldChunks
  BY <1>1, <1>4, ClearKeepsSync DEF ClearOldChunks, Working
<1>5. CASE StoreChunks
  BY <1>1, <1>5, StoringKeepsSync DEF StoreChunks, Working
<1>6. CASE AuditOutcome
  BY <1>1, <1>6, AuditKeepsSync DEF AuditOutcome, Working
<1>7. CASE Restart
  <2>1. ~Durable
    BY <1>7 DEF LostTogether, Restart, TypeOK
  <2> QED
    BY <1>7, <2>1, RestartKeepsSync
<1>8. CASE UNCHANGED vars
  BY <1>8
     DEF vars, disk, connector, scanning, processing, results, SyncInv, EventsAreDue,
         ContentIsNewest, AuditedIsDone, UnknownIsUnstored, OldIsKnown, OldIsScanned,
         OnlyUnappliedIsMissed, NoMixtures, Mixed, Unapplied, Due, Unstored, Working,
         InProgress, InSync
<1> QED
  BY <1>2, <1>3, <1>4, <1>5, <1>6, <1>7, <1>8, UsersKeepSync, ScanKeepsSync,
     DetectionKeepsSync, BeginKeepsSync, NextEventKeepsSync, EndSyncKeepsSync,
     HandlingKeepsSync DEF Next, Cycle

LEMMA SyncAlways ==
  ASSUME LostTogether
  PROVE  Spec => []SyncInv
BY SyncInit, SyncNext, SyncTypeCorrect, PTL DEF Spec

(* Between a scan and the processing of its events, whatever users do and  *)
(* whatever raises in the meantime, no change falls through unaccounted    *)
(* for: a document that the store holds differently from the disk is still *)
(* to be reported, or being processed, or its last event failed, was       *)
(* skipped or was dropped by a cycle that raised, if the store is lost     *)
(* with the snapshot.                                                      *)
THEOREM ScansMissNothing ==
  ASSUME LostTogether
  PROVE  Spec => []OnlyUnappliedIsMissed
<1>1. SyncInv => OnlyUnappliedIsMissed
  BY DEF SyncInv
<1> QED
  BY <1>1, SyncAlways, PTL

(* The chunks stored of a document are of one version, unless its last     *)
(* event was not applied, if the store is lost with the snapshot.          *)
THEOREM StoredVersionsAreUnmixed ==
  ASSUME LostTogether
  PROVE  Spec => []NoMixtures
<1>1. SyncInv => NoMixtures
  BY DEF SyncInv
<1> QED
  BY <1>1, SyncAlways, PTL
=============================================================================
