-------------------------- MODULE AuditTrailProofs --------------------------
(***************************************************************************)
(* Theorems about the audit log of ControlPlane and about its types, for   *)
(* every value of its constants: what the viewers of the log are shown,    *)
(* and what the log says of the requests.                                  *)
(*                                                                         *)
(* Four invariants: LinesInv, the log is what its backend makes of it;     *)
(* TurnInv, requests on the event loop run one after the other; PagesInv,  *)
(* what a viewer saw is the start of what matches; TrailInv, every line is *)
(* torn or the record of one request, which is over.                       *)
(***************************************************************************)
EXTENDS ControlPlaneProofs, RankingProofs

-----------------------------------------------------------------------------
(* The invariants.                                                         *)

\* A request that moves no more, one that does not hold the event loop, and
\* one whose client was told that it is done.
Over(k) == jobs[k].pc \in {"done", "gone"}
Past(k) == jobs[k].pc \notin {"new", "replace", "audit", "append"}
Answered(k) == jobs[k].op.kind # "view" /\ jobs[k].answer = "ok"

LogType ==
  [lines: Seq(Events \cup {Garbage}), torn: BOOLEAN, writer: {Free} \cup {{p} : p \in Hosts}]

\* The sqlite log is never torn; every request that came is one of a load.
LinesInv ==
  /\ log \in LogType
  /\ deployment.audit # "file" => ~Torn /\ log.writer = Free
  /\ \A j \in 1..Len(jobs) : \E load \in Loads : j \in 1..Len(load)

\* An answer comes last, after the change and its record; a request on the
\* event loop begins when those that came before it are through.
TurnInv ==
  \A j \in 1..Len(jobs) :
    /\ Answered(j) => Over(j)
    /\ jobs[j].pc \in {"audit", "append"} /\ jobs[j].op.kind # "call" => jobs[j].changed
    /\ jobs[j].pc = "new" => j = Len(jobs)
    /\ \A k \in 1..Len(jobs) : j < k /\ OnLoop(j) /\ OnLoop(k) /\ jobs[k].pc # "new" => Past(j)

WholeLines == {i \in DOMAIN log.lines : log.lines[i] # Garbage}
By(i) == log.lines[i].by
TornLines == DOMAIN log.lines \ WholeLines
Lost == {j \in DOMAIN jobs : Answered(j)} \ {By(i) : i \in WholeLines}

\* A whole line is the record of a request that is over.
Records(i) ==
  \E j \in 1..Len(jobs) :
    /\ log.lines[i] = Event(j)
    /\ Over(j)
    /\ jobs[j].op.kind # "call" => jobs[j].changed

\* No request has two records, those of the event loop come in order, and
\* for every one that is lost there is a torn line.
TrailInv ==
  /\ \A i \in WholeLines : Records(i)
  /\ \A i, k \in WholeLines : i < k =>
       /\ By(i) # By(k)
       /\ OnLoop(By(i)) /\ OnLoop(By(k)) => By(i) < By(k)
  /\ Cardinality(Lost) <= Cardinality(TornLines)

\* What a viewer saw are the first of the events that match.
Exact(j) ==
  \E n \in 0..Len(MatchingLines(jobs[j].op.filter)) :
    jobs[j].seen = SubSeq(MatchingLines(jobs[j].op.filter), 1, n)

PagesInv ==
  \A j \in 1..Len(jobs) :
    /\ jobs[j].seen \in Seq(Events)
    /\ jobs[j].op.kind = "view" => Exact(j)

-----------------------------------------------------------------------------
(* What is appended to the log.                                            *)

LogKept == log' \in LogType /\ (deployment.audit # "file" => ~Torn' /\ log'.writer = Free)

LEMMA LogFacts ==
  ASSUME LinesInv
  PROVE  /\ log.lines \in Seq(Events \cup {Garbage})
         /\ log.torn \in BOOLEAN
         /\ log.writer \in {Free} \cup {{p} : p \in Hosts}
         /\ Len(log.lines) \in Nat /\ DOMAIN log.lines = 1..Len(log.lines)
<1>1. /\ log.lines \in Seq(Events \cup {Garbage})
      /\ log.torn \in BOOLEAN
      /\ log.writer \in {Free} \cup {{p} : p \in Hosts}
  BY DEF LinesInv, LogType
<1> QED
  BY <1>1

LEMMA EventType ==
  ASSUME Shaped, LinesInv, NEW j \in 1..Len(jobs)
  PROVE  Event(j) \in Events /\ Event(j) # Garbage /\ Event(j).by = j
<1>1. PICK load \in Loads : j \in 1..Len(load)
  BY DEF LinesInv
<1> DEFINE E == [type: {"query", "admin_event"}, by: {j},
                 api_key_id: AuditIds \cup {"none", "anonymous"}]
<1>2. E \subseteq Events
  BY <1>1, EventAssumption
<1>3. jobs[j].audit_id \in AuditIds \cup {"none", "anonymous"}
  BY JobFacts DEF Callers
<1>4. QueryEvent(j) \in E /\ AdminEvent(j) \in E
  BY <1>3 DEF QueryEvent, AdminEvent
<1>5. Event(j) \in E
  BY <1>4 DEF Event
<1>6. \A e \in E : e.type \in {"query", "admin_event"} /\ e.by = j
  OBVIOUS
<1> HIDE DEF E
<1>7. Event(j) # Garbage /\ Event(j).by = j
  BY <1>5, <1>6 DEF Garbage
<1> QED
  BY <1>2, <1>5, <1>7

\* What a request appends: its record, unless it is glued to a torn line.
Line(j) == IF log.torn THEN Garbage ELSE Event(j)
Appends(j) == log'.lines = Append(log.lines, Line(j))

LEMMA EndKeepsLog ==
  ASSUME Shaped, LinesInv, NEW j \in 1..Len(jobs), EndAppend(Event(j)),
         deployment.audit = "file"
  PROVE  LogKept /\ Appends(j)
<1>1. log' = [lines |-> Append(log.lines, Line(j)), torn |-> FALSE, writer |-> Free]
  BY DEF EndAppend, Line
<1>2. Line(j) \in Events \cup {Garbage}
  BY EventType DEF Line
<1>3. Append(log.lines, Line(j)) \in Seq(Events \cup {Garbage})
  BY <1>2, LogFacts
<1> QED
  BY <1>1, <1>3 DEF LogKept, Appends, LogType

LEMMA InsertKeepsLog ==
  ASSUME Shaped, LinesInv, NEW j \in 1..Len(jobs), InsertEvent(Event(j)),
         deployment.audit # "file"
  PROVE  LogKept /\ Appends(j)
<1>1. ~log.torn /\ log.writer = Free /\ \A i \in 1..Len(log.lines) : log.lines[i] # Garbage
  BY DEF LinesInv, Torn
<1> DEFINE lines == Append(log.lines, Event(j))
<1>2. /\ log.lines \in Seq(Events \cup {Garbage})
      /\ Event(j) \in Events /\ Event(j) # Garbage
  BY EventType, LogFacts
<1>3. /\ lines \in Seq(Events \cup {Garbage})
      /\ \A i \in 1..Len(lines) : lines[i] # Garbage
  BY <1>1, <1>2
<1>4. log' = [log EXCEPT !.lines = lines]
  BY DEF InsertEvent
<1> HIDE DEF lines
<1>5. log' \in LogType /\ log'.lines = lines /\ log'.torn = log.torn /\ log'.writer = log.writer
  BY <1>3, <1>4 DEF LogType, LinesInv
<1>6. LogKept
  BY <1>1, <1>3, <1>5 DEF LogKept, Torn
<1> QED
  BY <1>1, <1>5, <1>6 DEF Appends, Line, lines

LEMMA BeginKeepsLog ==
  ASSUME LinesInv, NEW p \in Hosts, BeginAppend(p), deployment.audit = "file"
  PROVE  LogKept /\ log'.lines = log.lines
BY DEF BeginAppend, LinesInv, LogType, LogKept

LEMMA BreakKeepsLog ==
  ASSUME LinesInv, BreakAppend, deployment.audit = "file"
  PROVE  LogKept /\ log'.lines = log.lines
<1> PICK torn \in {log.torn, TRUE} : log' = [log EXCEPT !.torn = torn, !.writer = Free]
  BY DEF BreakAppend
<1>1. torn \in BOOLEAN
  BY LogFacts
<1> QED
  BY <1>1 DEF LinesInv, LogType, LogKept

\* A request ends and its record is appended, the last thing it does; or
\* the lines of the log stay, and no request but of a viewer is answered.
Concludes(j) ==
  /\ jobs[j].op.kind # "view"
  /\ jobs[j].pc \in {"audit", "append"}
  /\ \E answer \in {"ok", "error"} :
       Moved(j, "done", answer, jobs[j].changed, jobs[j].audit_id)
  /\ Appends(j)

Silent(j) ==
  /\ log'.lines = log.lines
  /\ jobs[j].op.kind # "view" /\ jobs'[j].answer = "ok" => jobs[j].answer = "ok"

LEMMA RecordCases ==
  ASSUME Shaped, LinesInv, NEW j \in 1..Len(jobs), Record(j)
  PROVE  LogKept /\ (Concludes(j) \/ Silent(j))
<1>1. CASE deployment.audit = "file" /\ AtAudit(j, "audit") /\ BeginAppend(HostOf(j)) /\ Goto(j, "append")
  <2>1. LogKept /\ log'.lines = log.lines
    BY <1>1, HostsAreHosts, BeginKeepsLog
  <2>2. Moved(j, "append", jobs[j].answer, jobs[j].changed, jobs[j].audit_id)
    BY <1>1, GotoMoves DEF Places
  <2> QED
    BY <2>1, <2>2 DEF Silent, Moved
<1>2. CASE /\ Answer(j, "ok")
           /\ AtAudit(j, "audit") \/ AtAudit(j, "append")
           /\ \/ deployment.audit = "file" /\ EndAppend(Event(j))
              \/ deployment.audit # "file" /\ InsertEvent(Event(j))
  <2>1. LogKept /\ Appends(j)
    BY <1>2, EndKeepsLog, InsertKeepsLog
  <2>2. Moved(j, "done", "ok", jobs[j].changed, jobs[j].audit_id)
    BY <1>2, AnswerMoves DEF Answers
  <2>3. jobs[j].op.kind # "view" /\ jobs[j].pc \in {"audit", "append"}
    BY <1>2 DEF AtAudit, At
  <2> QED
    BY <2>1, <2>2, <2>3 DEF Concludes
<1> QED
  BY <1>1, <1>2 DEF Record

LEMMA ServeLogCases ==
  ASSUME Shaped, KeysInv, LinesInv, NEW j \in 1..Len(jobs), Serve(j)
  PROVE  LogKept /\ (Concludes(j) \/ Silent(j))
<1>1. ASSUME UNCHANGED log PROVE LogKept /\ log'.lines = log.lines
  BY <1>1 DEF LogKept, LinesInv, Torn
<1>2. CASE Record(j)
  BY <1>2, RecordCases
<1>3. CASE RecordFails(j)
  <2>1. LogKept /\ (log'.lines = log.lines \/ Appends(j))
    BY <1>1, <1>3, BreakKeepsLog, EndKeepsLog, InsertKeepsLog DEF RecordFails
  <2>2. Moved(j, "done", "error", jobs[j].changed, jobs[j].audit_id)
    BY <1>3, AnswerMoves DEF RecordFails, Answers
  <2>3. jobs[j].op.kind # "view" /\ jobs[j].pc \in {"audit", "append"}
    BY <1>3 DEF RecordFails, AtAudit, At
  <2> QED
    BY <2>1, <2>2, <2>3 DEF Silent, Concludes, Moved
<1>4. CASE Refuse(j) \/ StoreFails(j) \/ ReadFails(j)
  <2>1. LogKept /\ log'.lines = log.lines
    BY <1>1, <1>4 DEF Refuse, StoreFails, ReadFails, Stores
  <2>2. jobs'[j].answer \in {"error", "garbled", "refused"}
    BY <1>4, AnswerMoves DEF Refuse, StoreFails, ReadFails, Answers, Moved
  <2> QED
    BY <2>1, <2>2 DEF Silent
<1>5. CASE Put(j) \/ Create(j) \/ Revoke(j)
  <2>1. UNCHANGED log
    BY <1>5 DEF Put, Create, Revoke
  <2>2. jobs'[j].answer = jobs[j].answer
    BY <1>5, PutCases, CreateCases, RevokeCases DEF PutsTmp, PutsFile, PutsRow, Writes
  <2> QED
    BY <1>1, <2>1, <2>2 DEF Silent
<1>6. CASE ReadPage(j)
  <2>1. UNCHANGED log /\ jobs[j].op.kind = "view"
    BY <1>6 DEF ReadPage, Stores, At
  <2> QED
    BY <1>1, <2>1 DEF Silent
<1>7. CASE Verify(j)
  <2>1. UNCHANGED log
    BY <1>7 DEF Verify, Stores
  <2>2. jobs'[j].answer \in {jobs[j].answer, "refused"}
    BY <1>7, Resolved, VerifyIsQuiet
  <2> QED
    BY <1>1, <2>1, <2>2 DEF Silent
<1> QED
  BY <1>2, <1>3, <1>4, <1>5, <1>6, <1>7 DEF Serve

LEMMA LinesInit ==
  Init => LinesInv
<1> SUFFICES ASSUME Init PROVE LinesInv
  OBVIOUS
<1>1. log \in LogType /\ ~Torn /\ log.writer = Free
  BY DEF Init, LogInit, LogType, Torn
<1>2. Len(jobs) = 0
  BY DEF Init
<1> QED
  BY <1>1, <1>2 DEF LinesInv

\* A step that serves no request appends nothing to the log.
LEMMA ElsewhereLogStays ==
  ASSUME Shaped, KeysInv, GateInv, LinesInv,
         \/ \E p \in Hosts : Start(p) \/ Boot(p) \/ Crash(p)
         \/ \E op \in Expected : Arrive(op)
         \/ UNCHANGED vars
  PROVE  LogKept /\ log'.lines = log.lines /\ UNCHANGED deployment
<1>1. ASSUME UNCHANGED log PROVE LogKept /\ log'.lines = log.lines
  BY <1>1 DEF LogKept, LinesInv, Torn
<1>2. ASSUME NEW p \in Hosts, Start(p) PROVE UNCHANGED <<log, deployment>>
  BY <1>2 DEF Start, Enter, Fixed, Stores
<1>3. ASSUME NEW p \in Hosts, Boot(p) PROVE UNCHANGED <<log, deployment>>
  <2>1. UNCHANGED log
    BY <1>3 DEF Boot, OpenConfig, SeedFile, SeedDatabase, Bind, OpenKeys, BuildVerifier, Stores
  <2> QED
    BY <1>3, <2>1, BootKeepsKeys
<1>4. ASSUME NEW p \in Hosts, Crash(p)
      PROVE  LogKept /\ log'.lines = log.lines /\ UNCHANGED deployment
  <2>1. UNCHANGED deployment
    BY <1>4 DEF Crash
  <2>2. CASE log.writer = {p}
    <3>1. deployment.audit = "file"
      BY <2>2 DEF LinesInv, Free
    <3> QED
      BY <1>4, <2>1, <2>2, <3>1, BreakKeepsLog DEF Crash
  <2>3. CASE log.writer # {p}
    BY <1>1, <1>4, <2>1, <2>3 DEF Crash
  <2> QED
    BY <2>2, <2>3
<1>5. ASSUME NEW op \in Expected, Arrive(op) PROVE UNCHANGED <<log, deployment>>
  BY <1>5, ArriveMoves DEF Stores, Idle, Fixed
<1> QED
  BY <1>1, <1>2, <1>3, <1>4, <1>5 DEF vars

-----------------------------------------------------------------------------
(* Requests take their turns.                                              *)

\* Every request that came is one of a load.
LEMMA LinesNext ==
  KeyPlaneInv /\ LinesInv /\ [Next]_vars => LinesInv'
<1> SUFFICES ASSUME Shaped, KeysInv, GateInv, LinesInv, [Next]_vars PROVE LinesInv'
  BY DEF KeyPlaneInv
<1> USE DEF LinesInv
<1>1. ASSUME LogKept, UNCHANGED deployment, Len(jobs') = Len(jobs) PROVE LinesInv'
  BY <1>1 DEF LogKept
<1>2. ASSUME NEW p \in Hosts, Start(p) \/ Boot(p) PROVE UNCHANGED jobs
  BY <1>2, BootKeepsKeys DEF Start, Enter
<1>3. ASSUME NEW p \in Hosts, Crash(p) PROVE Len(jobs') = Len(jobs)
  BY <1>3, CrashMoves DEF Cut
<1>4. ASSUME NEW op \in Expected, Arrive(op) PROVE LinesInv'
  <2>1. LogKept /\ UNCHANGED deployment
    BY <1>4, ElsewhereLogStays
  <2>2. Len(jobs') = Len(jobs) + 1 /\ Len(jobs) \in Nat
    BY <1>4, ArriveMoves, JobFacts DEF Arrived
  <2>3. PICK load \in Loads : Len(jobs) < Len(load)
    BY DEF Expected
  <2>4. Len(load) \in Nat
    BY BoundAssumption
  <2>5. Len(jobs) + 1 \in 1..Len(load)
    BY <2>2, <2>3, <2>4
  <2>6. \A k \in 1..Len(jobs') : k \in 1..Len(jobs) \/ k = Len(jobs) + 1
    BY <2>2
  <2> QED
    BY <2>1, <2>5, <2>6 DEF LogKept
<1>5. ASSUME NEW j \in 1..Len(jobs), Serve(j) PROVE LinesInv'
  <2>1. LogKept
    BY <1>5, ServeLogCases
  <2>2. Len(jobs') = Len(jobs) /\ UNCHANGED deployment
    BY <1>5, ServeCases, PutCases, CreateCases, RevokeCases
       DEF Quiet, PutsTmp, PutsFile, PutsRow, Writes, Others, Running, Idle, Fixed
  <2> QED
    BY <1>1, <2>1, <2>2
<1>6. CASE UNCHANGED vars
  BY <1>1, <1>6, ElsewhereLogStays DEF vars
<1> QED
  BY <1>1, <1>2, <1>3, <1>4, <1>5, <1>6, ElsewhereLogStays, NextCases

\* What every step of a request does to it.
LEMMA ServeMoves ==
  ASSUME Shaped, KeysInv, NEW j \in 1..Len(jobs), Serve(j)
  PROVE  /\ Running(j) /\ Others(j)
         /\ jobs'[j].pc # "new"
         /\ jobs[j].changed => jobs'[j].changed
         /\ OnLoop(j) /\ Past(j) => Past(j)'
         /\ jobs'[j].pc \in {"audit", "append"} /\ jobs[j].op.kind # "call" =>
              jobs'[j].changed \/ jobs[j].pc \in {"audit", "append"}
<1>1. /\ Running(j)
      /\ Quiet(j) \/ Put(j) \/ Create(j) \/ Revoke(j)
  BY ServeCases
<1>2. CASE Quiet(j)
  BY <1>1, <1>2 DEF Quiet, Others, Running, OnLoop, Past
<1>3. CASE Put(j) \/ Create(j) \/ Revoke(j)
  <2>1. /\ Others(j) /\ jobs[j].pc \in {"new", "replace"}
        /\ \/ jobs'[j].pc = "replace" /\ jobs'[j].changed = jobs[j].changed
           \/ jobs'[j].pc = "audit" /\ jobs'[j].changed = TRUE
    BY <1>3, PutCases, CreateCases, RevokeCases DEF PutsTmp, PutsFile, PutsRow, Writes
  <2> QED
    BY <1>1, <2>1 DEF Past
<1> QED
  BY <1>1, <1>2, <1>3

LEMMA ServeKeepsTurns ==
  ASSUME Shaped, KeysInv, LinesInv, TurnInv, NEW j \in 1..Len(jobs), Serve(j)
  PROVE  TurnInv'
<1>1. /\ Running(j) /\ Others(j)
      /\ jobs'[j].pc # "new"
      /\ OnLoop(j) /\ Past(j) => Past(j)'
      /\ jobs'[j].pc \in {"audit", "append"} /\ jobs[j].op.kind # "call" => jobs'[j].changed
  BY ServeMoves DEF TurnInv
<1>2. Len(jobs') = Len(jobs) /\ Len(jobs) \in Nat
  BY <1>1, JobFacts DEF Others
<1>3. ASSUME NEW k \in 1..Len(jobs), k # j
      PROVE  /\ jobs'[k] = jobs[k]
             /\ Over(k)' <=> Over(k)
             /\ Past(k)' <=> Past(k)
             /\ Answered(k)' <=> Answered(k)
             /\ OnLoop(k)' <=> OnLoop(k)
  BY <1>1, <1>3 DEF Others, Over, Past, Answered, OnLoop
<1>4. (OnLoop(j)' <=> OnLoop(j)) /\ (Answered(j)' => Over(j)')
  <2>1. Concludes(j) \/ Silent(j)
    BY ServeLogCases
  <2>2. CASE Concludes(j)
    BY <1>1, <2>2 DEF Concludes, Moved, Over, OnLoop, Others
  <2>3. CASE Silent(j)
    <3>1. ~Answered(j)
      BY <1>1 DEF TurnInv, Over, Running
    <3> QED
      BY <1>1, <2>3, <3>1 DEF Silent, Answered, OnLoop, Others
  <2> QED
    BY <2>1, <2>2, <2>3
\* Whoever runs on the loop finds those before it past.
<1>5. ASSUME NEW k \in 1..Len(jobs), k < j, OnLoop(k), OnLoop(j)
      PROVE  Past(k)
  <2>1. CASE jobs[j].pc # "new"
    BY <1>5, <2>1 DEF TurnInv
  <2>2. CASE jobs[j].pc = "new"
    <3>1. jobs[k].pc # "new"
      BY <1>2, <1>5, <2>2 DEF TurnInv
    <3>2. HostOf(k) = HostOf(j)
      BY <1>5 DEF OnLoop, HostOf
    <3>3. ~Holds(k)
      BY <1>1, <1>2, <1>5, <3>2, JobFacts DEF Running, MayRun
    <3> QED
      BY <1>5, <3>1, <3>3 DEF Holds, Past
  <2> QED
    BY <2>1, <2>2
<1>6. ASSUME NEW i \in 1..Len(jobs), NEW k \in 1..Len(jobs), i < k,
             OnLoop(i)', OnLoop(k)', jobs'[k].pc # "new"
      PROVE  Past(i)'
  <2>1. CASE k = j
    BY <1>2, <1>3, <1>4, <1>5, <1>6, <2>1
  <2>2. CASE k # j
    <3>1. Past(i)
      BY <1>3, <1>4, <1>6, <2>2 DEF TurnInv
    <3> QED
      BY <1>1, <1>3, <1>4, <1>6, <3>1
  <2> QED
    BY <2>1, <2>2
<1>7. ASSUME NEW k \in 1..Len(jobs)
      PROVE  /\ Answered(k)' => Over(k)'
             /\ jobs'[k].pc \in {"audit", "append"} /\ jobs'[k].op.kind # "call" => jobs'[k].changed
             /\ jobs'[k].pc = "new" => k = Len(jobs')
  <2>1. CASE k = j
    BY <1>1, <1>4, <2>1 DEF Others
  <2>2. CASE k # j
    BY <1>2, <1>3, <2>2 DEF TurnInv
  <2> QED
    BY <2>1, <2>2
<1> QED
  BY <1>2, <1>6, <1>7 DEF TurnInv

LEMMA TurnInit ==
  Init => TurnInv
BY DEF Init, TurnInv

LEMMA TurnNext ==
  KeyPlaneInv /\ LinesInv /\ TurnInv /\ [Next]_vars => TurnInv'
<1> SUFFICES ASSUME Shaped, KeysInv, GateInv, LinesInv, TurnInv, [Next]_vars PROVE TurnInv'
  BY DEF KeyPlaneInv
<1>1. ASSUME UNCHANGED jobs PROVE TurnInv'
  BY <1>1 DEF TurnInv, Answered, Over, Past, OnLoop
<1>2. ASSUME NEW p \in Hosts, Start(p) \/ Boot(p) PROVE TurnInv'
  BY <1>1, <1>2, BootKeepsKeys DEF Start, Enter
<1>3. ASSUME NEW p \in Hosts, Crash(p) PROVE TurnInv'
  <2>1. Cut(p)
    BY <1>3, CrashMoves
  <2>2. \A k \in 1..Len(jobs) :
          /\ Over(k) => Over(k)'
          /\ Past(k) => Past(k)'
          /\ Answered(k)' <=> Answered(k)
          /\ OnLoop(k)' <=> OnLoop(k)
    BY <2>1 DEF Cut, Over, Past, Answered, OnLoop
  <2>3. ASSUME NEW i \in 1..Len(jobs), NEW k \in 1..Len(jobs), i < k,
               OnLoop(i), OnLoop(k), jobs'[k].pc # "new"
        PROVE  Past(i)'
    <3>1. HostOf(i) = HostOf(k)
      BY <2>3 DEF HostOf, OnLoop
    <3>2. CASE HostOf(k) = p
      BY <2>1, <3>1, <3>2 DEF Cut, Past
    <3>3. CASE HostOf(k) # p
      BY <2>1, <2>2, <2>3, <3>3 DEF Cut, TurnInv
    <3> QED
      BY <3>2, <3>3
  <2> QED
    BY <2>1, <2>2, <2>3 DEF Cut, TurnInv
<1>4. ASSUME NEW op \in Expected, Arrive(op) PROVE TurnInv'
  <2>1. Arrived(op) /\ Len(jobs) \in Nat
    BY <1>4, ArriveMoves, JobFacts
  <2>0. PICK n \in Nat : n = Len(jobs) + 1
    BY <2>1
  <2>2. /\ Len(jobs') = n
        /\ \A k \in 1..Len(jobs) : jobs'[k] = jobs[k] /\ jobs[k].pc # "new"
        /\ jobs'[n].pc = "new" /\ jobs'[n].answer = "none"
    BY <2>0, <2>1 DEF Arrived
  <2>3. \A k \in 1..n : k \in 1..Len(jobs) \/ k = n
    BY <2>0, <2>1
  <2>4. \A k \in 1..Len(jobs) :
          /\ Over(k)' <=> Over(k)
          /\ Past(k)' <=> Past(k)
          /\ Answered(k)' <=> Answered(k)
          /\ OnLoop(k)' <=> OnLoop(k)
    BY <2>2 DEF Over, Past, Answered, OnLoop
  <2>5. \A i, k \in 1..n : i < k /\ jobs'[k].pc # "new" => i \in 1..Len(jobs) /\ k \in 1..Len(jobs)
    BY <2>0, <2>1, <2>2, <2>3
  <2>6. ~Answered(n)'
    BY <2>2 DEF Answered
  <2> QED
    BY <2>2, <2>3, <2>4, <2>5, <2>6 DEF TurnInv
<1>5. CASE UNCHANGED vars
  BY <1>1, <1>5 DEF vars
<1> QED
  BY <1>2, <1>3, <1>4, <1>5, ServeKeepsTurns, NextCases

-----------------------------------------------------------------------------
(* Pages.                                                                  *)

LEMMA ReplaceSeen ==
  ASSUME Shaped, NEW j \in 1..Len(jobs), NEW n, jobs' = [jobs EXCEPT ![j] = n],
         n.seen = jobs[j].seen
  PROVE  \A k \in 1..Len(jobs) : jobs'[k].seen = jobs[k].seen
<1> PICK Pages : jobs \in Seq(JobOf(Pages))
  BY DEF Shaped
<1>1. jobs'[j] = n /\ \A k \in 1..Len(jobs) : k # j => jobs'[k] = jobs[k]
  OBVIOUS
<1> QED
  BY <1>1

\* Only get_audit reads.
LEMMA SeenStays ==
  ASSUME Shaped, NEW j \in 1..Len(jobs), Serve(j), ~ReadPage(j)
  PROVE  \A k \in 1..Len(jobs) : jobs'[k].seen = jobs[k].seen
<1> PICK Pages : jobs[j] \in JobOf(Pages)
  BY JobRecord
<1>1. ASSUME NEW answer, Answer(j, answer)
      PROVE  \A k \in 1..Len(jobs) : jobs'[k].seen = jobs[k].seen
  <2> DEFINE n == [jobs[j] EXCEPT !.pc = "done", !.answer = answer]
  <2>1. n.seen = jobs[j].seen
    BY DEF JobOf
  <2>2. jobs' = [jobs EXCEPT ![j] = n]
    BY <1>1 DEF Answer
  <2> HIDE DEF n
  <2> QED
    BY <2>1, <2>2, ReplaceSeen
<1>2. ASSUME NEW pc, Goto(j, pc)
      PROVE  \A k \in 1..Len(jobs) : jobs'[k].seen = jobs[k].seen
  <2> DEFINE n == [jobs[j] EXCEPT !.pc = pc]
  <2>1. n.seen = jobs[j].seen
    BY DEF JobOf
  <2>2. jobs' = [jobs EXCEPT ![j] = n]
    BY <1>2 DEF Goto
  <2> HIDE DEF n
  <2> QED
    BY <2>1, <2>2, ReplaceSeen
<1>3. ASSUME NEW pc, Change(j, pc)
      PROVE  \A k \in 1..Len(jobs) : jobs'[k].seen = jobs[k].seen
  <2> DEFINE n == [jobs[j] EXCEPT !.pc = pc, !.changed = TRUE]
  <2>1. n.seen = jobs[j].seen
    BY DEF JobOf
  <2>2. jobs' = [jobs EXCEPT ![j] = n]
    BY <1>3 DEF Change
  <2> HIDE DEF n
  <2> QED
    BY <2>1, <2>2, ReplaceSeen
<1>4. ASSUME NEW id, jobs' = [jobs EXCEPT ![j] = [@ EXCEPT !.pc = "audit", !.audit_id = id]]
      PROVE  \A k \in 1..Len(jobs) : jobs'[k].seen = jobs[k].seen
  <2> DEFINE n == [jobs[j] EXCEPT !.pc = "audit", !.audit_id = id]
  <2>1. n.seen = jobs[j].seen
    BY DEF JobOf
  <2>2. jobs' = [jobs EXCEPT ![j] = n]
    BY <1>4
  <2> HIDE DEF n
  <2> QED
    BY <2>1, <2>2, ReplaceSeen
<1>5. CASE Refuse(j) \/ StoreFails(j) \/ Record(j) \/ RecordFails(j) \/ ReadFails(j)
  BY <1>1, <1>2, <1>5 DEF Refuse, StoreFails, Record, RecordFails, ReadFails
<1>6. CASE Put(j) \/ Create(j) \/ Revoke(j)
  BY <1>2, <1>3, <1>6 DEF Put, Create, Revoke
<1>7. CASE Verify(j)
  BY <1>1, <1>4, <1>7 DEF Verify
<1> QED
  BY <1>5, <1>6, <1>7 DEF Serve

LEMMA PageIsRead ==
  ASSUME Shaped, NEW j \in 1..Len(jobs), ReadPage(j)
  PROVE  /\ jobs'[j].seen
              = jobs[j].seen \o QueryLogs(jobs[j].op.filter, Len(jobs[j].seen), PageSize)
         /\ \A k \in 1..Len(jobs) : k # j => jobs'[k] = jobs[k]
         /\ jobs[j].op.kind = "view" /\ UNCHANGED log
         /\ deployment.audit = "file" => ~Torn
<1> DEFINE seen == jobs[j].seen \o QueryLogs(jobs[j].op.filter, Len(jobs[j].seen), PageSize)
           more == [jobs[j] EXCEPT !.seen = seen, !.pc = "page"]
           last == [jobs[j] EXCEPT !.seen = seen, !.pc = "done", !.answer = "ok"]
<1>1. PICK Pages : jobs \in Seq(JobOf(Pages))
  BY DEF Shaped
<1>2. jobs' = [jobs EXCEPT ![j] = more] \/ jobs' = [jobs EXCEPT ![j] = last]
  BY DEF ReadPage
<1> HIDE DEF seen
<1>3. more.seen = seen /\ last.seen = seen
  <2>1. jobs[j] \in JobOf(Pages)
    BY <1>1
  <2> QED
    BY <2>1 DEF JobOf
<1> HIDE DEF more, last
<1>4. jobs'[j].seen = seen /\ \A k \in 1..Len(jobs) : k # j => jobs'[k] = jobs[k]
  BY <1>1, <1>2, <1>3
<1> QED
  BY <1>4 DEF seen, ReadPage, At, Stores

LEMMA MatchingType ==
  ASSUME NEW T, log.lines \in Seq(T), NEW f
  PROVE  MatchingLines(f) \in Seq(T)
<1> DEFINE P == {i \in DOMAIN log.lines : Matches(log.lines[i], f)}
<1>1. P \in SUBSET (1..Len(log.lines))
  OBVIOUS
<1> HIDE DEF P
<1>2. AtPositions(log.lines, P) \in Seq(T)
  BY <1>1, AtPositionsKeepsOrder
<1> QED
  BY <1>2 DEF P, MatchingLines

\* What matches starts with what matched before.
LEMMA MatchesGrow ==
  ASSUME NEW T, log.lines \in Seq(T), NEW e \in T, NEW f, log'.lines = Append(log.lines, e)
  PROVE  MatchingLines(f)' \in {MatchingLines(f), Append(MatchingLines(f), e)}
<1> PICK n \in Nat : n = Len(log.lines)
  OBVIOUS
<1> DEFINE s == log.lines
           P == {i \in DOMAIN s : Matches(s[i], f)}
           longer == Append(s, e)
           Q == {i \in DOMAIN longer : Matches(longer[i], f)}
<1>1. /\ DOMAIN s = 1..n /\ DOMAIN longer = 1..n + 1
      /\ \A i \in 1..n : longer[i] = s[i]
  OBVIOUS
<1>2. Q = P \/ Q = P \cup {n + 1}
  <2>1. \A i \in 1..n : i \in Q <=> i \in P
    BY <1>1
  <2>2. \A i \in Q \cup P : i \in 1..n \/ i = n + 1
    BY <1>1
  <2>3. n + 1 \notin P
    BY <1>1
  <2> HIDE DEF P, Q
  <2>4. CASE n + 1 \in Q
    <3>1. \A i : i \in Q <=> i \in P \cup {n + 1}
      BY <2>1, <2>2, <2>4
    <3> QED
      BY <3>1
  <2>5. CASE n + 1 \notin Q
    <3>1. \A i : i \in Q <=> i \in P
      BY <2>1, <2>2, <2>3, <2>5
    <3> QED
      BY <3>1
  <2> QED
    BY <2>4, <2>5
<1>3. P \in SUBSET (1..Len(s)) /\ s \in Seq(T)
  BY <1>1
<1> HIDE DEF P, Q
<1>4. /\ AtPositions(longer, P) = AtPositions(s, P)
      /\ AtPositions(longer, P \cup {Len(s) + 1}) = Append(AtPositions(s, P), e)
  BY <1>3, AtPositionsGrows
<1>5. AtPositions(longer, Q) \in {AtPositions(s, P), Append(AtPositions(s, P), e)}
  BY <1>2, <1>4
<1>6. MatchingLines(f) = AtPositions(s, P)
  BY DEF MatchingLines, P
<1>7. MatchingLines(f)' = AtPositions(longer, Q)
  BY DEF MatchingLines, Q
<1> QED
  BY <1>5, <1>6, <1>7

LEMMA PrefixGrows ==
  ASSUME NEW T, NEW s \in Seq(T), NEW e \in T, NEW n \in 0..Len(s)
  PROVE  n \in 0..Len(Append(s, e)) /\ SubSeq(Append(s, e), 1, n) = SubSeq(s, 1, n)
<1>1. \A i \in 1..n : Append(s, e)[i] = s[i]
  OBVIOUS
<1> QED
  BY <1>1

LEMMA PrefixExtends ==
  ASSUME NEW T, NEW s \in Seq(T), NEW n \in 0..Len(s), NEW m \in n..Len(s)
  PROVE  SubSeq(s, 1, n) \o SubSeq(s, n + 1, m) = SubSeq(s, 1, m)
OBVIOUS

\* A page later, a viewer that saw a prefix of what matches sees a longer one.
LEMMA PageExtends ==
  ASSUME NEW T, NEW s \in Seq(T), NEW n \in 0..Len(s)
  PROVE  LET seen == SubSeq(s, 1, n) IN
         \E m \in 0..Len(s) : seen \o Page(s, Len(seen), PageSize) = SubSeq(s, 1, m)
<1> DEFINE last == IF n + PageSize < Len(s) THEN n + PageSize ELSE Len(s)
           seen == SubSeq(s, 1, n)
<1>1. last \in n..Len(s) /\ Len(s) \in Nat
  BY BoundAssumption
<1>2. Len(seen) = n
  OBVIOUS
<1>3. Page(s, n, PageSize) = SubSeq(s, n + 1, last)
  BY DEF Page
<1> HIDE DEF last
<1>4. seen \o SubSeq(s, n + 1, last) = SubSeq(s, 1, last)
  BY <1>1, PrefixExtends
<1> HIDE DEF seen
<1>5. last \in 0..Len(s)
  BY <1>1
<1>6. seen \o Page(s, Len(seen), PageSize) = SubSeq(s, 1, last)
  BY <1>2, <1>3, <1>4
<1>7. \E m \in 0..Len(s) : seen \o Page(s, Len(seen), PageSize) = SubSeq(s, 1, m)
  BY <1>5, <1>6
<1> QED
  BY <1>7 DEF seen

\* Whether the log stays or grows, what was seen stays exact.
LEMMA ExactStays ==
  ASSUME Shaped, LinesInv, NEW e \in Events \cup {Garbage},
         log'.lines \in {log.lines, Append(log.lines, e)},
         NEW k \in 1..Len(jobs), Exact(k),
         jobs'[k].op = jobs[k].op, jobs'[k].seen = jobs[k].seen
  PROVE  Exact(k)'
<1> PICK f : f = jobs[k].op.filter
  OBVIOUS
<1> DEFINE M == MatchingLines(f)
<1>1. PICK n \in 0..Len(M) : jobs[k].seen = SubSeq(M, 1, n)
  BY DEF Exact
<1>2. M \in Seq(Events \cup {Garbage})
  BY LogFacts, MatchingType
<1>3. M' \in {M, Append(M, e)}
  <2>1. CASE log'.lines = log.lines
    BY <2>1 DEF MatchingLines
  <2>2. CASE log'.lines = Append(log.lines, e)
    BY <2>2, LogFacts, MatchesGrow
  <2> QED
    BY <2>1, <2>2
<1> HIDE DEF M
<1>4. n \in 0..Len(M') /\ SubSeq(M', 1, n) = SubSeq(M, 1, n)
  BY <1>2, <1>3, PrefixGrows
<1>5. jobs'[k].seen = SubSeq(M', 1, n)
  BY <1>1, <1>4
<1> QED
  BY <1>4, <1>5 DEF Exact, M

LEMMA PageKeepsExact ==
  ASSUME Shaped, KeysInv, LinesInv, NEW j \in 1..Len(jobs), ReadPage(j),
         Exact(j), jobs'[j].op = jobs[j].op
  PROVE  Exact(j)' /\ jobs'[j].seen \in Seq(Events)
<1> PICK f : f = jobs[j].op.filter
  OBVIOUS
<1> DEFINE M == MatchingLines(f)
<1>1. PICK n \in 0..Len(M) : jobs[j].seen = SubSeq(M, 1, n)
  BY DEF Exact
<1>2. /\ jobs'[j].seen = jobs[j].seen \o Page(M, Len(jobs[j].seen), PageSize)
      /\ UNCHANGED log /\ (deployment.audit = "file" => ~Torn)
  BY PageIsRead DEF QueryLogs
<1>3. \A i \in 1..Len(log.lines) : log.lines[i] # Garbage
  BY <1>2 DEF LinesInv, Torn
<1>4. log.lines \in Seq(Events)
  <2>1. /\ log.lines \in Seq(Events \cup {Garbage}) /\ Len(log.lines) \in Nat
        /\ log.lines = [i \in 1..Len(log.lines) |-> log.lines[i]]
    BY LogFacts
  <2>2. \A i \in 1..Len(log.lines) : log.lines[i] \in Events
    BY <1>3, <2>1
  <2> QED
    BY <2>1, <2>2
<1>5. M \in Seq(Events)
  BY <1>4, MatchingType
<1>6. M' = M
  BY <1>2 DEF MatchingLines
<1> HIDE DEF M
<1>7. PICK m \in 0..Len(M) : jobs'[j].seen = SubSeq(M, 1, m)
  BY <1>1, <1>2, <1>5, PageExtends
<1>8. SubSeq(M, 1, m) \in Seq(Events)
  BY <1>5
<1>9. Exact(j)'
  BY <1>6, <1>7 DEF Exact, M
<1> QED
  BY <1>7, <1>8, <1>9

LEMMA PagesInit ==
  Init => PagesInv
BY DEF Init, PagesInv

\* A step in which nobody reads.
LEMMA NobodyReads ==
  ASSUME Shaped, LinesInv, PagesInv, NEW e \in Events \cup {Garbage},
         log'.lines \in {log.lines, Append(log.lines, e)},
         \A k \in 1..Len(jobs) : jobs'[k].op = jobs[k].op /\ jobs'[k].seen = jobs[k].seen
  PROVE  \A k \in 1..Len(jobs) :
           /\ jobs'[k].seen \in Seq(Events)
           /\ jobs'[k].op.kind = "view" => Exact(k)'
BY ExactStays DEF PagesInv

LEMMA ServeKeepsPages ==
  ASSUME Shaped, KeysInv, LinesInv, PagesInv, NEW j \in 1..Len(jobs), Serve(j)
  PROVE  PagesInv'
<1>1. Others(j)
  BY ServeMoves
<1>2. \A k \in 1..Len(jobs) : jobs'[k].op = jobs[k].op
  BY <1>1 DEF Others
<1>3. CASE ~ReadPage(j)
  <2>1. \A k \in 1..Len(jobs) : jobs'[k].seen = jobs[k].seen
    BY <1>3, SeenStays
  <2>2. \E e \in Events \cup {Garbage} : log'.lines \in {log.lines, Append(log.lines, e)}
    <3>1. log'.lines = log.lines \/ log'.lines = Append(log.lines, Line(j))
      BY ServeLogCases DEF Concludes, Silent, Appends
    <3>2. Line(j) \in Events \cup {Garbage}
      BY EventType DEF Line
    <3> QED
      BY <3>1, <3>2
  <2> QED
    BY <1>1, <1>2, <2>1, <2>2, NobodyReads DEF PagesInv, Others
<1>4. CASE ReadPage(j)
  <2>1. /\ UNCHANGED log /\ jobs[j].op.kind = "view"
        /\ \A k \in 1..Len(jobs) : k # j => jobs'[k] = jobs[k]
    BY <1>4, PageIsRead
  <2>2. Exact(j)' /\ jobs'[j].seen \in Seq(Events)
    BY <1>2, <1>4, <2>1, PageKeepsExact DEF PagesInv
  <2>3. ASSUME NEW k \in 1..Len(jobs), k # j
        PROVE  jobs'[k].seen \in Seq(Events) /\ (jobs'[k].op.kind = "view" => Exact(k)')
    BY <1>2, <2>1, <2>3, ExactStays DEF PagesInv
  <2> QED
    BY <1>1, <2>2, <2>3 DEF PagesInv, Others
<1> QED
  BY <1>3, <1>4

LEMMA PagesNext ==
  KeyPlaneInv /\ LinesInv /\ PagesInv /\ [Next]_vars => PagesInv'
<1> SUFFICES ASSUME Shaped, KeysInv, GateInv, LinesInv, PagesInv, [Next]_vars PROVE PagesInv'
  BY DEF KeyPlaneInv
<1>1. ASSUME log'.lines = log.lines, Len(jobs') = Len(jobs),
             \A k \in 1..Len(jobs) : jobs'[k].op = jobs[k].op /\ jobs'[k].seen = jobs[k].seen
      PROVE  PagesInv'
  BY <1>1, NobodyReads DEF PagesInv
<1>2. ASSUME NEW p \in Hosts, Start(p) \/ Boot(p) PROVE PagesInv'
  <2>1. UNCHANGED jobs
    BY <1>2, BootKeepsKeys DEF Start, Enter
  <2> QED
    BY <1>1, <1>2, <2>1, ElsewhereLogStays
<1>3. ASSUME NEW p \in Hosts, Crash(p) PROVE PagesInv'
  <2>1. PICK Pages : jobs \in Seq(JobOf(Pages))
    BY DEF Shaped
  <2>2. Cut(p)
    BY <1>3, CrashMoves
  <2>3. \A k \in 1..Len(jobs) : jobs'[k] \in {jobs[k], [jobs[k] EXCEPT !.pc = "gone"]}
    BY <1>3, JobFacts DEF Crash
  <2>4. \A k \in 1..Len(jobs) : [jobs[k] EXCEPT !.pc = "gone"].seen = jobs[k].seen
    <3> TAKE k \in 1..Len(jobs)
    <3>1. jobs[k] \in JobOf(Pages)
      BY <2>1
    <3> QED
      BY <3>1 DEF JobOf
  <2>5. \A k \in 1..Len(jobs) : jobs'[k].op = jobs[k].op /\ jobs'[k].seen = jobs[k].seen
    BY <2>2, <2>3, <2>4 DEF Cut
  <2> QED
    BY <1>1, <1>3, <2>2, <2>5, ElsewhereLogStays DEF Cut
<1>4. ASSUME NEW op \in Expected, Arrive(op) PROVE PagesInv'
  <2>1. Arrived(op) /\ Len(jobs) \in Nat /\ log'.lines = log.lines
    BY <1>4, ArriveMoves, JobFacts, ElsewhereLogStays
  <2>0. PICK n \in Nat : n = Len(jobs) + 1
    BY <2>1
  <2>2. Len(jobs') = n /\ \A k \in 1..Len(jobs) : jobs'[k] = jobs[k]
    BY <2>0, <2>1 DEF Arrived
  <2>3. jobs'[n].seen = <<>>
    <3>1. PICK Pages : jobs \in Seq(JobOf(Pages))
      BY DEF Shaped
    <3>2. jobs' = Append(jobs, NewJob(op)) /\ NewJob(op).seen = <<>>
      BY <1>4 DEF Arrive, NewJob
    <3> QED
      BY <2>0, <3>1, <3>2
  <2>4. Exact(n)'
    <3> PICK f : f = jobs'[n].op.filter
      OBVIOUS
    <3> DEFINE M == MatchingLines(f)
    <3>1. M \in Seq(Events \cup {Garbage}) /\ M' = M
      BY <2>1, LogFacts, MatchingType DEF MatchingLines
    <3> HIDE DEF M
    <3>2. 0 \in 0..Len(M') /\ SubSeq(M', 1, 0) = <<>>
      BY <3>1
    <3>3. 0 \in 0..Len(MatchingLines(f)') /\ jobs'[n].seen = SubSeq(MatchingLines(f)', 1, 0)
      BY <2>3, <3>2 DEF M
    <3> QED
      BY <3>3 DEF Exact
  <2>5. \A k \in 1..n : k \in 1..Len(jobs) \/ k = n
    BY <2>0, <2>1
  <2>6. \A k \in 1..Len(jobs) :
          /\ jobs'[k].seen \in Seq(Events)
          /\ jobs'[k].op.kind = "view" => Exact(k)'
    BY <2>1, <2>2, NobodyReads
  <2>7. <<>> \in Seq(Events)
    OBVIOUS
  <2>8. ASSUME NEW k \in 1..n
        PROVE  jobs'[k].seen \in Seq(Events) /\ (jobs'[k].op.kind = "view" => Exact(k)')
    <3>1. CASE k \in 1..Len(jobs)
      BY <2>6, <3>1
    <3>2. CASE k = n
      BY <2>3, <2>4, <2>7, <3>2
    <3> QED
      BY <2>5, <3>1, <3>2
  <2> QED
    BY <2>2, <2>8 DEF PagesInv
<1>5. CASE UNCHANGED vars
  BY <1>1, <1>5 DEF vars
<1> QED
  BY <1>2, <1>3, <1>4, <1>5, ServeKeepsPages, NextCases

LEMMA LinesAlways ==
  Spec => []LinesInv
BY LinesInit, LinesNext, KeyPlaneAlways, PTL DEF Spec

LEMMA PagesAlways ==
  Spec => []PagesInv
BY PagesInit, PagesNext, LinesAlways, KeyPlaneAlways, PTL DEF Spec

\* However the log grows between two pages, and with whichever backend, a
\* viewer has seen the first of the events that match, each once, in order.
THEOREM ViewersMissNothing ==
  Spec => []PagesAreExact
<1>1. KeyPlaneInv /\ LinesInv /\ PagesInv => PagesAreExact
  <2> SUFFICES ASSUME Shaped, LinesInv, PagesInv, NEW j \in DOMAIN jobs, jobs[j].op.kind = "view"
               PROVE  jobs[j].seen
                        = SubSeq(MatchingLines(jobs[j].op.filter), 1, Len(jobs[j].seen))
    BY DEF KeyPlaneInv, PagesAreExact
  <2>1. j \in 1..Len(jobs)
    BY JobFacts
  <2> DEFINE M == MatchingLines(jobs[j].op.filter)
  <2>2. M \in Seq(Events \cup {Garbage})
    BY LogFacts, MatchingType
  <2>3. PICK n \in 0..Len(M) : jobs[j].seen = SubSeq(M, 1, n)
    BY <2>1 DEF PagesInv, Exact
  <2> HIDE DEF M
  <2>4. Len(SubSeq(M, 1, n)) = n
    BY <2>2
  <2> QED
    BY <2>3, <2>4 DEF M
<1> QED
  BY <1>1, KeyPlaneAlways, LinesAlways, PagesAlways, PTL

-----------------------------------------------------------------------------
(* The types.                                                              *)

CrashesInv == crashes \in 0..MaxCrashes

LEMMA CrashesAreBounded ==
  Spec => []CrashesInv
<1>1. Init => CrashesInv
  BY BoundAssumption DEF Init, CrashesInv
<1>2. KeyPlaneInv /\ CrashesInv /\ [Next]_vars => CrashesInv'
  <2> SUFFICES ASSUME Shaped, KeysInv, CrashesInv, [Next]_vars PROVE CrashesInv'
    BY DEF KeyPlaneInv
  <2>1. ASSUME NEW p \in Hosts, Crash(p) PROVE CrashesInv'
    BY <2>1, BoundAssumption DEF Crash, CrashesInv
  <2>2. ASSUME NEW p \in Hosts, Start(p) \/ Boot(p) PROVE UNCHANGED crashes
    BY <2>2 DEF Start, Boot, OpenConfig, SeedFile, SeedDatabase, Bind, OpenKeys, BuildVerifier,
                Enter, Fixed
  <2>3. ASSUME NEW op \in Expected, Arrive(op) PROVE UNCHANGED crashes
    BY <2>3 DEF Arrive, Idle, Fixed
  <2>4. ASSUME NEW j \in 1..Len(jobs), Serve(j) PROVE UNCHANGED crashes
    BY <2>4, ServeCases DEF Running, Idle, Fixed
  <2> QED
    BY <2>1, <2>2, <2>3, <2>4, NextCases DEF vars, CrashesInv
<1> QED
  BY <1>1, <1>2, KeyPlaneAlways, PTL DEF Spec

LEMMA ConfAlways ==
  Spec => []ConfInv
BY ConfInit, ConfNext, KeyPlaneAlways, PTL DEF Spec

\* Every variable keeps its type: the contents of a configuration, the rows
\* no two of which share an id or a key, the log and what was seen of it.
THEOREM TypesAreCorrect ==
  Spec => []TypeOK
<1>1. KeyPlaneInv /\ ConfInv /\ LinesInv /\ PagesInv /\ CrashesInv => TypeOK
  <2> SUFFICES ASSUME Shaped, KeysInv, GateInv, ConfInv, LinesInv, PagesInv, CrashesInv
               PROVE  TypeOK
    BY DEF KeyPlaneInv
  <2>1. deployment \in Deployments /\ env \in EnvLists /\ rows \subseteq Row /\ Unique(rows)
    BY DEF KeysInv
  <2>2. {yaml, stored, tmp} \subseteq Contents
    BY DEF ConfInv, Configured, Contents, Nothing
  <2>3. log \in [lines: Seq(Events \cup {Garbage}), torn: BOOLEAN,
                 writer: {Free} \cup {{p} : p \in Hosts}]
    BY DEF LinesInv, LogType
  <2>4. /\ phase \in [Hosts -> {"new", "down", "config", "seed", "rename", "bind", "keys",
                                "verifier", "serving"}]
        /\ enforce \in [Hosts -> BOOLEAN] /\ crashes \in 0..MaxCrashes
    BY DEF GateInv, Phases, CrashesInv
  <2>5. jobs \in Seq(Job)
    <3>1. PICK Pages : jobs \in Seq(JobOf(Pages))
      BY DEF Shaped
    <3>2. \A j \in 1..Len(jobs) : jobs[j] \in Job
      <4> TAKE j \in 1..Len(jobs)
      <4>1. jobs[j] \in JobOf(Pages) /\ jobs[j].seen \in Seq(Events)
        BY <3>1 DEF PagesInv
      <4>2. jobs[j] \in JobOf(Seq(Events))
        BY <4>1 DEF JobOf
      <4> QED
        BY <4>2 DEF JobOf, Job, Places, Answers, Callers
    <3>3. Len(jobs) \in Nat /\ jobs = [j \in 1..Len(jobs) |-> jobs[j]]
      BY <3>1
    <3> QED
      BY <3>2, <3>3
  <2> QED
    BY <2>1, <2>2, <2>3, <2>4, <2>5 DEF TypeOK
<1> QED
  BY <1>1, KeyPlaneAlways, ConfAlways, LinesAlways, PagesAlways, CrashesAreBounded, PTL

-----------------------------------------------------------------------------
(* The trail.                                                              *)

\* The lines stay, what is over stays so, and nobody else is answered.
Hushed ==
  /\ log'.lines = log.lines
  /\ Len(jobs') \in Nat /\ Len(jobs) <= Len(jobs')
  /\ DOMAIN jobs' = 1..Len(jobs')
  /\ \A k \in 1..Len(jobs) :
       /\ jobs'[k].op = jobs[k].op
       /\ jobs[k].changed => jobs'[k].changed
       /\ Over(k) => Over(k)' /\ jobs'[k].audit_id = jobs[k].audit_id
       /\ Answered(k)' <=> Answered(k)
  /\ \A k \in 1..Len(jobs') : k \notin 1..Len(jobs) => ~Answered(k)'

LEMMA RecordedBy ==
  ASSUME Shaped, LinesInv, NEW i \in WholeLines, Records(i)
  PROVE  /\ By(i) \in 1..Len(jobs) /\ log.lines[i] = Event(By(i))
         /\ Over(By(i))
         /\ jobs[By(i)].op.kind # "call" => jobs[By(i)].changed
BY EventType DEF Records, By

LEMMA HushedKeepsTrail ==
  ASSUME Shaped, LinesInv, TrailInv, Hushed
  PROVE  TrailInv'
<1>1. /\ WholeLines' = WholeLines /\ TornLines' = TornLines
      /\ \A i : By(i)' = By(i)
  BY DEF Hushed, WholeLines, TornLines, By
<1>2. ASSUME NEW i \in WholeLines
      PROVE  /\ Records(i)'
             /\ By(i) \in 1..Len(jobs)
             /\ OnLoop(By(i))' <=> OnLoop(By(i))
  <2>1. PICK j \in 1..Len(jobs) : j = By(i)
    BY RecordedBy DEF TrailInv
  <2>2. /\ log.lines[i] = Event(j) /\ Over(j)
        /\ jobs[j].op.kind # "call" => jobs[j].changed
    BY <2>1, RecordedBy DEF TrailInv
  <2>3. Event(j)' = Event(j)
    BY <2>2 DEF Hushed, Event, QueryEvent, AdminEvent
  <2>4. j \in 1..Len(jobs')
    BY JobFacts DEF Hushed
  <2>5. Records(i)'
    BY <2>2, <2>3, <2>4 DEF Records, Hushed
  <2>6. OnLoop(j)' <=> OnLoop(j)
    BY DEF OnLoop, Hushed
  <2>7. By(i)' = j
    BY <1>1, <2>1
  <2> QED
    BY <2>1, <2>5, <2>6, <2>7 DEF OnLoop
<1>3. Lost' = Lost
  <2>1. {j \in DOMAIN jobs : Answered(j)}' = {j \in DOMAIN jobs : Answered(j)}
    BY JobFacts DEF Hushed
  <2>2. {By(i) : i \in WholeLines}' = {By(i) : i \in WholeLines}
    BY <1>1
  <2> QED
    BY <2>1, <2>2 DEF Lost
<1> QED
  BY <1>1, <1>2, <1>3 DEF TrailInv, OnLoop

LEMMA TrailIsFinite ==
  ASSUME Shaped, LinesInv
  PROVE  IsFiniteSet(Lost) /\ IsFiniteSet(TornLines)
<1>1. IsFiniteSet(1..Len(jobs)) /\ IsFiniteSet(1..Len(log.lines))
  BY JobFacts, LogFacts, FS_Interval
<1>2. Lost \subseteq 1..Len(jobs) /\ TornLines \subseteq 1..Len(log.lines)
  BY JobFacts, LogFacts DEF Lost, TornLines
<1> QED
  BY <1>1, <1>2, FS_Subset

LEMMA AnswerKeepsTrail ==
  ASSUME Shaped, KeysInv, LinesInv, TurnInv, TrailInv, Shaped',
         NEW j \in 1..Len(jobs), Running(j), Concludes(j)
  PROVE  TrailInv'
<1>0. PICK n \in Nat : n = Len(log.lines) + 1
  BY LogFacts
<1>1. /\ DOMAIN log'.lines = 1..n
      /\ \A i \in 1..n : i # n => i \in DOMAIN log.lines /\ log'.lines[i] = log.lines[i]
      /\ log'.lines[n] = Line(j)
      /\ DOMAIN log.lines = 1..n - 1
  BY <1>0, LogFacts DEF Concludes, Appends
<1>2. /\ \A k \in 1..Len(jobs) : k # j => jobs'[k] = jobs[k]
      /\ Len(jobs') = Len(jobs) /\ jobs'[j].op = jobs[j].op /\ jobs'[j].changed = jobs[j].changed
      /\ jobs'[j].pc = "done" /\ jobs'[j].audit_id = jobs[j].audit_id
  BY DEF Concludes, Moved
<1>3. ~Over(j) /\ ~Answered(j) /\ Over(j)'
  BY <1>2 DEF Concludes, TurnInv, Over, Answered
<1>4. \A k \in 1..Len(jobs) :
        /\ Event(k)' = Event(k)
        /\ OnLoop(k)' <=> OnLoop(k)
        /\ k # j => (Over(k)' <=> Over(k)) /\ (Answered(k)' <=> Answered(k))
  BY <1>2 DEF Event, QueryEvent, AdminEvent, OnLoop, Over, Answered
\* The lines that were there.
<1>5. ASSUME NEW i \in WholeLines
      PROVE  /\ By(i) \in 1..Len(jobs) /\ By(i) # j /\ i \in 1..n /\ i < n
             /\ By(i)' = By(i) /\ Records(i)' /\ i \in WholeLines'
             /\ OnLoop(By(i)) /\ OnLoop(j) => By(i) < j
  <2>1. PICK k \in 1..Len(jobs) : k = By(i)
    BY RecordedBy DEF TrailInv
  <2>2. /\ log.lines[i] = Event(k) /\ Over(k)
        /\ jobs[k].op.kind # "call" => jobs[k].changed
    BY <2>1, RecordedBy DEF TrailInv
  <2>3. k # j
    BY <1>3, <2>2
  <2>4. i \in 1..n /\ i < n /\ i # n /\ log.lines[i] # Garbage
    BY <1>0, <1>1 DEF WholeLines
  <2>5. log'.lines[i] = log.lines[i]
    BY <1>1, <2>4
  <2>6. By(i)' = k
    BY <2>1, <2>5 DEF By
  <2>7. Records(i)'
    BY <1>2, <1>4, <2>2, <2>3, <2>5 DEF Records
  <2>8. i \in WholeLines'
    BY <1>1, <2>4, <2>5 DEF WholeLines
  <2>9. OnLoop(k) /\ OnLoop(j) => k < j
    <3>1. CASE j < k
      <4>1. jobs[k].pc # "new" /\ ~Past(j)
        BY <2>2 DEF Over, Concludes, Past
      <4> QED
        BY <3>1, <4>1 DEF TurnInv
    <3> QED
      BY <2>3, <3>1, JobFacts
  <2> QED
    BY <2>1, <2>3, <2>4, <2>6, <2>7, <2>8, <2>9
<1>6. CASE log.torn
  <2>1. log'.lines[n] = Garbage
    BY <1>1, <1>6 DEF Line
  <2>2. WholeLines' = WholeLines
    <3>1. \A i : i \in WholeLines' => i \in WholeLines
      BY <1>1, <2>1 DEF WholeLines
    <3> QED
      BY <1>5, <3>1
  <2>3. TornLines' = TornLines \cup {n} /\ n \notin TornLines
    BY <1>0, <1>1, <1>5, <2>2 DEF TornLines
  <2>4. Lost' \subseteq Lost \cup {j} /\ j \notin Lost
    <3>1. {k \in DOMAIN jobs : Answered(k)}' \subseteq {k \in DOMAIN jobs : Answered(k)} \cup {j}
      <4>1. DOMAIN jobs' = 1..Len(jobs) /\ DOMAIN jobs = 1..Len(jobs)
        BY <1>2, JobFacts DEF Shaped
      <4> QED
        BY <1>4, <4>1
    <3>2. {By(i) : i \in WholeLines}' = {By(i) : i \in WholeLines}
      BY <1>5, <2>2
    <3> QED
      BY <1>3, <3>1, <3>2 DEF Lost
  <2>5. Cardinality(Lost') <= Cardinality(TornLines')
    <3>1. /\ Cardinality(Lost \cup {j}) = Cardinality(Lost) + 1
          /\ Cardinality(TornLines \cup {n}) = Cardinality(TornLines) + 1
          /\ Cardinality(Lost) \in Nat /\ Cardinality(TornLines) \in Nat
      BY <2>3, <2>4, TrailIsFinite, FS_AddElement, FS_CardinalityType
    <3>2. Cardinality(Lost') <= Cardinality(Lost \cup {j})
      BY <2>4, TrailIsFinite, FS_AddElement, FS_Subset
    <3>3. IsFiniteSet(Lost') /\ Cardinality(Lost') \in Nat
      BY <2>4, TrailIsFinite, FS_AddElement, FS_Subset, FS_CardinalityType
    <3> QED
      BY <2>3, <3>1, <3>2, <3>3 DEF TrailInv
  <2> QED
    BY <1>4, <1>5, <2>2, <2>5 DEF TrailInv
<1>7. CASE ~log.torn
  <2>1. log'.lines[n] = Event(j) /\ Event(j) # Garbage /\ Event(j).by = j
    BY <1>1, <1>7, EventType DEF Line
  <2>2. n \in WholeLines' /\ By(n)' = j
    BY <1>0, <1>1, <2>1 DEF WholeLines, By
  <2>3. WholeLines' = WholeLines \cup {n}
    <3>1. \A i : i \in WholeLines' /\ i # n => i \in WholeLines
      BY <1>1 DEF WholeLines
    <3> QED
      BY <1>5, <2>2, <3>1
  <2>4. Records(n)'
    <3>1. jobs[j].op.kind # "call" => jobs[j].changed
      BY DEF Concludes, TurnInv
    <3>2. log'.lines[n] = Event(j)'
      BY <1>4, <2>1
    <3>3. j \in 1..Len(jobs')
      BY <1>2
    <3> QED
      BY <1>2, <1>3, <3>1, <3>2, <3>3 DEF Records
  <2>5. TornLines' = TornLines
    BY <1>0, <1>1, <2>3 DEF TornLines
  <2>6. Lost' = Lost
    <3>1. {k \in DOMAIN jobs : Answered(k)}' \ {j} = {k \in DOMAIN jobs : Answered(k)}
      <4>1. DOMAIN jobs' = 1..Len(jobs) /\ DOMAIN jobs = 1..Len(jobs)
        BY <1>2, JobFacts DEF Shaped
      <4> QED
        BY <1>3, <1>4, <4>1
    <3>2. {By(i) : i \in WholeLines}' = {By(i) : i \in WholeLines} \cup {j}
      BY <1>5, <2>2, <2>3
    <3> QED
      BY <1>3, <3>1, <3>2 DEF Lost
  <2>7. ASSUME NEW i \in WholeLines', NEW k \in WholeLines', i < k
        PROVE  /\ By(i)' # By(k)'
               /\ OnLoop(By(i))' /\ OnLoop(By(k))' => By(i)' < By(k)'
    <3>1. i # n
      <4>1. k \in 1..n
        BY <1>1 DEF WholeLines
      <4> QED
        BY <2>7, <4>1
    <3>2. i \in WholeLines
      BY <2>3, <3>1
    <3>3. CASE k = n
      BY <1>4, <1>5, <2>2, <3>2, <3>3
    <3>4. CASE k \in WholeLines
      BY <1>4, <1>5, <2>7, <3>2, <3>4 DEF TrailInv
    <3> QED
      BY <2>3, <3>3, <3>4
  <2> QED
    BY <1>5, <2>3, <2>4, <2>5, <2>6, <2>7 DEF TrailInv
<1> QED
  BY <1>6, <1>7

LEMMA TrailInit ==
  Init => TrailInv
<1> SUFFICES ASSUME Init PROVE TrailInv
  OBVIOUS
<1>1. WholeLines = {} /\ DOMAIN jobs = {} /\ DOMAIN log.lines = {}
  BY DEF Init, LogInit, WholeLines
<1>2. Lost = {} /\ TornLines = {}
  BY <1>1 DEF Lost, TornLines
<1>3. Cardinality({}) = 0
  BY FS_EmptySet
<1> QED
  BY <1>1, <1>2, <1>3 DEF TrailInv

\* Whatever is not the end of a request is hushed.
LEMMA HushedIsQuiet ==
  ASSUME Shaped', log'.lines = log.lines, Len(jobs) \in Nat, Len(jobs') = Len(jobs),
         \A k \in 1..Len(jobs) :
           /\ jobs'[k].op = jobs[k].op
           /\ jobs[k].changed => jobs'[k].changed
           /\ Over(k) => Over(k)' /\ jobs'[k].audit_id = jobs[k].audit_id
           /\ Answered(k)' <=> Answered(k)
  PROVE  Hushed
<1>1. DOMAIN jobs' = 1..Len(jobs')
  BY DEF Shaped
<1> QED
  BY <1>1 DEF Hushed

LEMMA ServeKeepsTrail ==
  ASSUME Shaped, KeysInv, LinesInv, TurnInv, TrailInv, NEW j \in 1..Len(jobs), Serve(j)
  PROVE  TrailInv'
<1>1. /\ Shaped' /\ Running(j) /\ Others(j)
      /\ jobs[j].changed => jobs'[j].changed
  BY ServeCases, ServeMoves
<1>2. Concludes(j) \/ Silent(j)
  BY ServeLogCases
<1>3. CASE Concludes(j)
  BY <1>1, <1>3, AnswerKeepsTrail
<1>4. CASE Silent(j)
  <2>1. ~Over(j) /\ ~Answered(j)
    BY <1>1 DEF TurnInv, Over, Running
  <2>2. ~Answered(j)'
    BY <1>1, <1>4, <2>1 DEF Silent, Answered, Others
  <2>3. ASSUME NEW k \in 1..Len(jobs)
        PROVE  /\ jobs'[k].op = jobs[k].op
               /\ jobs[k].changed => jobs'[k].changed
               /\ Over(k) => Over(k)' /\ jobs'[k].audit_id = jobs[k].audit_id
               /\ Answered(k)' <=> Answered(k)
    <3>1. CASE k = j
      BY <1>1, <2>1, <2>2, <3>1 DEF Others
    <3>2. CASE k # j
      BY <1>1, <3>2 DEF Others, Over, Answered
    <3> QED
      BY <3>1, <3>2
  <2>4. Hushed
    BY <1>1, <1>4, <2>3, HushedIsQuiet, JobFacts DEF Others, Silent
  <2> QED
    BY <2>4, HushedKeepsTrail
<1> QED
  BY <1>2, <1>3, <1>4

LEMMA TrailNext ==
  KeyPlaneInv /\ LinesInv /\ TurnInv /\ TrailInv /\ [Next]_vars => TrailInv'
<1> SUFFICES ASSUME Shaped, KeysInv, GateInv, LinesInv, TurnInv, TrailInv, [Next]_vars
             PROVE  TrailInv'
  BY DEF KeyPlaneInv
<1>1. ASSUME log'.lines = log.lines, UNCHANGED jobs PROVE TrailInv'
  <2>1. Shaped' /\ Len(jobs) \in Nat
    BY <1>1, JobFacts DEF Shaped
  <2>2. Hushed
    BY <1>1, <2>1, HushedIsQuiet DEF Over, Answered
  <2> QED
    BY <2>2, HushedKeepsTrail
<1>2. ASSUME NEW p \in Hosts, Start(p) \/ Boot(p) PROVE TrailInv'
  <2>1. UNCHANGED jobs
    BY <1>2, BootKeepsKeys DEF Start, Enter
  <2> QED
    BY <1>1, <1>2, <2>1, ElsewhereLogStays
<1>3. ASSUME NEW p \in Hosts, Crash(p) PROVE TrailInv'
  <2>1. Shaped' /\ Cut(p) /\ Len(jobs) \in Nat /\ log'.lines = log.lines
    BY <1>3, CrashMoves, JobFacts, ElsewhereLogStays
  <2>2. Hushed
    BY <2>1, HushedIsQuiet DEF Cut, Over, Answered
  <2> QED
    BY <2>2, HushedKeepsTrail
<1>4. ASSUME NEW op \in Expected, Arrive(op) PROVE TrailInv'
  <2>1. Shaped' /\ Arrived(op) /\ Len(jobs) \in Nat /\ log'.lines = log.lines
    BY <1>4, ArriveMoves, JobFacts, ElsewhereLogStays
  <2>0. PICK n \in Nat : n = Len(jobs) + 1
    BY <2>1
  <2>2. Len(jobs') = n /\ \A k \in 1..Len(jobs) : jobs'[k] = jobs[k]
    BY <2>0, <2>1 DEF Arrived
  <2>3. ~Answered(n)'
    BY <2>0, <2>1 DEF Arrived, Answered
  <2>4. DOMAIN jobs' = 1..Len(jobs')
    BY <2>1 DEF Shaped
  <2>5. \A k \in 1..n : k \in 1..Len(jobs) \/ k = n
    BY <2>0, <2>1
  <2>6. Hushed
    BY <2>0, <2>1, <2>2, <2>3, <2>4, <2>5 DEF Hushed, Over, Answered
  <2> QED
    BY <2>6, HushedKeepsTrail
<1>5. CASE UNCHANGED vars
  BY <1>1, <1>5 DEF vars
<1> QED
  BY <1>2, <1>3, <1>4, <1>5, ServeKeepsTrail, NextCases

\* For any requests, backends and crashes: the trail holds a record of each
\* answered request but for as many as there are torn lines, none twice, none
\* of a change that was not made, and the changes of the event loop in order.
THEOREM TheTrailIsTrue ==
  Spec => []TrailIsTrue
<1>1. KeyPlaneInv /\ LinesInv /\ TrailInv => TrailIsTrue
  <2> SUFFICES ASSUME Shaped, LinesInv, TrailInv PROVE TrailIsTrue
    BY DEF KeyPlaneInv
  <2>1. ASSUME NEW i \in WholeLines, log.lines[i].type = "admin_event"
        PROVE  jobs[log.lines[i].by].changed
    <3>1. PICK j \in 1..Len(jobs) : j = By(i)
      BY RecordedBy DEF TrailInv
    <3>2. log.lines[i] = Event(j) /\ (jobs[j].op.kind # "call" => jobs[j].changed)
      BY <3>1, RecordedBy DEF TrailInv
    <3>3. jobs[j].op.kind # "call"
      BY <2>1, <3>2 DEF Event, QueryEvent
    <3> QED
      BY <3>1, <3>2, <3>3 DEF By
  <2>2. \A i, k \in WholeLines : i < k =>
          /\ log.lines[i].by # log.lines[k].by
          /\ OnLoop(log.lines[i].by) /\ OnLoop(log.lines[k].by) =>
               log.lines[i].by < log.lines[k].by
    BY DEF TrailInv, By
  <2>3. Cardinality({j \in DOMAIN jobs : jobs[j].op.kind # "view" /\ jobs[j].answer = "ok"}
                      \ {log.lines[i].by : i \in WholeLines})
          <= Cardinality(DOMAIN log.lines \ WholeLines)
    BY DEF TrailInv, Lost, Answered, By, TornLines
  <2> QED
    BY <2>1, <2>2, <2>3 DEF TrailIsTrue, WholeLines
<1>2. Init => TurnInv /\ TrailInv
  BY TurnInit, TrailInit
<1> QED
  BY <1>1, <1>2, TurnNext, TrailNext, LinesAlways, KeyPlaneAlways, PTL DEF Spec
=============================================================================
