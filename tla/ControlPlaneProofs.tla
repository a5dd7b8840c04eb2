------------------------- MODULE ControlPlaneProofs -------------------------
(***************************************************************************)
(* Theorems about ControlPlane, for every value of its constants: any      *)
(* sections, keys, requests and number of crashes.                         *)
(*                                                                         *)
(* First, how a step moves the requests: every action either leaves the    *)
(* stores alone (Quiet) or is one of three writes.  Then four invariants:  *)
(* KeyPlaneInv about keys and the boots that decide about them, ReadInv    *)
(* about the log, ConfInv about the configuration and who replaces it, and *)
(* AckInv about the order in which it was changed.                         *)
(***************************************************************************)
EXTENDS ControlPlane, TLAPS

-----------------------------------------------------------------------------
(* How a step moves the requests.                                          *)

Places == {"new", "replace", "audit", "append", "page", "done", "gone"}
Answers == {"none", "ok", "error", "garbled", "refused"}
Callers == AuditIds \cup {"none", "anonymous"}

\* A request, whatever pages it has seen.
JobOf(Pages) ==
  [op: Ops, pc: Places, answer: Answers, changed: BOOLEAN, audit_id: Callers, seen: Pages]

Shaped == \E Pages : jobs \in Seq(JobOf(Pages))

\* One request moves on, the others stay.
Moved(j, pc, answer, changed, audit_id) ==
  /\ Len(jobs') = Len(jobs)
  /\ \A k \in 1..Len(jobs) \ {j} : jobs'[k] = jobs[k]
  /\ jobs'[j].op = jobs[j].op
  /\ jobs'[j].pc = pc
  /\ jobs'[j].answer = answer
  /\ jobs'[j].changed = changed
  /\ jobs'[j].audit_id = audit_id

LEMMA JobFacts ==
  ASSUME Shaped
  PROVE  /\ Len(jobs) \in Nat
         /\ DOMAIN jobs = 1..Len(jobs)
         /\ \A j \in 1..Len(jobs) :
              /\ jobs[j].op \in Ops
              /\ jobs[j].pc \in Places
              /\ jobs[j].answer \in Answers
              /\ jobs[j].changed \in BOOLEAN
              /\ jobs[j].audit_id \in Callers
<1> PICK Pages : jobs \in Seq(JobOf(Pages))
  BY DEF Shaped
<1>1. \A j \in 1..Len(jobs) : jobs[j] \in JobOf(Pages)
  OBVIOUS
<1>2. \A j \in 1..Len(jobs) :
        /\ jobs[j].op \in Ops
        /\ jobs[j].pc \in Places
        /\ jobs[j].answer \in Answers
        /\ jobs[j].changed \in BOOLEAN
        /\ jobs[j].audit_id \in Callers
  BY <1>1 DEF JobOf
<1> QED
  BY <1>2

LEMMA SeqWidens ==
  ASSUME NEW A, NEW B, A \subseteq B, NEW s \in Seq(A)
  PROVE  s \in Seq(B)
<1>1. \A k \in 1..Len(s) : s[k] \in B
  OBVIOUS
<1>2. Len(s) \in Nat /\ s = [k \in 1..Len(s) |-> s[k]]
  OBVIOUS
<1> QED
  BY <1>1, <1>2

\* Whatever a request becomes, the requests stay shaped.
LEMMA ReplaceMoves ==
  ASSUME Shaped, NEW j \in 1..Len(jobs), NEW More, NEW n \in JobOf(More),
         n.op = jobs[j].op, jobs' = [jobs EXCEPT ![j] = n]
  PROVE  Shaped' /\ Moved(j, n.pc, n.answer, n.changed, n.audit_id)
<1> PICK Pages : jobs \in Seq(JobOf(Pages))
  BY DEF Shaped
<1> DEFINE Wider == Pages \cup More
<1>1. JobOf(Pages) \subseteq JobOf(Wider) /\ JobOf(More) \subseteq JobOf(Wider)
  BY DEF JobOf
<1>2. jobs \in Seq(JobOf(Wider))
  BY <1>1, SeqWidens
<1>3. jobs' \in Seq(JobOf(Wider)) /\ Len(jobs') = Len(jobs)
  <2>1. n \in JobOf(Wider)
    BY <1>1
  <2> QED
    BY <1>2, <2>1
<1>4. jobs'[j] = n /\ \A k \in 1..Len(jobs) \ {j} : jobs'[k] = jobs[k]
  BY <1>2
<1> QED
  BY <1>3, <1>4 DEF Shaped, Moved

LEMMA JobRecord ==
  ASSUME Shaped, NEW j \in 1..Len(jobs)
  PROVE  \E Pages : jobs[j] \in JobOf(Pages)
BY DEF Shaped

LEMMA GotoMoves ==
  ASSUME Shaped, NEW j \in 1..Len(jobs), NEW pc \in Places, Goto(j, pc)
  PROVE  Shaped' /\ Moved(j, pc, jobs[j].answer, jobs[j].changed, jobs[j].audit_id)
<1> DEFINE n == [jobs[j] EXCEPT !.pc = pc]
<1> PICK Pages : jobs[j] \in JobOf(Pages)
  BY JobRecord
<1>1. /\ n \in JobOf(Pages)
      /\ n.op = jobs[j].op /\ n.pc = pc /\ n.answer = jobs[j].answer
      /\ n.changed = jobs[j].changed /\ n.audit_id = jobs[j].audit_id
  BY DEF JobOf
<1>2. jobs' = [jobs EXCEPT ![j] = n]
  BY DEF Goto
<1> HIDE DEF n
<1>3. Shaped' /\ Moved(j, n.pc, n.answer, n.changed, n.audit_id)
  BY <1>1, <1>2, ReplaceMoves
<1> QED
  BY <1>1, <1>3

LEMMA ChangeMoves ==
  ASSUME Shaped, NEW j \in 1..Len(jobs), NEW pc \in Places, Change(j, pc)
  PROVE  Shaped' /\ Moved(j, pc, jobs[j].answer, TRUE, jobs[j].audit_id)
<1> DEFINE n == [jobs[j] EXCEPT !.pc = pc, !.changed = TRUE]
<1> PICK Pages : jobs[j] \in JobOf(Pages)
  BY JobRecord
<1>1. /\ n \in JobOf(Pages)
      /\ n.op = jobs[j].op /\ n.pc = pc /\ n.answer = jobs[j].answer
      /\ n.changed = TRUE /\ n.audit_id = jobs[j].audit_id
  BY DEF JobOf
<1>2. jobs' = [jobs EXCEPT ![j] = n]
  BY DEF Change
<1> HIDE DEF n
<1>3. Shaped' /\ Moved(j, n.pc, n.answer, n.changed, n.audit_id)
  BY <1>1, <1>2, ReplaceMoves
<1> QED
  BY <1>1, <1>3

LEMMA AnswerMoves ==
  ASSUME Shaped, NEW j \in 1..Len(jobs), NEW answer \in Answers, Answer(j, answer)
  PROVE  Shaped' /\ Moved(j, "done", answer, jobs[j].changed, jobs[j].audit_id)
<1> DEFINE n == [jobs[j] EXCEPT !.pc = "done", !.answer = answer]
<1> PICK Pages : jobs[j] \in JobOf(Pages)
  BY JobRecord
<1>1. /\ n \in JobOf(Pages)
      /\ n.op = jobs[j].op /\ n.pc = "done" /\ n.answer = answer
      /\ n.changed = jobs[j].changed /\ n.audit_id = jobs[j].audit_id
  BY DEF JobOf, Places
<1>2. jobs' = [jobs EXCEPT ![j] = n]
  BY DEF Answer
<1> HIDE DEF n
<1>3. Shaped' /\ Moved(j, n.pc, n.answer, n.changed, n.audit_id)
  BY <1>1, <1>2, ReplaceMoves
<1> QED
  BY <1>1, <1>3

-----------------------------------------------------------------------------
(* A request moves on: it writes to a store, or leaves all but the log.    *)

Others(j) ==
  /\ Len(jobs') = Len(jobs)
  /\ \A k \in 1..Len(jobs) \ {j} : jobs'[k] = jobs[k]
  /\ jobs'[j].op = jobs[j].op

Running(j) ==
  /\ MayRun(j)
  /\ jobs[j].pc \in {"new", "replace", "audit", "append", "page"}
  /\ UNCHANGED Idle

IdsOf(j) == IF enforce[HostOf(j)] THEN Resolve(jobs[j].op.key) ELSE {"anonymous"}

Quiet(j) ==
  /\ UNCHANGED <<configVars, keyVars>>
  /\ Others(j)
  /\ jobs'[j].changed = jobs[j].changed
  /\ jobs'[j].pc \in {"audit", "append", "page", "done"}
  /\ jobs'[j].pc = "audit" => jobs[j].op.kind = "call"
  /\ jobs'[j].pc = "append" => jobs[j].pc = "audit"
  /\ jobs'[j].answer = "ok" /\ jobs[j].answer # "ok" /\ jobs[j].op.kind # "view" =>
       jobs[j].pc \in {"audit", "append"}
  /\ jobs'[j].audit_id # jobs[j].audit_id => jobs'[j].audit_id \in IdsOf(j)

LEMMA RefuseIsQuiet ==
  ASSUME Shaped, NEW j \in 1..Len(jobs), Refuse(j)
  PROVE  Shaped' /\ Running(j) /\ Quiet(j)
<1>1. Shaped' /\ Moved(j, "done", "refused", jobs[j].changed, jobs[j].audit_id)
  BY AnswerMoves DEF Refuse, Answers
<1>2. Running(j)
  BY DEF Refuse, At, Running
<1> QED
  BY <1>1, <1>2 DEF Refuse, Quiet, Moved, Others, Stores

LEMMA StoreFailsIsQuiet ==
  ASSUME Shaped, NEW j \in 1..Len(jobs), StoreFails(j)
  PROVE  Shaped' /\ Running(j) /\ Quiet(j)
<1>1. Shaped' /\ Moved(j, "done", "error", jobs[j].changed, jobs[j].audit_id)
  BY AnswerMoves DEF StoreFails, Answers
<1>2. Running(j)
  BY DEF StoreFails, At, Running
<1> QED
  BY <1>1, <1>2 DEF StoreFails, Quiet, Moved, Others, Stores

LEMMA RecordIsQuiet ==
  ASSUME Shaped, NEW j \in 1..Len(jobs), Record(j)
  PROVE  Shaped' /\ Running(j) /\ Quiet(j)
<1>1. /\ Running(j)
      /\ UNCHANGED <<configVars, keyVars>>
      /\ \/ Goto(j, "append") /\ jobs[j].pc = "audit"
         \/ Answer(j, "ok") /\ jobs[j].pc \in {"audit", "append"}
  BY DEF Record, AtAudit, At, Running
<1>2. CASE Goto(j, "append") /\ jobs[j].pc = "audit"
  <2>1. /\ Shaped'
        /\ Moved(j, "append", jobs[j].answer, jobs[j].changed, jobs[j].audit_id)
    BY <1>2, GotoMoves DEF Places
  <2> QED
    BY <1>1, <1>2, <2>1 DEF Quiet, Moved, Others
<1>3. CASE Answer(j, "ok") /\ jobs[j].pc \in {"audit", "append"}
  <2>1. Shaped' /\ Moved(j, "done", "ok", jobs[j].changed, jobs[j].audit_id)
    BY <1>3, AnswerMoves DEF Answers
  <2> QED
    BY <1>1, <1>3, <2>1 DEF Quiet, Moved, Others
<1> QED
  BY <1>1, <1>2, <1>3

LEMMA RecordFailsIsQuiet ==
  ASSUME Shaped, NEW j \in 1..Len(jobs), RecordFails(j)
  PROVE  Shaped' /\ Running(j) /\ Quiet(j)
<1>1. Shaped' /\ Moved(j, "done", "error", jobs[j].changed, jobs[j].audit_id)
  BY AnswerMoves DEF RecordFails, Answers
<1>2. Running(j)
  BY DEF RecordFails, AtAudit, At, Running
<1> QED
  BY <1>1, <1>2 DEF RecordFails, Quiet, Moved, Others

LEMMA ReadFailsIsQuiet ==
  ASSUME Shaped, NEW j \in 1..Len(jobs), ReadFails(j)
  PROVE  Shaped' /\ Running(j) /\ Quiet(j)
<1>1. ASSUME NEW answer \in {"error", "garbled"}, Answer(j, answer)
      PROVE  Shaped' /\ Moved(j, "done", answer, jobs[j].changed, jobs[j].audit_id)
  BY <1>1, AnswerMoves DEF Answers
<1>2. Running(j)
  BY DEF ReadFails, At, Running
<1> QED
  BY <1>1, <1>2 DEF ReadFails, Quiet, Moved, Others, Stores

LEMMA ReadPageIsQuiet ==
  ASSUME Shaped, NEW j \in 1..Len(jobs), ReadPage(j)
  PROVE  /\ Shaped' /\ Running(j) /\ Quiet(j)
         /\ jobs'[j].answer \in {jobs[j].answer, "ok"}
<1> DEFINE page == QueryLogs(jobs[j].op.filter, Len(jobs[j].seen), PageSize)
           seen == jobs[j].seen \o page
           more == [jobs[j] EXCEPT !.seen = seen, !.pc = "page"]
           last == [jobs[j] EXCEPT !.seen = seen, !.pc = "done", !.answer = "ok"]
<1> PICK Pages : jobs[j] \in JobOf(Pages)
  BY JobRecord
<1>1. jobs' = [jobs EXCEPT ![j] = more] \/ jobs' = [jobs EXCEPT ![j] = last]
  BY DEF ReadPage
<1> HIDE DEF seen
<1>2. /\ more \in JobOf({seen})
      /\ more.op = jobs[j].op /\ more.pc = "page" /\ more.answer = jobs[j].answer
      /\ more.changed = jobs[j].changed /\ more.audit_id = jobs[j].audit_id
  BY DEF JobOf, Places
<1>3. /\ last \in JobOf({seen})
      /\ last.op = jobs[j].op /\ last.pc = "done" /\ last.answer = "ok"
      /\ last.changed = jobs[j].changed /\ last.audit_id = jobs[j].audit_id
  BY DEF JobOf, Places, Answers
<1> HIDE DEF more, last
<1>4. Running(j) /\ jobs[j].op.kind = "view" /\ UNCHANGED Stores
  BY DEF ReadPage, At, Running
<1>5. CASE jobs' = [jobs EXCEPT ![j] = more]
  <2>1. Shaped' /\ Moved(j, more.pc, more.answer, more.changed, more.audit_id)
    BY <1>2, <1>5, ReplaceMoves
  <2> QED
    BY <1>2, <1>4, <2>1 DEF Quiet, Moved, Others, Stores
<1>6. CASE jobs' = [jobs EXCEPT ![j] = last]
  <2>1. Shaped' /\ Moved(j, last.pc, last.answer, last.changed, last.audit_id)
    BY <1>3, <1>6, ReplaceMoves
  <2> QED
    BY <1>3, <1>4, <2>1 DEF Quiet, Moved, Others, Stores
<1> QED
  BY <1>1, <1>5, <1>6

LEMMA VerifyIsQuiet ==
  ASSUME Shaped, NEW j \in 1..Len(jobs), Verify(j),
         \A key \in Keys : Resolve(key) \subseteq AuditIds
  PROVE  /\ Shaped' /\ Running(j) /\ Quiet(j)
         /\ jobs[j].op.kind = "call"
         /\ jobs'[j].answer \in {jobs[j].answer, "refused"}
<1>1. Running(j) /\ jobs[j].op.kind = "call" /\ UNCHANGED Stores
  BY DEF Verify, At, Running
<1>3. IdsOf(j) \subseteq Callers
  BY <1>1, JobFacts, OpsAssumption DEF Callers, IdsOf
<1>4. \/ \E id \in IdsOf(j) : jobs' = [jobs EXCEPT ![j] = [@ EXCEPT !.pc = "audit", !.audit_id = id]]
      \/ Answer(j, "refused")
  BY DEF Verify, IdsOf
<1>5. ASSUME Answer(j, "refused")
      PROVE  Shaped' /\ Quiet(j) /\ jobs'[j].answer = "refused"
  <2>1. Shaped' /\ Moved(j, "done", "refused", jobs[j].changed, jobs[j].audit_id)
    BY <1>5, AnswerMoves DEF Answers
  <2> QED
    BY <1>1, <2>1 DEF Quiet, Moved, Others, Stores
<1>6. ASSUME NEW id \in IdsOf(j),
             jobs' = [jobs EXCEPT ![j] = [@ EXCEPT !.pc = "audit", !.audit_id = id]]
      PROVE  Shaped' /\ Quiet(j) /\ jobs'[j].answer = jobs[j].answer
  <2> DEFINE n == [jobs[j] EXCEPT !.pc = "audit", !.audit_id = id]
  <2> PICK Pages : jobs[j] \in JobOf(Pages)
    BY JobRecord
  <2>1. /\ n \in JobOf(Pages)
        /\ n.op = jobs[j].op /\ n.pc = "audit" /\ n.answer = jobs[j].answer
        /\ n.changed = jobs[j].changed /\ n.audit_id = id
    BY <1>3 DEF JobOf, Places
  <2>2. jobs' = [jobs EXCEPT ![j] = n]
    BY <1>6
  <2> HIDE DEF n
  <2>3. Shaped' /\ Moved(j, n.pc, n.answer, n.changed, n.audit_id)
    BY <2>1, <2>2, ReplaceMoves
  <2> QED
    BY <1>1, <2>1, <2>3 DEF Quiet, Moved, Others, Stores
<1> QED
  BY <1>1, <1>4, <1>5, <1>6

-----------------------------------------------------------------------------
(* Arrivals and crashes.                                                   *)

Arrived(op) ==
  LET last == jobs'[Len(jobs) + 1] IN
    /\ Len(jobs') = Len(jobs) + 1
    /\ \A k \in 1..Len(jobs) : jobs'[k] = jobs[k] /\ jobs[k].pc # "new"
    /\ last.op = op /\ last.pc = "new" /\ last.answer = "none"
    /\ ~last.changed /\ last.audit_id = "none"

LEMMA ArriveMoves ==
  ASSUME Shaped, NEW op \in Expected, Arrive(op)
  PROVE  /\ op \in Ops
         /\ Shaped' /\ Arrived(op)
         /\ UNCHANGED <<Stores, Idle>>
         /\ \E p \in {Host("gateway"), Host("admin")} : Serving(p)
<1> PICK Pages : jobs \in Seq(JobOf(Pages))
  BY DEF Shaped
<1> DEFINE Wider == Pages \cup {<<>>}
<1>1. op \in Ops
  BY JobFacts, BoundAssumption DEF Expected
<1>2. NewJob(op) \in JobOf(Wider)
  BY <1>1 DEF NewJob, JobOf, Places, Answers, Callers
<1>3. jobs \in Seq(JobOf(Wider))
  <2>1. JobOf(Pages) \subseteq JobOf(Wider)
    BY DEF JobOf
  <2> QED
    BY <2>1, SeqWidens
<1>4. jobs' = Append(jobs, NewJob(op)) /\ \A k \in 1..Len(jobs) : jobs[k].pc # "new"
  BY JobFacts DEF Arrive
<1>5. /\ jobs' \in Seq(JobOf(Wider))
      /\ Len(jobs') = Len(jobs) + 1
      /\ jobs'[Len(jobs) + 1] = NewJob(op)
      /\ \A k \in 1..Len(jobs) : jobs'[k] = jobs[k]
  BY <1>2, <1>3, <1>4
<1>6. Arrived(op)
  BY <1>4, <1>5 DEF Arrived, NewJob
<1> QED
  BY <1>1, <1>5, <1>6 DEF Arrive, Shaped

\* What a crash leaves of the requests.
Cut(p) ==
  /\ Len(jobs') = Len(jobs)
  /\ \A k \in 1..Len(jobs) :
       /\ jobs'[k].op = jobs[k].op /\ jobs'[k].answer = jobs[k].answer
       /\ jobs'[k].changed = jobs[k].changed /\ jobs'[k].audit_id = jobs[k].audit_id
       /\ jobs'[k].pc \in {jobs[k].pc, "gone"}
       /\ HostOf(k) = p => jobs'[k].pc \in {"done", "gone"}
       /\ HostOf(k) # p => jobs'[k].pc = jobs[k].pc

LEMMA CrashMoves ==
  ASSUME Shaped, NEW p \in Hosts, Crash(p)
  PROVE  /\ Shaped' /\ Cut(p)
         /\ UNCHANGED <<configVars, keyVars, deployment>>
<1> PICK Pages : jobs \in Seq(JobOf(Pages))
  BY DEF Shaped
<1> DEFINE gone(k) == [jobs[k] EXCEPT !.pc = "gone"]
<1>1. \A k \in 1..Len(jobs) :
        /\ gone(k) \in JobOf(Pages)
        /\ gone(k).op = jobs[k].op /\ gone(k).answer = jobs[k].answer /\ gone(k).pc = "gone"
        /\ gone(k).changed = jobs[k].changed /\ gone(k).audit_id = jobs[k].audit_id
  <2> TAKE k \in 1..Len(jobs)
  <2>1. jobs[k] \in JobOf(Pages)
    OBVIOUS
  <2> QED
    BY <2>1 DEF JobOf, Places
<1>2. jobs' = [k \in 1..Len(jobs) |->
        IF HostOf(k) = p /\ jobs[k].pc # "done" THEN gone(k) ELSE jobs[k]]
  BY JobFacts DEF Crash
<1> HIDE DEF gone
<1>3. \A k \in 1..Len(jobs) :
        \/ jobs'[k] = gone(k) /\ HostOf(k) = p
        \/ jobs'[k] = jobs[k] /\ (HostOf(k) = p => jobs[k].pc = "done")
  BY <1>2
<1>4. Len(jobs) \in Nat /\ \A k \in 1..Len(jobs) : jobs[k] \in JobOf(Pages)
  OBVIOUS
<1>5. jobs' \in Seq(JobOf(Pages)) /\ Len(jobs') = Len(jobs)
  BY <1>1, <1>2, <1>4
<1>6. Cut(p)
  BY <1>1, <1>3, <1>5 DEF Cut
<1> QED
  BY <1>5, <1>6 DEF Crash, Shaped

-----------------------------------------------------------------------------
(* The rows of the key table: unique, each from API_KEYS or minted.        *)

Comes(r) ==
  \/ \E i \in 1..Len(env) : env[i].id = r.id /\ env[i].key = r.key
  \/ \E k \in Minted : k.id = r.id /\ k.key = r.key

KeysInv ==
  /\ env \in EnvLists
  /\ deployment \in Deployments
  /\ rows \subseteq Row
  /\ Unique(rows)
  /\ deployment.keys = "env" => rows = {}
  /\ \A r \in rows : Comes(r)

\* A row stays, and stays revoked; a row that is new has a new id and key.
Successor(q, r) == q.id = r.id /\ q.key = r.key /\ (r.revoked => q.revoked)

RowsMove ==
  /\ UNCHANGED env
  /\ \A r \in rows : \E q \in rows' : Successor(q, r)
  /\ \A q \in rows' :
       \/ \E r \in rows : Successor(q, r)
       \/ ~q.revoked /\ \A r \in rows : r.id # q.id /\ r.key # q.key

LEMMA EnvEntries ==
  ASSUME KeysInv
  PROVE  Len(env) \in Nat /\ \A i \in 1..Len(env) : env[i] \in Entry
BY EnvAssumption DEF KeysInv

LEMMA RowsStay ==
  ASSUME KeysInv, UNCHANGED <<keyVars, deployment>>
  PROVE  KeysInv' /\ RowsMove
<1>1. RowsMove
  BY DEF keyVars, RowsMove, Successor
<1> QED
  BY <1>1 DEF KeysInv, keyVars, Unique, Comes

LEMMA SeedMovesRows ==
  ASSUME KeysInv, deployment.keys = "sqlite", SeedKeys, UNCHANGED deployment
  PROVE  /\ KeysInv' /\ RowsMove
         /\ \A i \in 1..Len(env) : \E r \in rows' : r.key = env[i].key
<1> DEFINE Seeded == {Issue(env[i]) : i \in Unseeded}
<1>1. rows' = rows \cup Seeded /\ env' = env
  BY DEF SeedKeys
<1>2. Unseeded \subseteq 1..Len(env)
  BY DEF Unseeded
<1>3. ASSUME NEW q \in Seeded
      PROVE  /\ q \in Row /\ ~q.revoked
             /\ \E i \in Unseeded : q.id = env[i].id /\ q.key = env[i].key
             /\ \A r \in rows : r.id # q.id /\ r.key # q.key
  <2> PICK i \in Unseeded : q = Issue(env[i])
    OBVIOUS
  <2>1. env[i] \in Entry
    BY <1>2, EnvEntries
  <2>2. q.id = env[i].id /\ q.key = env[i].key /\ ~q.revoked /\ q \in Row
    BY <2>1 DEF Issue, Entry, Row
  <2>3. \A r \in rows : r.id # env[i].id /\ r.key # env[i].key
    BY DEF Unseeded, SeedKeys, CanSeedKeys
  <2> QED
    BY <2>2, <2>3
<1>4. ASSUME NEW q \in Seeded, NEW r \in Seeded, q.id = r.id \/ q.key = r.key
      PROVE  q = r
  <2> PICK i \in Unseeded : q = Issue(env[i])
    OBVIOUS
  <2> PICK k \in Unseeded : r = Issue(env[k])
    OBVIOUS
  <2>1. i # k => env[i].id # env[k].id /\ env[i].key # env[k].key
    BY DEF SeedKeys, CanSeedKeys
  <2> QED
    BY <1>4, <2>1 DEF Issue
<1> HIDE DEF Seeded
<1>5. Unique(rows')
  BY <1>1, <1>3, <1>4 DEF Unique, KeysInv
<1>6. \A r \in rows' : Comes(r)'
  <2> SUFFICES ASSUME NEW q \in rows' PROVE Comes(q)'
    OBVIOUS
  <2>1. Comes(q) => Comes(q)'
    BY <1>1 DEF Comes
  <2>2. CASE q \in rows
    BY <2>1, <2>2 DEF KeysInv
  <2>3. CASE q \in Seeded
    <3>1. PICK i \in Unseeded : q.id = env[i].id /\ q.key = env[i].key
      BY <1>3, <2>3
    <3>2. i \in 1..Len(env)
      BY <1>2
    <3> QED
      BY <2>1, <3>1, <3>2 DEF Comes
  <2> QED
    BY <1>1, <2>2, <2>3
<1>7. RowsMove
  BY <1>1, <1>3 DEF RowsMove, Successor
<1>8. \A i \in 1..Len(env) : \E r \in rows' : r.key = env[i].key
  <2> TAKE i \in 1..Len(env)
  <2>1. CASE i \in Unseeded
    <3>1. Issue(env[i]) \in rows'
      BY <1>1, <2>1 DEF Seeded
    <3>2. Issue(env[i]).key = env[i].key
      BY DEF Issue
    <3> QED
      BY <3>1, <3>2
  <2>2. CASE i \notin Unseeded
    BY <1>1, <2>2 DEF Unseeded
  <2> QED
    BY <2>1, <2>2
<1>9. rows' \subseteq Row
  BY <1>1, <1>3 DEF KeysInv
<1> QED
  BY <1>1, <1>5, <1>6, <1>7, <1>8, <1>9 DEF KeysInv

LEMMA CreateMovesRows ==
  ASSUME KeysInv, deployment.keys = "sqlite", NEW entry, CreateKey(entry),
         UNCHANGED deployment
  PROVE  KeysInv' /\ RowsMove
<1> DEFINE q == Issue(entry)
<1>1. entry \in Minted /\ entry \in Entry
  BY MintedAssumption DEF CreateKey
<1>2. q \in Row /\ q.id = entry.id /\ q.key = entry.key /\ ~q.revoked
  BY <1>1 DEF Issue, Entry, Row
<1>3. rows' = rows \cup {q} /\ env' = env /\ \A r \in rows : r.id # entry.id
  BY DEF CreateKey
<1> HIDE DEF q
<1>4. \A r \in rows : r.key # entry.key
  <2> TAKE r \in rows
  <2>1. CASE \E i \in 1..Len(env) : env[i].id = r.id /\ env[i].key = r.key
    BY <1>1, <2>1, MintedAssumption DEF KeysInv
  <2>2. CASE \E k \in Minted : k.id = r.id /\ k.key = r.key
    BY <1>1, <1>3, <2>2, MintedAssumption
  <2> QED
    BY <2>1, <2>2 DEF KeysInv, Comes
<1>5. Unique(rows')
  BY <1>2, <1>3, <1>4 DEF Unique, KeysInv
<1>6. \A r \in rows' : Comes(r)'
  BY <1>1, <1>2, <1>3 DEF KeysInv, Comes
<1>7. RowsMove
  BY <1>2, <1>3, <1>4 DEF RowsMove, Successor
<1>8. rows' \subseteq Row
  BY <1>2, <1>3 DEF KeysInv
<1> QED
  BY <1>3, <1>5, <1>6, <1>7, <1>8 DEF KeysInv

LEMMA RevokeMovesRows ==
  ASSUME KeysInv, deployment.keys = "sqlite", NEW id, CanRevoke(id), RevokeKey(id),
         UNCHANGED deployment
  PROVE  /\ KeysInv' /\ RowsMove
         /\ \E r \in rows' : r.id = id
         /\ \A r \in rows' : r.id = id => r.revoked
<1> DEFINE after(r) == [r EXCEPT !.revoked = r.revoked \/ r.id = id]
<1>1. rows' = {after(r) : r \in rows} /\ env' = env
  BY DEF RevokeKey
<1>2. ASSUME NEW r \in rows
      PROVE  /\ after(r) \in Row /\ after(r).id = r.id /\ after(r).key = r.key
             /\ after(r).revoked <=> r.revoked \/ r.id = id
  <2> DEFINE flag == r.revoked \/ r.id = id
  <2>1. r \in Row /\ flag \in BOOLEAN
    BY DEF KeysInv, Row
  <2> HIDE DEF flag
  <2>2. [r EXCEPT !.revoked = flag] \in Row
    BY <2>1 DEF Row
  <2>3. /\ [r EXCEPT !.revoked = flag].id = r.id
        /\ [r EXCEPT !.revoked = flag].key = r.key
        /\ [r EXCEPT !.revoked = flag].revoked = flag
    BY <2>1 DEF Row
  <2> QED
    BY <2>2, <2>3 DEF flag
<1> HIDE DEF after
<1>3. \A q \in rows' : \E r \in rows : q = after(r)
  BY <1>1
<1>4. \A r \in rows : after(r) \in rows'
  BY <1>1
<1>5. Unique(rows')
  BY <1>2, <1>3 DEF Unique, KeysInv
<1>6. \A r \in rows' : Comes(r)'
  BY <1>1, <1>2, <1>3 DEF KeysInv, Comes
<1>7. RowsMove
  BY <1>1, <1>2, <1>3, <1>4 DEF RowsMove, Successor
<1>8. rows' \subseteq Row
  BY <1>2, <1>3
<1>9. \E r \in rows' : r.id = id
  BY <1>2, <1>4 DEF CanRevoke, Active
<1>10. \A r \in rows' : r.id = id => r.revoked
  BY <1>2, <1>3
<1> QED
  BY <1>1, <1>5, <1>6, <1>7, <1>8, <1>9, <1>10 DEF KeysInv

\* Ids resolve to ids, and in the table to those of keys that are active.
LEMMA Resolved ==
  ASSUME KeysInv, NEW key
  PROVE  /\ Resolve(key) \subseteq AuditIds
         /\ deployment.keys = "sqlite" => \A id \in Resolve(key) :
              \E r \in rows : r.id = id /\ ~r.revoked
<1>1. CASE deployment.keys = "env"
  BY <1>1, EnvEntries DEF Resolve, ResolveEnv, Entry
<1>2. CASE deployment.keys # "env"
  <2>1. Resolve(key) = {r.id : r \in {q \in Active : q.key = key}}
    BY <1>2 DEF Resolve, ResolveRow
  <2> QED
    BY <1>2, <2>1 DEF Active, KeysInv, Row
<1> QED
  BY <1>1, <1>2

-----------------------------------------------------------------------------
(* The steps, case by case.                                                *)

\* A request writes to a store: it stays unanswered.
Writes(j, kind, from, to, changed) ==
  /\ jobs[j].op.kind = kind
  /\ jobs[j].pc = from
  /\ Others(j)
  /\ jobs'[j].pc = to
  /\ jobs'[j].changed = changed
  /\ jobs'[j].answer = jobs[j].answer
  /\ jobs'[j].audit_id = jobs[j].audit_id

Target(j) == [stored EXCEPT ![jobs[j].op.section] = jobs[j].op.value]

PutsTmp(j) ==
  /\ Writes(j, "put", "new", "replace", jobs[j].changed)
  /\ deployment.config = "file"
  /\ tmp' = Target(j) /\ UNCHANGED <<yaml, stored>>

PutsFile(j) ==
  /\ Writes(j, "put", "replace", "audit", TRUE)
  /\ stored' = tmp /\ tmp' = Nothing /\ UNCHANGED yaml

PutsRow(j) ==
  /\ Writes(j, "put", "new", "audit", TRUE)
  /\ deployment.config = "sqlite"
  /\ stored' = Target(j) /\ UNCHANGED <<yaml, tmp>>

LEMMA PutCases ==
  ASSUME Shaped, NEW j \in 1..Len(jobs), Put(j)
  PROVE  /\ Shaped' /\ Running(j)
         /\ UNCHANGED <<keyVars, log>>
         /\ PutsTmp(j) \/ PutsFile(j) \/ PutsRow(j)
<1>1. /\ Running(j) /\ UNCHANGED <<keyVars, log>> /\ jobs[j].op.kind = "put"
      /\ \/ /\ jobs[j].pc = "new" /\ deployment.config = "file"
            /\ WriteTmp(Target(j)) /\ Goto(j, "replace")
         \/ jobs[j].pc = "replace" /\ ReplaceFile /\ Change(j, "audit")
         \/ /\ jobs[j].pc = "new" /\ deployment.config = "sqlite"
            /\ SetRow(jobs[j].op.section, jobs[j].op.value) /\ Change(j, "audit")
  BY DEF Put, At, Running, Target
<1>2. CASE /\ jobs[j].pc = "new" /\ deployment.config = "file"
           /\ WriteTmp(Target(j)) /\ Goto(j, "replace")
  <2>1. /\ Shaped'
        /\ Moved(j, "replace", jobs[j].answer, jobs[j].changed, jobs[j].audit_id)
    BY <1>2, GotoMoves DEF Places
  <2>2. PutsTmp(j)
    BY <1>1, <1>2, <2>1 DEF PutsTmp, Writes, Moved, Others, WriteTmp
  <2> QED
    BY <1>1, <2>1, <2>2
<1>3. CASE jobs[j].pc = "replace" /\ ReplaceFile /\ Change(j, "audit")
  <2>1. /\ Shaped'
        /\ Moved(j, "audit", jobs[j].answer, TRUE, jobs[j].audit_id)
    BY <1>3, ChangeMoves DEF Places
  <2>2. PutsFile(j)
    BY <1>1, <1>3, <2>1 DEF PutsFile, Writes, Moved, Others, ReplaceFile
  <2> QED
    BY <1>1, <2>1, <2>2
<1>4. CASE /\ jobs[j].pc = "new" /\ deployment.config = "sqlite"
           /\ SetRow(jobs[j].op.section, jobs[j].op.value) /\ Change(j, "audit")
  <2>1. /\ Shaped'
        /\ Moved(j, "audit", jobs[j].answer, TRUE, jobs[j].audit_id)
    BY <1>4, ChangeMoves DEF Places
  <2>2. PutsRow(j)
    BY <1>1, <1>4, <2>1 DEF PutsRow, Writes, Moved, Others, SetRow, Target
  <2> QED
    BY <1>1, <2>1, <2>2
<1> QED
  BY <1>1, <1>2, <1>3, <1>4

LEMMA CreateCases ==
  ASSUME Shaped, NEW j \in 1..Len(jobs), Create(j)
  PROVE  /\ Shaped' /\ Running(j) /\ UNCHANGED <<configVars, log>>
         /\ Writes(j, "create", "new", "audit", TRUE)
         /\ deployment.keys = "sqlite" /\ CreateKey(jobs[j].op.entry)
<1>1. /\ Shaped'
      /\ Moved(j, "audit", jobs[j].answer, TRUE, jobs[j].audit_id)
  BY ChangeMoves DEF Create, Places
<1>2. Running(j) /\ jobs[j].pc = "new" /\ jobs[j].op.kind = "create"
  BY DEF Create, At, Running
<1> QED
  BY <1>1, <1>2 DEF Create, Writes, Moved, Others

LEMMA RevokeCases ==
  ASSUME Shaped, NEW j \in 1..Len(jobs), Revoke(j)
  PROVE  /\ Shaped' /\ Running(j) /\ UNCHANGED <<configVars, log>>
         /\ Writes(j, "revoke", "new", "audit", TRUE)
         /\ deployment.keys = "sqlite"
         /\ CanRevoke(jobs[j].op.id) /\ RevokeKey(jobs[j].op.id)
<1>1. /\ Shaped'
      /\ Moved(j, "audit", jobs[j].answer, TRUE, jobs[j].audit_id)
  BY ChangeMoves DEF Revoke, Places
<1>2. Running(j) /\ jobs[j].pc = "new" /\ jobs[j].op.kind = "revoke"
  BY DEF Revoke, At, Running
<1> QED
  BY <1>1, <1>2 DEF Revoke, Writes, Moved, Others

LEMMA ServeCases ==
  ASSUME Shaped, KeysInv, NEW j \in 1..Len(jobs), Serve(j)
  PROVE  /\ Shaped' /\ Running(j)
         /\ Quiet(j) \/ Put(j) \/ Create(j) \/ Revoke(j)
<1>1. \A key \in Keys : Resolve(key) \subseteq AuditIds
  BY Resolved
<1>2. CASE Refuse(j)
  BY <1>2, RefuseIsQuiet
<1>3. CASE StoreFails(j)
  BY <1>3, StoreFailsIsQuiet
<1>4. CASE Verify(j)
  BY <1>1, <1>4, VerifyIsQuiet
<1>5. CASE Record(j)
  BY <1>5, RecordIsQuiet
<1>6. CASE RecordFails(j)
  BY <1>6, RecordFailsIsQuiet
<1>7. CASE ReadPage(j)
  BY <1>7, ReadPageIsQuiet
<1>8. CASE ReadFails(j)
  BY <1>8, ReadFailsIsQuiet
<1>9. CASE Put(j)
  BY <1>9, PutCases
<1>10. CASE Create(j)
  BY <1>10, CreateCases
<1>11. CASE Revoke(j)
  BY <1>11, RevokeCases
<1> QED
  BY <1>2, <1>3, <1>4, <1>5, <1>6, <1>7, <1>8, <1>9, <1>10, <1>11 DEF Serve

LEMMA NextCases ==
  ASSUME Shaped, [Next]_vars
  PROVE  \/ \E p \in Hosts : Start(p) \/ Boot(p) \/ Crash(p)
         \/ \E op \in Expected : Arrive(op)
         \/ \E j \in 1..Len(jobs) : Serve(j)
         \/ UNCHANGED vars
BY JobFacts DEF Next

-----------------------------------------------------------------------------
(* What a process has decided about keys.                                  *)

Phases ==
  {"new", "down", "config", "seed", "rename", "bind", "keys", "verifier", "serving"}

Seeded == \A i \in 1..Len(env) : \E r \in rows : r.key = env[i].key

NoneValid ==
  /\ deployment.keys = "env" => env = <<>>
  /\ deployment.keys = "sqlite" =>
       \A r \in rows : \A i \in 1..Len(env) : env[i].key = r.key => r.revoked

Decided(p) ==
  /\ phase[p] \in {"verifier", "serving"} /\ deployment.keys = "sqlite" => Seeded
  /\ phase[p] = "serving" /\ ~enforce[p] => NoneValid

GateInv ==
  /\ phase \in [Hosts -> Phases]
  /\ enforce \in [Hosts -> BOOLEAN]
  /\ \A p \in Hosts : Decided(p)

LEMMA DecisionStays ==
  ASSUME KeysInv, KeysInv', RowsMove, UNCHANGED deployment, NEW p \in Hosts,
         Decided(p), phase'[p] = phase[p], enforce'[p] = enforce[p]
  PROVE  Decided(p)'
<1>1. Seeded => Seeded'
  BY DEF Seeded, RowsMove, Successor
<1>2. Seeded /\ NoneValid => NoneValid'
  <2> HAVE Seeded /\ NoneValid
  <2> SUFFICES ASSUME deployment.keys = "sqlite", NEW q \in rows', NEW i \in 1..Len(env),
                      env[i].key = q.key
               PROVE  q.revoked
    BY DEF NoneValid, RowsMove
  <2>1. CASE \E r \in rows : Successor(q, r)
    BY <2>1 DEF Successor, NoneValid
  <2>2. CASE \A r \in rows : r.id # q.id /\ r.key # q.key
    BY <2>2 DEF Seeded
  <2> QED
    BY <2>1, <2>2 DEF RowsMove
<1>3. NoneValid /\ deployment.keys = "env" => NoneValid'
  BY DEF NoneValid, RowsMove
<1>4. deployment.keys \in {"env", "sqlite"}
  BY DeploymentAssumption DEF KeysInv
<1> QED
  BY <1>1, <1>2, <1>3, <1>4 DEF Decided

LEMMA GateStays ==
  ASSUME KeysInv, KeysInv', RowsMove, GateInv, UNCHANGED <<deployment, phase, enforce>>
  PROVE  GateInv'
BY DecisionStays DEF GateInv

LEMMA GateEnters ==
  ASSUME KeysInv, KeysInv', RowsMove, GateInv, UNCHANGED deployment,
         NEW p \in Hosts, NEW next \in Phases, NEW flag \in BOOLEAN,
         phase' = [phase EXCEPT ![p] = next],
         enforce' = [enforce EXCEPT ![p] = flag],
         next \in {"verifier", "serving"} /\ deployment.keys = "sqlite" => Seeded',
         next = "serving" /\ ~flag => NoneValid'
  PROVE  GateInv'
<1>1. phase' \in [Hosts -> Phases] /\ enforce' \in [Hosts -> BOOLEAN]
  BY DEF GateInv
<1>2. phase'[p] = next /\ enforce'[p] = flag
  BY DEF GateInv
<1>3. Decided(p)'
  BY <1>2 DEF Decided
<1>4. ASSUME NEW q \in Hosts, q # p
      PROVE  Decided(q)'
  <2>1. phase'[q] = phase[q] /\ enforce'[q] = enforce[q]
    BY <1>4 DEF GateInv
  <2> QED
    BY <2>1, DecisionStays DEF GateInv
<1> QED
  BY <1>1, <1>3, <1>4 DEF GateInv

\* A process goes on to a phase before the keys.
LEMMA GateEntersEarly ==
  ASSUME KeysInv, GateInv, NEW p \in Hosts,
         NEW next \in Phases \ {"verifier", "serving"}, Enter(p, next), UNCHANGED keyVars
  PROVE  KeysInv' /\ RowsMove /\ GateInv'
<1>1. UNCHANGED <<enforce, deployment>> /\ phase' = [phase EXCEPT ![p] = next]
  BY DEF Enter, Fixed
<1>2. KeysInv' /\ RowsMove
  BY <1>1, RowsStay
<1>3. enforce[p] \in BOOLEAN /\ enforce' = [enforce EXCEPT ![p] = enforce[p]]
  BY <1>1 DEF GateInv
<1> QED
  BY <1>1, <1>2, <1>3, GateEnters

LEMMA BootKeepsKeys ==
  ASSUME KeysInv, GateInv, NEW p \in Hosts, Boot(p)
  PROVE  /\ KeysInv' /\ RowsMove /\ GateInv'
         /\ UNCHANGED <<jobs, deployment>>
<1> USE DEF Phases
<1>1. CASE OpenConfig(p)
  <2>1. /\ Enter(p, "bind") \/ Enter(p, "seed")
        /\ UNCHANGED keyVars
    BY <1>1 DEF OpenConfig, Stores
  <2> QED
    BY <2>1, GateEntersEarly DEF Enter, Fixed
<1>2. CASE SeedFile(p)
  <2>1. /\ Enter(p, "rename") \/ Enter(p, "bind")
        /\ UNCHANGED keyVars
    BY <1>2 DEF SeedFile
  <2> QED
    BY <2>1, GateEntersEarly DEF Enter, Fixed
<1>3. CASE SeedDatabase(p)
  <2>1. Enter(p, "bind") /\ UNCHANGED keyVars
    BY <1>3 DEF SeedDatabase
  <2> QED
    BY <2>1, GateEntersEarly DEF Enter, Fixed
<1>4. CASE Bind(p)
  <2>1. /\ Enter(p, "down") \/ Enter(p, "keys")
        /\ UNCHANGED keyVars
    BY <1>4 DEF Bind, Stores
  <2> QED
    BY <2>1, GateEntersEarly DEF Enter, Fixed
<1>5. CASE OpenKeys(p)
  <2>1. CASE UNCHANGED keyVars /\ Enter(p, "down")
    BY <2>1, GateEntersEarly DEF Enter, Fixed
  <2>2. CASE /\ deployment.keys # "sqlite" \/ SeedKeys
             /\ deployment.keys = "sqlite" \/ UNCHANGED keyVars
             /\ Enter(p, "verifier")
    <3>1. UNCHANGED <<enforce, deployment, jobs>> /\ phase' = [phase EXCEPT ![p] = "verifier"]
      BY <2>2 DEF Enter, Fixed
    <3>2. /\ KeysInv' /\ RowsMove
          /\ deployment.keys = "sqlite" => Seeded'
      <4>1. CASE deployment.keys = "sqlite"
        <5>1. env' = env
          BY <2>2, <4>1 DEF SeedKeys
        <5> QED
          BY <2>2, <3>1, <4>1, <5>1, SeedMovesRows DEF Seeded
      <4>2. CASE deployment.keys # "sqlite"
        BY <2>2, <3>1, <4>2, RowsStay
      <4> QED
        BY <4>1, <4>2
    <3>3. enforce[p] \in BOOLEAN /\ enforce' = [enforce EXCEPT ![p] = enforce[p]]
      BY <3>1 DEF GateInv
    <3> QED
      BY <3>1, <3>2, <3>3, GateEnters
  <2> QED
    BY <1>5, <2>1, <2>2 DEF OpenKeys
<1>6. CASE BuildVerifier(p)
  <2> DEFINE flag == AnyKeyActive
  <2>1. /\ phase[p] = "verifier" /\ phase' = [phase EXCEPT ![p] = "serving"]
        /\ enforce' = [enforce EXCEPT ![p] = flag]
        /\ UNCHANGED <<keyVars, deployment, jobs>>
    BY <1>6 DEF BuildVerifier, Stores, Fixed
  <2>2. flag \in BOOLEAN
    BY DEF AnyKeyActive
  <2>3. ~flag => NoneValid
    BY DEF AnyKeyActive, Active, NoneValid
  <2> HIDE DEF flag
  <2>4. KeysInv' /\ RowsMove
    BY <2>1, RowsStay
  <2>5. (deployment.keys = "sqlite" => Seeded') /\ (~flag => NoneValid')
    BY <2>1, <2>3 DEF GateInv, Decided, Seeded, NoneValid, keyVars
  <2> QED
    BY <2>1, <2>2, <2>4, <2>5, GateEnters
<1> QED
  BY <1>1, <1>2, <1>3, <1>4, <1>5, <1>6 DEF Boot

-----------------------------------------------------------------------------
(* The invariant about keys: a key that a request revoked is dead.         *)

Dead(id) ==
  /\ deployment.keys = "sqlite"
  /\ \E r \in rows : r.id = id
  /\ \A r \in rows : r.id = id => r.revoked

Revoked(j) == jobs[j].op.kind = "revoke" /\ jobs[j].changed

KeyPlaneInv ==
  /\ Shaped
  /\ KeysInv
  /\ GateInv
  /\ \A j \in 1..Len(jobs) : Revoked(j) => Dead(jobs[j].op.id)

LEMMA DeadStays ==
  ASSUME RowsMove, UNCHANGED deployment, NEW id, Dead(id)
  PROVE  Dead(id)'
BY DEF Dead, RowsMove, Successor

LEMMA KeyPlaneInit ==
  Init => KeyPlaneInv
<1> SUFFICES ASSUME Init PROVE KeyPlaneInv
  OBVIOUS
<1>1. jobs \in Seq(JobOf({})) /\ Len(jobs) = 0
  BY DEF Init
<1>2. Shaped
  BY <1>1 DEF Shaped
<1>3. KeysInv
  BY DEF Init, KeyInit, KeysInv, Unique
<1>4. GateInv
  BY DEF Init, GateInv, Decided, Phases
<1> QED
  BY <1>1, <1>2, <1>3, <1>4 DEF KeyPlaneInv

LEMMA KeyPlaneNext ==
  KeyPlaneInv /\ [Next]_vars => KeyPlaneInv'
<1> SUFFICES ASSUME KeyPlaneInv, [Next]_vars PROVE KeyPlaneInv'
  OBVIOUS
<1> USE DEF KeyPlaneInv
<1>1. ASSUME NEW p \in Hosts, Start(p) PROVE KeyPlaneInv'
  <2>1. Enter(p, "config") /\ UNCHANGED keyVars
    BY <1>1 DEF Start, Stores
  <2>2. KeysInv' /\ RowsMove /\ GateInv'
    BY <2>1, GateEntersEarly DEF Phases
  <2>3. UNCHANGED <<jobs, deployment>>
    BY <2>1 DEF Enter, Fixed
  <2> QED
    BY <2>2, <2>3, DeadStays DEF Revoked, Shaped
<1>2. ASSUME NEW p \in Hosts, Boot(p) PROVE KeyPlaneInv'
  <2>1. KeysInv' /\ RowsMove /\ GateInv' /\ UNCHANGED <<jobs, deployment>>
    BY <1>2, BootKeepsKeys
  <2> QED
    BY <2>1, DeadStays DEF Revoked, Shaped
<1>3. ASSUME NEW p \in Hosts, Crash(p) PROVE KeyPlaneInv'
  <2>1. Shaped' /\ Cut(p) /\ UNCHANGED <<keyVars, deployment>>
    BY <1>3, CrashMoves
  <2>2. KeysInv' /\ RowsMove
    BY <2>1, RowsStay
  <2>3. /\ phase' = [phase EXCEPT ![p] = "down"]
        /\ enforce' = [enforce EXCEPT ![p] = FALSE]
    BY <1>3 DEF Crash
  <2>4. GateInv'
    BY <2>1, <2>2, <2>3, GateEnters DEF Phases
  <2>5. \A j \in 1..Len(jobs') : Revoked(j)' => Revoked(j) /\ jobs'[j].op = jobs[j].op
    BY <2>1 DEF Cut, Revoked
  <2> QED
    BY <2>1, <2>2, <2>4, <2>5, DeadStays DEF Cut
<1>4. ASSUME NEW op \in Expected, Arrive(op) PROVE KeyPlaneInv'
  <2>1. Shaped' /\ Arrived(op) /\ UNCHANGED <<Stores, Idle>>
    BY <1>4, ArriveMoves
  <2>2. UNCHANGED <<keyVars, deployment, phase, enforce>>
    BY <2>1 DEF Stores, Idle, Fixed
  <2>3. KeysInv' /\ RowsMove /\ GateInv'
    BY <2>2, RowsStay, GateStays
  <2>4. \A j \in 1..Len(jobs') :
          Revoked(j)' => j \in 1..Len(jobs) /\ Revoked(j) /\ jobs'[j].op = jobs[j].op
    BY <2>1, JobFacts DEF Arrived, Revoked
  <2> QED
    BY <2>1, <2>2, <2>3, <2>4, DeadStays
<1>5. ASSUME NEW j \in 1..Len(jobs), Serve(j) PROVE KeyPlaneInv'
  <2>1. /\ Shaped' /\ Running(j)
        /\ Quiet(j) \/ Put(j) \/ Create(j) \/ Revoke(j)
    BY <1>5, ServeCases
  <2>2. UNCHANGED <<deployment, phase, enforce>>
    BY <2>1 DEF Running, Idle, Fixed
  <2>3. SUFFICES /\ KeysInv' /\ RowsMove
                 /\ Others(j)
                 /\ Revoked(j)' => Revoked(j) \/ Dead(jobs[j].op.id)'
    <3>1. GateInv'
      BY <2>2, <2>3, GateStays
    <3>2. \A k \in 1..Len(jobs') : Revoked(k)' => Dead(jobs[k].op.id)' /\ jobs'[k].op = jobs[k].op
      BY <2>2, <2>3, DeadStays DEF Others, Revoked
    <3> QED
      BY <2>1, <2>3, <3>1, <3>2
  <2>4. CASE Quiet(j)
    BY <2>2, <2>4, RowsStay DEF Quiet, Others, Revoked
  <2>5. CASE Put(j)
    <3>1. UNCHANGED keyVars /\ jobs[j].op.kind = "put" /\ Others(j)
      BY <2>5, PutCases DEF PutsTmp, PutsFile, PutsRow, Writes
    <3> QED
      BY <2>2, <3>1, RowsStay DEF Others, Revoked
  <2>6. CASE Create(j)
    <3>1. /\ deployment.keys = "sqlite" /\ CreateKey(jobs[j].op.entry)
          /\ jobs[j].op.kind = "create" /\ Others(j)
      BY <2>6, CreateCases DEF Writes
    <3> QED
      BY <2>2, <3>1, CreateMovesRows DEF Others, Revoked
  <2>7. CASE Revoke(j)
    <3>1. /\ deployment.keys = "sqlite"
          /\ CanRevoke(jobs[j].op.id) /\ RevokeKey(jobs[j].op.id) /\ Others(j)
      BY <2>7, RevokeCases DEF Writes
    <3>2. /\ KeysInv' /\ RowsMove
          /\ \E r \in rows' : r.id = jobs[j].op.id
          /\ \A r \in rows' : r.id = jobs[j].op.id => r.revoked
      BY <2>2, <3>1, RevokeMovesRows
    <3>3. Dead(jobs[j].op.id)'
      BY <2>2, <3>1, <3>2 DEF Dead, Others
    <3> QED
      BY <3>1, <3>2, <3>3 DEF Others
  <2> QED
    BY <2>1, <2>4, <2>5, <2>6, <2>7
<1>6. CASE UNCHANGED vars
  <2>1. UNCHANGED <<keyVars, deployment, phase, enforce, jobs>>
    BY <1>6 DEF vars
  <2>2. KeysInv' /\ RowsMove /\ GateInv'
    BY <2>1, RowsStay, GateStays
  <2> QED
    BY <2>1, <2>2, DeadStays DEF Revoked, Shaped
<1> QED
  BY <1>1, <1>2, <1>3, <1>4, <1>5, <1>6, NextCases

LEMMA KeyPlaneAlways ==
  Spec => []KeyPlaneInv
BY KeyPlaneInit, KeyPlaneNext, PTL DEF Spec

-----------------------------------------------------------------------------
(* A gateway does not stay open beside a valid key of API_KEYS, whichever  *)
(* backends are configured and whatever was created, revoked or crashed.   *)
THEOREM ConfiguredKeysDecide ==
  Spec => []ConfiguredKeysEnforce
<1>1. KeyPlaneInv => ConfiguredKeysEnforce
  <2> SUFFICES ASSUME KeyPlaneInv, ConfiguredKeyIsValid, Serving(Host("gateway")),
                      ~enforce[Host("gateway")]
               PROVE  FALSE
    BY DEF ConfiguredKeysEnforce
  <2>1. Host("gateway") \in Hosts
    BY DEF Host, Hosts
  <2>2. NoneValid
    BY <2>1 DEF KeyPlaneInv, GateInv, Decided, Serving
  <2>3. deployment.keys \in {"env", "sqlite"}
    BY DeploymentAssumption DEF KeyPlaneInv, KeysInv
  <2>4. DOMAIN env = 1..Len(env)
    BY EnvAssumption DEF KeyPlaneInv, KeysInv
  <2> QED
    BY <2>2, <2>3, <2>4 DEF NoneValid, ConfiguredKeyIsValid, Active
<1> QED
  BY <1>1, KeyPlaneAlways, PTL

\* A key with a row that is revoked resolves to nothing.
LEMMA RevokedKeyIsUnresolved ==
  ASSUME KeysInv, deployment.keys = "sqlite", NEW r \in rows, r.revoked
  PROVE  Resolve(r.key) = {}
<1>1. \A q \in Active : q.key # r.key
  BY DEF KeysInv, Unique, Active
<1> QED
  BY <1>1 DEF Resolve, ResolveRow

(* No call is accepted under the id of a key that was revoked, and none    *)
(* that bears it but as anonymous, by a gateway that demands no keys, in   *)
(* any process, whatever boots seed and however many keys there are.       *)
THEOREM RevokedKeysAreDead ==
  Spec => RevocationIsImmediate
<1> DEFINE Immediate(c, r) ==
      /\ jobs[c].op.kind = "call" /\ jobs'[c].audit_id # jobs[c].audit_id
      /\ jobs[r].op.kind = "revoke" /\ jobs[r].changed
      => /\ jobs'[c].audit_id # jobs[r].op.id
         /\ Bears(c, jobs[r].op.id) =>
              ~enforce[HostOf(c)] /\ jobs'[c].audit_id = "anonymous"
<1>1. ASSUME KeyPlaneInv, [Next]_vars, NEW c \in DOMAIN jobs, NEW r \in DOMAIN jobs,
             jobs[c].op.kind = "call", jobs'[c].audit_id # jobs[c].audit_id,
             jobs[r].op.kind = "revoke", jobs[r].changed
      PROVE  /\ jobs'[c].audit_id # jobs[r].op.id
             /\ Bears(c, jobs[r].op.id) =>
                  ~enforce[HostOf(c)] /\ jobs'[c].audit_id = "anonymous"
  <2> USE DEF KeyPlaneInv
  <2>1. /\ DOMAIN jobs = 1..Len(jobs) /\ Len(jobs) \in Nat
        /\ jobs[r].op.id \in AuditIds
        /\ Dead(jobs[r].op.id)
    BY <1>1, JobFacts, OpsAssumption DEF Revoked
  \* Only the verifier names a caller.
  <2>2. ASSUME NEW j \in 1..Len(jobs), Serve(j)
        PROVE  jobs'[c].audit_id \in IdsOf(c)
    <3>1. Quiet(j) \/ Put(j) \/ Create(j) \/ Revoke(j)
      BY <1>1, <2>2, ServeCases
    <3>2. Quiet(j)
      BY <1>1, <2>1, <2>2, <3>1, PutCases, CreateCases, RevokeCases
         DEF PutsTmp, PutsFile, PutsRow, Writes, Others
    <3>3. j = c
      BY <1>1, <2>1, <3>2 DEF Quiet, Others
    <3> QED
      BY <1>1, <3>2, <3>3 DEF Quiet
  <2>3. ~(\E j \in 1..Len(jobs) : Serve(j)) =>
          jobs'[c].audit_id = jobs[c].audit_id
    <3>1. ASSUME NEW p \in Hosts, Start(p) \/ Boot(p) \/ Crash(p)
          PROVE  jobs'[c].audit_id = jobs[c].audit_id
      <4>1. CASE Start(p)
        BY <4>1 DEF Start, Enter
      <4>2. CASE Boot(p)
        BY <1>1, <4>2, BootKeepsKeys
      <4>3. CASE Crash(p)
        BY <1>1, <2>1, <4>3, CrashMoves DEF Cut
      <4> QED
        BY <3>1, <4>1, <4>2, <4>3
    <3>2. ASSUME NEW op \in Expected, Arrive(op)
          PROVE  jobs'[c].audit_id = jobs[c].audit_id
      BY <1>1, <2>1, <3>2, ArriveMoves DEF Arrived
    <3> QED
      BY <1>1, <3>1, <3>2, NextCases DEF vars
  <2>4. jobs'[c].audit_id \in IdsOf(c)
    BY <1>1, <2>2, <2>3
  <2>5. jobs'[c].audit_id # jobs[r].op.id
    <3>1. jobs[r].op.id # "anonymous"
      BY <2>1, AuditIdAssumption
    <3> QED
      BY <1>1, <2>1, <2>4, <3>1, Resolved DEF Dead, IdsOf
  <2>6. ASSUME Bears(c, jobs[r].op.id), enforce[HostOf(c)] PROVE FALSE
    <3>1. PICK row \in rows : row.id = jobs[r].op.id /\ row.key = jobs[c].op.key
      BY <2>6 DEF Bears
    <3>2. Resolve(row.key) = {}
      BY <1>1, <2>1, <3>1, RevokedKeyIsUnresolved DEF Dead
    <3> QED
      BY <2>4, <2>6, <3>1, <3>2 DEF IdsOf
  <2> QED
    BY <2>4, <2>5, <2>6 DEF IdsOf
<1>2. KeyPlaneInv /\ [Next]_vars =>
        [\A c \in DOMAIN jobs : \A r \in DOMAIN jobs : Immediate(c, r)]_vars
  BY <1>1
<1> QED
  BY <1>2, KeyPlaneAlways, PTL DEF Spec, RevocationIsImmediate

-----------------------------------------------------------------------------
(* The audit file: whose append is under way, and whether it is torn.      *)

LogOf(Lines) == [lines: Seq(Lines), torn: BOOLEAN, writer: SUBSET Hosts]
Logged == \E Lines : log \in LogOf(Lines)
OneWriter == deployment.single => log.writer \in {Free, {"all"}}

\* What a step does to the log: a file that is torn stays so.
LogMove == Logged' /\ OneWriter' /\ (Torn => Torn')

LEMMA HostsAreHosts ==
  ASSUME NEW j
  PROVE  HostOf(j) \in Hosts /\ (deployment.single => HostOf(j) = "all")
BY DEF HostOf, Host, Hosts

LEMMA LogStays ==
  ASSUME Logged, OneWriter, UNCHANGED <<log, deployment>>
  PROVE  LogMove
BY DEF LogMove, Logged, OneWriter, Torn

LEMMA BeginMovesLog ==
  ASSUME Logged, OneWriter, UNCHANGED deployment, NEW p \in Hosts, BeginAppend(p),
         deployment.single => p = "all"
  PROVE  LogMove
<1> PICK Lines : log \in LogOf(Lines)
  BY DEF Logged
<1>1. log' = [log EXCEPT !.writer = {p}]
  BY DEF BeginAppend
<1>2. /\ log' \in LogOf(Lines)
      /\ log'.lines = log.lines /\ log'.torn = log.torn /\ log'.writer = {p}
  BY <1>1 DEF LogOf
<1> QED
  BY <1>2 DEF LogMove, Logged, OneWriter, Torn

LEMMA AppendMovesLog ==
  ASSUME Logged, UNCHANGED deployment, NEW e,
         log' \in [lines: {Append(log.lines, e)}, torn: BOOLEAN, writer: SUBSET Hosts],
         OneWriter',
         log.torn => log'.torn \/ e = Garbage
  PROVE  LogMove
<1> PICK Lines : log \in LogOf(Lines)
  BY DEF Logged
<1> DEFINE Wider == Lines \cup {e}
<1>1. log.lines \in Seq(Wider) /\ log'.lines = Append(log.lines, e)
  BY SeqWidens DEF LogOf
<1>2. /\ Append(log.lines, e) \in Seq(Wider)
      /\ Len(Append(log.lines, e)) = Len(log.lines) + 1 /\ Len(log.lines) \in Nat
      /\ Append(log.lines, e)[Len(log.lines) + 1] = e
      /\ \A i \in 1..Len(log.lines) : Append(log.lines, e)[i] = log.lines[i]
  BY <1>1
<1>3. log' \in LogOf(Wider)
  BY <1>2 DEF LogOf
<1>4. Torn => Torn'
  BY <1>1, <1>2 DEF Torn
<1> QED
  BY <1>3, <1>4 DEF LogMove, Logged

LEMMA EndMovesLog ==
  ASSUME Logged, UNCHANGED deployment, NEW e, EndAppend(e)
  PROVE  LogMove
<1> DEFINE line == IF log.torn THEN Garbage ELSE e
<1>1. log' = [lines |-> Append(log.lines, line), torn |-> FALSE, writer |-> Free]
  BY DEF EndAppend
<1>2. log.torn => line = Garbage
  OBVIOUS
<1> HIDE DEF line
<1> QED
  BY <1>1, <1>2, AppendMovesLog DEF OneWriter, Free

LEMMA BreakMovesLog ==
  ASSUME Logged, UNCHANGED deployment, BreakAppend
  PROVE  LogMove
<1> PICK Lines : log \in LogOf(Lines)
  BY DEF Logged
<1> PICK torn \in {log.torn, TRUE} : log' = [log EXCEPT !.torn = torn, !.writer = Free]
  BY DEF BreakAppend
<1>1. /\ log' \in LogOf(Lines)
      /\ log'.lines = log.lines /\ log'.torn = torn /\ log'.writer = Free
  BY DEF LogOf, Free
<1> QED
  BY <1>1 DEF LogMove, Logged, OneWriter, Torn

LEMMA InsertMovesLog ==
  ASSUME Logged, OneWriter, UNCHANGED deployment, NEW e, InsertEvent(e)
  PROVE  LogMove
<1> PICK Lines : log \in LogOf(Lines)
  BY DEF Logged
<1>1. log' = [log EXCEPT !.lines = Append(log.lines, e)]
  BY DEF InsertEvent
<1>2. /\ log' \in [lines: {Append(log.lines, e)}, torn: BOOLEAN, writer: SUBSET Hosts]
      /\ log'.torn = log.torn /\ log'.writer = log.writer
  BY <1>1 DEF LogOf
<1> QED
  BY <1>2, AppendMovesLog DEF OneWriter

Garbled(j) == jobs[j].answer = "garbled"

ReadInv ==
  /\ Logged
  /\ OneWriter
  /\ \A j \in 1..Len(jobs) : Garbled(j) => Torn \/ ~deployment.single

LEMMA ServeKeepsReads ==
  ASSUME Shaped, KeysInv, ReadInv, NEW j \in 1..Len(jobs), Serve(j)
  PROVE  ReadInv'
<1>1. Shaped' /\ Running(j) /\ Others(j)
  BY ServeCases, PutCases, CreateCases, RevokeCases
     DEF Quiet, PutsTmp, PutsFile, PutsRow, Writes
<1>2. UNCHANGED deployment
  BY <1>1 DEF Running, Idle, Fixed
<1> USE DEF ReadInv
<1>3. SUFFICES LogMove /\ (Garbled(j)' => Garbled(j) \/ Torn \/ ~deployment.single)
  <2>1. \A k \in 1..Len(jobs') : k # j => (Garbled(k)' <=> Garbled(k))
    BY <1>1 DEF Others, Garbled
  <2> QED
    BY <1>1, <1>2, <1>3, <2>1 DEF LogMove, Others
<1>4. CASE Record(j)
  <2>1. LogMove
    BY <1>2, <1>4, HostsAreHosts, BeginMovesLog, EndMovesLog, InsertMovesLog DEF Record
  <2>2. jobs'[j].answer \in {jobs[j].answer, "ok"}
    BY <1>4, GotoMoves, AnswerMoves DEF Record, Places, Answers, Moved
  <2> QED
    BY <2>1, <2>2 DEF Garbled
<1>5. CASE RecordFails(j)
  <2>1. LogMove
    BY <1>2, <1>5, BreakMovesLog, EndMovesLog, InsertMovesLog, LogStays DEF RecordFails
  <2>2. jobs'[j].answer = "error"
    BY <1>5, AnswerMoves DEF RecordFails, Answers, Moved
  <2> QED
    BY <2>1, <2>2 DEF Garbled
<1>6. CASE ReadPage(j)
  <2>1. LogMove /\ jobs'[j].answer \in {jobs[j].answer, "ok"}
    BY <1>2, <1>6, ReadPageIsQuiet, LogStays DEF ReadPage, Stores
  <2> QED
    BY <1>1, <2>1 DEF Others, Garbled
<1>7. CASE ReadFails(j)
  <2>1. LogMove
    BY <1>2, <1>7, LogStays DEF ReadFails, Stores
  <2>2. Garbled(j)' => Torn \/ ~deployment.single
    <3>1. CASE Answer(j, "error")
      BY <3>1, AnswerMoves DEF Answers, Moved, Garbled
    <3>2. CASE deployment.audit = "file" /\ MayMeetFragment
      BY <1>7, <3>2, HostsAreHosts DEF ReadFails, MayReadFile, MayMeetFragment, OneWriter, Free
    <3> QED
      BY <1>7, <3>1, <3>2 DEF ReadFails
  <2> QED
    BY <2>1, <2>2
<1>8. CASE Refuse(j)
  <2>1. LogMove /\ jobs'[j].answer = "refused"
    BY <1>2, <1>8, AnswerMoves, LogStays DEF Refuse, Stores, Answers, Moved
  <2> QED
    BY <2>1 DEF Garbled
<1>9. CASE StoreFails(j)
  <2>1. LogMove /\ jobs'[j].answer = "error"
    BY <1>2, <1>9, AnswerMoves, LogStays DEF StoreFails, Stores, Answers, Moved
  <2> QED
    BY <2>1 DEF Garbled
<1>10. CASE Put(j) \/ Create(j) \/ Revoke(j)
  <2>1. LogMove
    BY <1>2, <1>10, LogStays DEF Put, Create, Revoke
  <2>2. jobs'[j].answer = jobs[j].answer
    BY <1>10, PutCases, CreateCases, RevokeCases DEF PutsTmp, PutsFile, PutsRow, Writes
  <2> QED
    BY <2>1, <2>2 DEF Garbled
<1>11. CASE Verify(j)
  <2>1. LogMove
    BY <1>2, <1>11, LogStays DEF Verify, Stores
  <2>2. jobs'[j].answer \in {jobs[j].answer, "refused"}
    BY <1>11, Resolved, VerifyIsQuiet
  <2> QED
    BY <2>1, <2>2 DEF Garbled
<1> QED
  BY <1>4, <1>5, <1>6, <1>7, <1>8, <1>9, <1>10, <1>11 DEF Serve

LEMMA ReadInit ==
  Init => ReadInv
<1> SUFFICES ASSUME Init PROVE ReadInv
  OBVIOUS
<1>1. log \in LogOf({}) /\ log.writer = Free
  BY DEF Init, LogInit, LogOf, Free
<1> QED
  BY <1>1 DEF Init, ReadInv, Logged, OneWriter

LEMMA ReadNext ==
  KeyPlaneInv /\ ReadInv /\ [Next]_vars => ReadInv'
<1> SUFFICES ASSUME Shaped, KeysInv, GateInv, ReadInv, [Next]_vars PROVE ReadInv'
  BY DEF KeyPlaneInv
<1> USE DEF ReadInv
<1>1. ASSUME UNCHANGED <<log, deployment, jobs>> PROVE ReadInv'
  BY <1>1, LogStays DEF LogMove, Garbled
<1>2. ASSUME NEW p \in Hosts, Start(p) PROVE ReadInv'
  BY <1>1, <1>2 DEF Start, Enter, Fixed, Stores
<1>3. ASSUME NEW p \in Hosts, Boot(p) PROVE ReadInv'
  <2>1. UNCHANGED log
    BY <1>3 DEF Boot, OpenConfig, SeedFile, SeedDatabase, Bind, OpenKeys, BuildVerifier, Stores
  <2> QED
    BY <1>1, <1>3, <2>1, BootKeepsKeys
<1>4. ASSUME NEW p \in Hosts, Crash(p) PROVE ReadInv'
  <2>1. Cut(p) /\ UNCHANGED deployment
    BY <1>4, CrashMoves
  <2>2. LogMove
    BY <1>4, <2>1, BreakMovesLog, LogStays DEF Crash
  <2> QED
    BY <2>1, <2>2 DEF LogMove, Cut, Garbled
<1>5. ASSUME NEW op \in Expected, Arrive(op) PROVE ReadInv'
  <2>1. Arrived(op) /\ UNCHANGED <<log, deployment>>
    BY <1>5, ArriveMoves DEF Stores, Idle, Fixed
  <2> QED
    BY <2>1, LogStays, JobFacts DEF LogMove, Arrived, Garbled
<1>6. CASE UNCHANGED vars
  BY <1>1, <1>6 DEF vars
<1> QED
  BY <1>2, <1>3, <1>4, <1>5, <1>6, ServeKeepsReads, NextCases

(* An administrator's query of the audit log meets a line that cannot be   *)
(* parsed only in a file that is torn, or that several processes append    *)
(* to: one process keeps its own appends out by its lock.                  *)
THEOREM OneProcessReadsWholeLines ==
  Spec => []NoFragmentUntilTorn
<1>1. KeyPlaneInv /\ ReadInv => NoFragmentUntilTorn
  BY JobFacts DEF KeyPlaneInv, ReadInv, Garbled, NoFragmentUntilTorn
<1> QED
  BY <1>1, KeyPlaneAlways, ReadInit, ReadNext, PTL DEF Spec

-----------------------------------------------------------------------------
(* The keys of the ledger.                                                 *)

Pair(r) == [id |-> r.id, key |-> r.key]
Pairs(S) == {Pair(r) : r \in S}

\* Rows that are added with new ids and keys are entries that are issued.
LEMMA AddedRowsAreIssued ==
  ASSUME KeysInv, KeysInv', UNCHANGED stored, NEW New, rows' = rows \cup New, New # {},
         \A q \in New : ~q.revoked /\ \A r \in rows : r.id # q.id
  PROVE  \E entries \in SUBSET [id: AuditIds, key: Keys] : Ledger!Issue(entries)
<1> DEFINE entries == Pairs(New)
<1>1. entries \in SUBSET [id: AuditIds, key: Keys]
  BY DEF KeysInv, Row, Pairs, Pair
<1>2. Pairs(Active)' = Pairs(Active) \cup entries
  BY DEF Active, Pairs
<1>3. Pairs(rows \ Active)' = Pairs(rows \ Active)
  BY DEF Active, Pairs
<1>4. Pairs(Active) \cup Pairs(rows \ Active) = Pairs(rows)
  BY DEF Active, Pairs
<1>5. ASSUME NEW e \in entries, NEW d \in Pairs(rows) \cup entries, e.id = d.id \/ e.key = d.key
      PROVE  e = d
  <2> PICK q \in New : e = Pair(q)
    BY DEF Pairs
  <2> PICK r \in rows' : d = Pair(r)
    BY DEF Pairs
  <2>1. q.id = r.id \/ q.key = r.key
    BY <1>5 DEF Pair
  <2>2. q = r
    BY <2>1 DEF KeysInv, Unique
  <2> QED
    BY <2>2
<1>6. entries \cap Pairs(rows) = {}
  <2> SUFFICES ASSUME NEW q \in New, NEW r \in rows, Pair(q) = Pair(r) PROVE FALSE
    BY DEF Pairs
  <2>1. q.id = Pair(q).id /\ r.id = Pair(r).id
    BY DEF Pair
  <2> QED
    BY <2>1
<1>7. entries # {}
  BY DEF Pairs
<1> HIDE DEF entries
<1>8. Ledger!Issue(entries)
  BY <1>2, <1>3, <1>4, <1>5, <1>6, <1>7 DEF Ledger!Issue, Ledger!Issued, Pairs, Pair
<1> QED
  BY <1>1, <1>8

LEMMA RevokedRowIsRetired ==
  ASSUME KeysInv, UNCHANGED stored, NEW id, CanRevoke(id), RevokeKey(id)
  PROVE  \E entry \in Pairs(Active) : Ledger!Retire(entry)
<1> DEFINE after(r) == [r EXCEPT !.revoked = r.revoked \/ r.id = id]
<1> PICK dead \in Active : dead.id = id
  BY DEF CanRevoke
<1>1. rows' = {after(r) : r \in rows}
  BY DEF RevokeKey
<1>2. ASSUME NEW r \in rows
      PROVE  Pair(after(r)) = Pair(r) /\ (after(r).revoked <=> r.revoked \/ r.id = id)
  <2> DEFINE flag == r.revoked \/ r.id = id
  <2>1. r \in Row /\ flag \in BOOLEAN
    BY DEF KeysInv, Row
  <2> HIDE DEF flag
  <2>2. /\ [r EXCEPT !.revoked = flag].id = r.id
        /\ [r EXCEPT !.revoked = flag].key = r.key
        /\ [r EXCEPT !.revoked = flag].revoked = flag
    BY <2>1 DEF Row
  <2> QED
    BY <2>2 DEF flag, Pair
<1> HIDE DEF after
<1>3. \A r \in rows : r.id = id => r = dead
  BY DEF KeysInv, Unique, Active
<1>4. \A r \in rows : Pair(r) = Pair(dead) => r = dead
  <2> SUFFICES ASSUME NEW r \in rows, Pair(r) = Pair(dead) PROVE r = dead
    OBVIOUS
  <2>1. r.id = Pair(r).id /\ dead.id = Pair(dead).id
    BY DEF Pair
  <2> QED
    BY <1>3, <2>1
<1>5. Active' = {after(r) : r \in Active \ {dead}}
  BY <1>1, <1>2, <1>3 DEF Active
<1>6. (rows \ Active)' = {after(r) : r \in (rows \ Active) \cup {dead}}
  BY <1>1, <1>2, <1>3 DEF Active
<1>7. Pairs(Active)' = Pairs(Active) \ {Pair(dead)}
  BY <1>2, <1>4, <1>5 DEF Pairs, Active
<1>8. Pairs(rows \ Active)' = Pairs(rows \ Active) \cup {Pair(dead)}
  BY <1>2, <1>6 DEF Pairs, Active
<1>9. Pair(dead) \in Pairs(Active)
  BY DEF Pairs
<1>10. Ledger!Retire(Pair(dead))
  BY <1>7, <1>8, <1>9 DEF Ledger!Retire, Pairs, Pair
<1> QED
  BY <1>9, <1>10

-----------------------------------------------------------------------------
(* The invariant about the configuration: it is missing only until the     *)
(* first process has seeded it, and one request at a time replaces it.     *)

Configured == stored \in [Sections -> Values]

\* What is known of a process by its phase.
Booting(p) ==
  /\ p \notin Processes => phase[p] = "new"
  /\ phase[p] \in {"bind", "keys", "verifier", "serving"} => Configured
  /\ phase[p] \in {"seed", "rename"} => stored = Nothing /\ p = Host("gateway")
  /\ phase[p] = "rename" => tmp = DefaultConfig /\ deployment.config = "file"
  /\ p # Host("gateway") /\ phase[p] # "new" => Configured

\* The request is alone on its event loop.
Alone(j) == \A k \in 1..Len(jobs) : Holds(k) /\ HostOf(k) = HostOf(j) => k = j

Replacing(j) == jobs[j].op.kind = "put" /\ tmp = Target(j)

ConfInv ==
  /\ Configured \/ stored = Nothing
  /\ {yaml, tmp} \subseteq Contents
  /\ deployment.config = "file" /\ stored = Nothing => yaml = Nothing
  /\ \A p \in Hosts : Booting(p)
  /\ Len(jobs) > 0 => Configured
  /\ \A j \in 1..Len(jobs) :
       /\ Holds(j) => Alone(j)
       /\ jobs[j].pc = "replace" => Replacing(j)

LEMMA NothingIsNotConfigured ==
  ~(Configured /\ stored = Nothing)
BY SectionAssumption, ValueAssumption DEF Configured, Nothing

LEMMA Seeds ==
  ASSUME yaml \in Contents
  PROVE  DefaultConfig \in [Sections -> Values] /\ SeedFromYaml \in [Sections -> Values]
BY ValueAssumption DEF DefaultConfig, SeedFromYaml, Contents

\* Where the other processes are does not matter to one that waits, ...
LEMMA ProcessEnters ==
  ASSUME ConfInv, GateInv, NEW p \in Hosts, NEW next \in Phases,
         phase' = [phase EXCEPT ![p] = next], UNCHANGED <<stored, tmp, deployment>>,
         Booting(p)'
  PROVE  \A q \in Hosts : Booting(q)'
<1> SUFFICES ASSUME NEW q \in Hosts, q # p PROVE Booting(q)'
  OBVIOUS
<1>1. phase'[q] = phase[q]
  BY DEF GateInv
<1> QED
  BY <1>1 DEF ConfInv, Booting, Processes, Host, Configured

\* ... and the requests do not notice.
LEMMA RequestsStay ==
  ASSUME ConfInv, UNCHANGED <<jobs, stored, tmp, deployment>>
  PROVE  /\ Len(jobs') > 0 => Configured'
         /\ \A j \in 1..Len(jobs') :
              /\ Holds(j)' => Alone(j)'
              /\ jobs'[j].pc = "replace" => Replacing(j)'
BY DEF ConfInv, Holds, OnLoop, Alone, HostOf, Host, Replacing, Target, Configured

LEMMA StartKeepsConf ==
  ASSUME ConfInv, GateInv, NEW p \in Hosts, Start(p)
  PROVE  ConfInv'
<1>1. /\ phase' = [phase EXCEPT ![p] = "config"] /\ p \in Processes
      /\ UNCHANGED <<jobs, deployment, stored, tmp, yaml>>
      /\ phase[p] = "new" /\ p = "admin" => Serving("gateway")
      /\ phase[p] \in {"new", "down"}
  BY DEF Start, Enter, Fixed, Stores, configVars
<1>2. p # Host("gateway") => Configured
  BY <1>1 DEF ConfInv, Booting, Processes, Host, Serving, Hosts
<1>3. Booting(p)'
  BY <1>1, <1>2 DEF Booting, Processes, Host, Configured, GateInv
<1> QED
  BY <1>1, <1>3, ProcessEnters, RequestsStay DEF ConfInv, Configured, Phases

\* The first configuration, by the only process there is.
LEMMA Establishes ==
  ASSUME ConfInv, GateInv, Shaped, NEW p \in Hosts,
         phase[p] \in {"seed", "rename"},
         phase' = [phase EXCEPT ![p] = "bind"], UNCHANGED <<jobs, deployment, yaml>>,
         stored' \in [Sections -> Values], tmp' \in Contents
  PROVE  ConfInv'
<1>1. p = Host("gateway") /\ stored = Nothing
  BY DEF ConfInv, Booting
<1>2. Len(jobs) = 0
  BY <1>1, NothingIsNotConfigured, JobFacts DEF ConfInv
<1>3. Configured'
  BY DEF Configured
<1>4. ASSUME NEW q \in Hosts PROVE Booting(q)'
  <2>1. CASE q = p
    BY <1>1, <1>3, <2>1 DEF ConfInv, Booting, Processes, Host, GateInv
  <2>2. CASE q # p
    <3>1. phase'[q] = phase[q] /\ phase[q] = "new"
      BY <1>1, <2>2, NothingIsNotConfigured DEF ConfInv, Booting, GateInv
    <3> QED
      BY <3>1 DEF Booting
  <2> QED
    BY <2>1, <2>2
<1>5. stored' # Nothing
  BY <1>3, NothingIsNotConfigured, SectionAssumption, ValueAssumption DEF Nothing
<1>6. Len(jobs') = 0 /\ Nothing' = Nothing
  BY <1>2 DEF Nothing
<1> QED
  BY <1>3, <1>4, <1>5, <1>6 DEF ConfInv

\* What a step does to the configuration.
SeedMove ==
  \/ UNCHANGED stored
  \/ ~Configured /\ Configured' /\ stored' = Seed /\ UNCHANGED <<keyVars, jobs>>

ConfMove ==
  \/ SeedMove
  \/ /\ Configured /\ UNCHANGED keyVars
     /\ \E j \in 1..Len(jobs) :
          /\ jobs[j].op.kind = "put"
          /\ jobs[j].op.section \in Sections /\ jobs[j].op.value \in Values
          /\ stored' = Target(j)

LEMMA BootKeepsConf ==
  ASSUME ConfInv, GateInv, Shaped, NEW p \in Hosts, Boot(p)
  PROVE  ConfInv' /\ SeedMove
<1> USE DEF Phases
<1>1. /\ \A q \in Hosts : Booting(q)
      /\ phase[p] # "new" => p \in Processes
  BY DEF ConfInv, Booting
\* A process moves between phases and touches neither store nor request.
<1>2. ASSUME NEW next \in Phases, phase' = [phase EXCEPT ![p] = next],
             UNCHANGED <<jobs, deployment, stored, tmp, yaml>>, Booting(p)'
      PROVE  ConfInv' /\ SeedMove
  BY <1>2, ProcessEnters, RequestsStay DEF ConfInv, Configured, SeedMove
<1>3. CASE OpenConfig(p)
  <2>1. /\ phase[p] = "config" /\ UNCHANGED <<jobs, deployment, stored, tmp, yaml>>
        /\ \/ stored # Nothing /\ phase' = [phase EXCEPT ![p] = "bind"]
           \/ stored = Nothing /\ phase' = [phase EXCEPT ![p] = "seed"]
    BY <1>3 DEF OpenConfig, Enter, Fixed, Exists, Stores, configVars
  <2>2. CASE stored # Nothing /\ phase' = [phase EXCEPT ![p] = "bind"]
    <3>1. Booting(p)'
      BY <1>1, <2>1, <2>2 DEF ConfInv, Booting, Processes, Host, Configured, GateInv
    <3> QED
      BY <1>2, <2>1, <2>2, <3>1
  <2>3. CASE stored = Nothing /\ phase' = [phase EXCEPT ![p] = "seed"]
    <3>1. p = Host("gateway") /\ Nothing' = Nothing
      BY <1>1, <2>1, <2>3, NothingIsNotConfigured DEF Booting, Nothing
    <3>2. Booting(p)'
      BY <1>1, <2>1, <2>3, <3>1 DEF Booting, Processes, Host, Configured, GateInv
    <3> QED
      BY <1>2, <2>1, <2>3, <3>2
  <2> QED
    BY <2>1, <2>2, <2>3
<1>4. CASE SeedFile(p)
  <2>1. /\ UNCHANGED <<jobs, deployment, yaml, keyVars>> /\ deployment.config = "file"
        /\ \/ /\ phase[p] = "seed" /\ phase' = [phase EXCEPT ![p] = "rename"]
              /\ tmp' = DefaultConfig /\ stored' = stored
           \/ /\ phase[p] = "rename" /\ phase' = [phase EXCEPT ![p] = "bind"]
              /\ stored' = tmp /\ tmp' = Nothing
    BY <1>4 DEF SeedFile, WriteTmp, ReplaceFile, Enter, Fixed
  <2>2. DefaultConfig \in Contents /\ DefaultConfig \in [Sections -> Values]
    BY Seeds DEF ConfInv, Contents
  <2>3. CASE phase[p] = "seed"
    <3>1. p = Host("gateway") /\ stored = Nothing
      BY <1>1, <2>3 DEF Booting
    <3>2. Len(jobs) = 0
      BY <3>1, NothingIsNotConfigured, JobFacts DEF ConfInv
    <3>3. /\ phase' = [phase EXCEPT ![p] = "rename"]
          /\ tmp' = DefaultConfig /\ stored' = stored
      BY <2>1, <2>3
    <3>4. ASSUME NEW q \in Hosts PROVE Booting(q)'
      <4>1. CASE q = p
        BY <1>1, <2>1, <2>3, <3>1, <3>3, <4>1
           DEF Booting, Processes, Host, GateInv, Configured, DefaultConfig, Nothing
      <4>2. CASE q # p
        <5>1. phase'[q] = phase[q] /\ phase[q] = "new"
          BY <1>1, <3>1, <3>3, <4>2, NothingIsNotConfigured DEF Booting, GateInv
        <5> QED
          BY <5>1 DEF Booting
      <4> QED
        BY <4>1, <4>2
    <3> QED
      BY <2>1, <2>2, <3>1, <3>2, <3>3, <3>4 DEF ConfInv, Contents, Configured, Nothing, SeedMove
  <2>4. CASE phase[p] = "rename"
    <3>1. /\ stored' = DefaultConfig /\ tmp' = Nothing /\ Nothing \in Contents
          /\ phase' = [phase EXCEPT ![p] = "bind"] /\ stored = Nothing
      BY <1>1, <2>1, <2>4 DEF Booting, Nothing, Contents
    <3>2. ConfInv'
      BY <2>1, <2>2, <2>4, <3>1, Establishes
    <3> QED
      BY <2>1, <2>2, <3>1, <3>2, NothingIsNotConfigured DEF SeedMove, Configured, Seed, Booting, ConfInv
  <2> QED
    BY <2>1, <2>3, <2>4
<1>5. CASE SeedDatabase(p)
  <2>1. /\ phase[p] = "seed" /\ phase' = [phase EXCEPT ![p] = "bind"]
        /\ UNCHANGED <<jobs, deployment, yaml, tmp, keyVars>> /\ stored' = SeedFromYaml
        /\ deployment.config = "sqlite"
    BY <1>5 DEF SeedDatabase, SeedTable, Enter, Fixed
  <2>2. SeedFromYaml \in [Sections -> Values] /\ tmp' \in Contents /\ stored = Nothing
    BY <1>1, <2>1, Seeds DEF ConfInv, Booting
  <2>3. ConfInv'
    BY <2>1, <2>2, Establishes
  <2> QED
    BY <2>1, <2>2, <2>3, NothingIsNotConfigured DEF SeedMove, Configured, Seed, Booting, ConfInv
<1>6. CASE Bind(p) \/ OpenKeys(p) \/ BuildVerifier(p)
  <2>1. /\ phase[p] \in {"bind", "keys", "verifier"}
        /\ UNCHANGED <<jobs, deployment, stored, tmp, yaml>>
        /\ \E next \in {"down", "keys", "verifier", "serving"} :
             phase' = [phase EXCEPT ![p] = next]
    BY <1>6 DEF Bind, OpenKeys, BuildVerifier, Enter, Fixed, Stores, configVars
  <2> PICK next \in {"down", "keys", "verifier", "serving"} :
        phase' = [phase EXCEPT ![p] = next]
    BY <2>1
  <2>2. Booting(p)'
    BY <1>1, <2>1 DEF Booting, Processes, Host, Configured, GateInv
  <2> QED
    BY <1>2, <2>1, <2>2
<1> QED
  BY <1>3, <1>4, <1>5, <1>6 DEF Boot

LEMMA CrashKeepsConf ==
  ASSUME ConfInv, GateInv, Shaped, NEW p \in Hosts, Crash(p)
  PROVE  ConfInv' /\ ConfMove
<1>1. /\ phase' = [phase EXCEPT ![p] = "down"] /\ phase[p] # "new"
      /\ UNCHANGED <<deployment, stored, tmp, yaml>>
  BY DEF Crash, configVars
<1>2. Cut(p)
  BY CrashMoves
<1>3. Booting(p)'
  BY <1>1 DEF ConfInv, Booting, Processes, Host, Configured, GateInv
<1>4. \A q \in Hosts : Booting(q)'
  BY <1>1, <1>3, ProcessEnters DEF Phases
<1>5. \A j \in 1..Len(jobs') :
        /\ HostOf(j)' = HostOf(j)
        /\ Holds(j)' => Holds(j)
        /\ jobs'[j].pc = "replace" => jobs[j].pc = "replace"
        /\ Replacing(j) => Replacing(j)'
  BY <1>1, <1>2 DEF Cut, HostOf, Host, Holds, OnLoop, Replacing, Target
<1>6. \A j \in 1..Len(jobs') : Holds(j)' => Alone(j)'
  BY <1>2, <1>5 DEF ConfInv, Alone, Cut
<1> QED
  BY <1>1, <1>2, <1>4, <1>5, <1>6 DEF ConfInv, Configured, Cut, ConfMove, SeedMove

LEMMA ArriveKeepsConf ==
  ASSUME ConfInv, Shaped, NEW op \in Expected, Arrive(op)
  PROVE  ConfInv' /\ ConfMove
<1>1. /\ Arrived(op) /\ UNCHANGED <<deployment, stored, tmp, yaml, phase>>
      /\ \E p \in {Host("gateway"), Host("admin")} : Serving(p)
  BY ArriveMoves DEF Stores, Idle, Fixed, configVars
<1>2. Configured /\ Configured'
  BY <1>1 DEF ConfInv, Booting, Serving, Host, Hosts, Configured
<1>3. \A q \in Hosts : Booting(q)'
  BY <1>1 DEF ConfInv, Booting, Processes, Host, Configured
<1>4. \A j \in 1..Len(jobs') :
        /\ j \in 1..Len(jobs) =>
             /\ HostOf(j)' = HostOf(j) /\ (Holds(j)' <=> Holds(j))
             /\ jobs'[j].pc = jobs[j].pc
             /\ Replacing(j) => Replacing(j)'
        /\ j \notin 1..Len(jobs) => ~Holds(j)' /\ jobs'[j].pc # "replace"
  BY <1>1, JobFacts DEF Arrived, HostOf, Host, Holds, OnLoop, Replacing, Target
<1>5. \A j \in 1..Len(jobs') : Holds(j)' => Alone(j)'
  BY <1>1, <1>4, JobFacts DEF ConfInv, Alone, Arrived
<1> QED
  BY <1>1, <1>2, <1>3, <1>4, <1>5 DEF ConfInv, ConfMove, SeedMove

\* The request that runs is alone on its loop, now and after its step.
LEMMA RunsAlone ==
  ASSUME ConfInv, Shaped, NEW j \in 1..Len(jobs), Running(j), Others(j),
         Holds(j)' => OnLoop(j) \/ jobs[j].op.kind = "call"
  PROVE  \A k \in 1..Len(jobs') : Holds(k)' => Alone(k)'
<1>1. UNCHANGED deployment
  BY DEF Running, Idle, Fixed
<1>2. Holds(j)' => Alone(j)
  BY JobFacts DEF Running, MayRun, Alone
<1>3. \A k \in 1..Len(jobs) :
        HostOf(k)' = HostOf(k) /\ (k # j => (Holds(k)' <=> Holds(k)))
  BY <1>1 DEF Others, HostOf, Host, Holds, OnLoop
<1>4. Len(jobs') = Len(jobs)
  BY DEF Others
<1> QED
  BY <1>2, <1>3, <1>4 DEF ConfInv, Alone

LEMMA ServeKeepsConf ==
  ASSUME ConfInv, GateInv, Shaped, KeysInv, NEW j \in 1..Len(jobs), Serve(j)
  PROVE  ConfInv' /\ ConfMove
<1>1. /\ Running(j)
      /\ Quiet(j) \/ Put(j) \/ Create(j) \/ Revoke(j)
  BY ServeCases
<1>2. UNCHANGED <<phase, deployment>> /\ Configured
  BY <1>1, JobFacts DEF Running, Idle, Fixed, ConfInv
<1>3. Others(j) /\ (Holds(j)' => OnLoop(j) \/ jobs[j].op.kind = "call")
  <2>1. Others(j)
    BY <1>1, PutCases, CreateCases, RevokeCases
       DEF Quiet, PutsTmp, PutsFile, PutsRow, Writes
  <2> QED
    BY <2>1 DEF Others, Holds, OnLoop
<1>4. /\ Len(jobs') = Len(jobs)
      /\ \A k \in 1..Len(jobs') : Holds(k)' => Alone(k)'
  BY <1>1, <1>3, RunsAlone DEF Others
\* What is left to show.
<1>5. ASSUME Configured', {yaml', tmp'} \subseteq Contents, yaml' = yaml,
             \A k \in 1..Len(jobs) : jobs'[k].pc = "replace" => Replacing(k)'
      PROVE  ConfInv'
  <2>1. \A q \in Hosts : Booting(q)'
    <3>1. ASSUME NEW q \in Hosts PROVE phase[q] \notin {"seed", "rename"}
      BY <1>2, NothingIsNotConfigured DEF ConfInv, Booting
    <3> QED
      BY <1>2, <1>5, <3>1 DEF ConfInv, Booting, Processes, Host
  <2>2. stored' # Nothing'
    BY <1>5, SectionAssumption, ValueAssumption DEF Configured, Nothing
  <2> QED
    BY <1>4, <1>5, <2>1, <2>2 DEF ConfInv, Nothing
<1>6. CASE UNCHANGED configVars /\ jobs'[j].pc # "replace"
  <2>1. \A k \in 1..Len(jobs) : jobs'[k].pc = "replace" => Replacing(k)'
    BY <1>3, <1>6 DEF ConfInv, Others, Replacing, Target, configVars
  <2> QED
    BY <1>2, <1>5, <1>6, <2>1 DEF configVars, ConfInv, Configured, ConfMove, SeedMove
<1>7. CASE Put(j)
  <2>1. /\ UNCHANGED keyVars
        /\ PutsTmp(j) \/ PutsFile(j) \/ PutsRow(j)
    BY <1>7, PutCases
  <2>2. /\ jobs[j].op.kind = "put" /\ OnLoop(j)
        /\ jobs[j].op.section \in Sections /\ jobs[j].op.value \in Values
    BY <2>1, JobFacts, OpsAssumption DEF PutsTmp, PutsFile, PutsRow, Writes, OnLoop
  <2>3. /\ Target(j) \in [Sections -> Values] /\ Target(j) \in Contents
        /\ Nothing \in Contents
    BY <1>2, <2>2 DEF Target, Configured, Contents, Nothing
  <2>4. \A k \in 1..Len(jobs) \ {j} : jobs'[k].pc # "replace"
    <3>1. ASSUME NEW k \in 1..Len(jobs) \ {j}, jobs[k].pc = "replace" PROVE FALSE
      <4>1. Holds(k) /\ HostOf(k) = HostOf(j)
        BY <2>2, <3>1 DEF ConfInv, Replacing, Holds, OnLoop, HostOf
      <4> QED
        BY <1>1, <2>2, <3>1, <4>1, JobFacts DEF Running, MayRun
    <3> QED
      BY <1>3, <3>1 DEF Others
  <2>5. CASE PutsTmp(j)
    <3>1. /\ tmp' = Target(j) /\ UNCHANGED <<yaml, stored>>
          /\ jobs'[j].op = jobs[j].op
      BY <1>3, <2>5 DEF PutsTmp, Others
    <3>2. Replacing(j)'
      BY <2>2, <3>1 DEF Replacing, Target
    <3> QED
      BY <1>2, <1>5, <2>3, <2>4, <3>1, <3>2 DEF ConfInv, Configured, ConfMove, SeedMove
  <2>6. CASE PutsFile(j)
    <3>1. /\ stored' = tmp /\ tmp' = Nothing /\ yaml' = yaml
          /\ jobs[j].pc = "replace" /\ jobs'[j].pc # "replace"
      BY <2>6 DEF PutsFile, Writes
    <3>2. stored' = Target(j)
      BY <3>1 DEF ConfInv, Replacing
    <3> QED
      BY <1>2, <1>5, <2>1, <2>2, <2>3, <2>4, <3>1, <3>2 DEF ConfInv, Configured, ConfMove, SeedMove
  <2>7. CASE PutsRow(j)
    <3>1. /\ stored' = Target(j) /\ UNCHANGED <<yaml, tmp>>
          /\ jobs'[j].pc # "replace"
      BY <2>7 DEF PutsRow, Writes
    <3> QED
      BY <1>2, <1>5, <2>1, <2>2, <2>3, <2>4, <3>1 DEF ConfInv, Configured, ConfMove, SeedMove
  <2> QED
    BY <2>1, <2>5, <2>6, <2>7
<1>8. CASE Quiet(j)
  BY <1>6, <1>8 DEF Quiet
<1>9. CASE Create(j)
  BY <1>6, <1>9, CreateCases DEF Writes
<1>10. CASE Revoke(j)
  BY <1>6, <1>10, RevokeCases DEF Writes
<1> QED
  BY <1>1, <1>7, <1>8, <1>9, <1>10

LEMMA ConfInit ==
  Init => ConfInv
<1> SUFFICES ASSUME Init PROVE ConfInv
  OBVIOUS
<1>1. yaml \in Contents /\ tmp = Nothing /\ Nothing \in Contents
  BY YamlAssumption DEF Init, ConfigInit, Nothing, Contents
<1>2. Configured \/ stored = Nothing
  BY <1>1 DEF Init, ConfigInit, Configured, Whole, Contents
<1>3. deployment.config = "file" /\ stored = Nothing => yaml = Nothing
  BY DEF Init, ConfigInit
<1>4. \A p \in Hosts : Booting(p)
  BY DEF Init, Booting
<1> QED
  BY <1>1, <1>2, <1>3, <1>4 DEF Init, ConfInv

LEMMA ConfNext ==
  KeyPlaneInv /\ ConfInv /\ [Next]_vars => ConfInv' /\ ConfMove
<1> SUFFICES ASSUME Shaped, KeysInv, GateInv, ConfInv, [Next]_vars
             PROVE  ConfInv' /\ ConfMove
  BY DEF KeyPlaneInv
<1>1. ASSUME NEW p \in Hosts, Start(p) PROVE ConfInv' /\ ConfMove
  BY <1>1, StartKeepsConf DEF Start, Stores, configVars, ConfMove, SeedMove
<1>2. CASE UNCHANGED vars
  BY <1>2, RequestsStay
     DEF vars, configVars, keyVars, ConfInv, Booting, Processes, Host, Configured, ConfMove, SeedMove
<1>3. ASSUME NEW p \in Hosts, Boot(p) PROVE ConfInv' /\ ConfMove
  BY <1>3, BootKeepsConf DEF ConfMove
<1> QED
  BY <1>1, <1>2, <1>3, CrashKeepsConf, ArriveKeepsConf, ServeKeepsConf, NextCases

-----------------------------------------------------------------------------
(* The invariant about acknowledged writes: the last change made to a      *)
(* section is that of the latest request, because a request that came      *)
(* later waits for the event loop until this one has been answered.        *)

Changes(k, s) ==
  jobs[k].op.kind = "put" /\ jobs[k].op.section = s /\ jobs[k].changed

Settled(s) ==
  \/ stored[s] = Seed[s] /\ \A k \in 1..Len(jobs) : ~Changes(k, s)
  \/ \E j \in 1..Len(jobs) :
       /\ Changes(j, s) /\ stored[s] = jobs[j].op.value
       /\ \A k \in 1..Len(jobs) : Changes(k, s) => k <= j

\* An answered request, or one that is about to be, has changed its section.
Effective(j) ==
  jobs[j].answer = "ok" \/ jobs[j].pc \in {"audit", "append"} => jobs[j].changed

First(j) ==
  \A k \in 1..Len(jobs) : k > j /\ jobs[k].op.kind = "put" => ~jobs[k].changed

AckInv ==
  /\ \A j \in 1..Len(jobs) :
       /\ jobs[j].pc = "new" => j = Len(jobs)
       /\ jobs[j].op.kind = "put" => Effective(j)
       /\ jobs[j].pc = "replace" => First(j)
  /\ Configured => \A s \in Sections : Settled(s)

\* No PUT takes effect in the step.
Calm ==
  /\ Len(jobs') = Len(jobs)
  /\ \A k \in 1..Len(jobs) :
       /\ jobs'[k].op = jobs[k].op
       /\ jobs[k].op.kind = "put" => jobs'[k].changed = jobs[k].changed
       /\ jobs'[k].pc = "new" => jobs[k].pc = "new"
       /\ jobs'[k].pc = "replace" => jobs[k].pc = "replace" \/ k = Len(jobs)
       /\ /\ jobs[k].op.kind = "put"
          /\ jobs'[k].answer = "ok" \/ jobs'[k].pc \in {"audit", "append"}
          => jobs[k].answer = "ok" \/ jobs[k].pc \in {"audit", "append"}

LEMMA CalmKeepsAck ==
  ASSUME AckInv, Shaped, Calm, UNCHANGED <<yaml, stored, deployment>>
  PROVE  AckInv'
<1>1. Seed' = Seed /\ Configured' = Configured /\ Len(jobs) \in Nat
  BY JobFacts DEF Seed, SeedFromYaml, Configured, Nothing
<1>2. \A k \in 1..Len(jobs), s \in Sections : Changes(k, s)' <=> Changes(k, s)
  BY DEF Calm, Changes
<1>3. ASSUME NEW s \in Sections, Settled(s) PROVE Settled(s)'
  BY <1>1, <1>2, <1>3 DEF Settled, Calm, Changes
<1>4. ASSUME NEW j \in 1..Len(jobs)
      PROVE  /\ jobs'[j].pc = "new" => j = Len(jobs')
             /\ jobs'[j].op.kind = "put" => Effective(j)'
             /\ jobs'[j].pc = "replace" => First(j)'
  <2>1. jobs'[j].pc = "replace" => First(j)
    BY <1>1 DEF AckInv, Calm, First
  <2>2. First(j) => First(j)'
    BY DEF First, Calm
  <2>3. jobs[j].op.kind = "put" => Effective(j)'
    BY DEF AckInv, Calm, Effective
  <2> QED
    BY <2>1, <2>2, <2>3 DEF AckInv, Calm
<1> QED
  BY <1>1, <1>3, <1>4 DEF AckInv, Calm

LEMMA SeedingKeepsAck ==
  ASSUME AckInv, ConfInv, Shaped, ~Configured, stored' = Seed,
         UNCHANGED <<yaml, deployment, jobs>>
  PROVE  AckInv'
<1>1. Len(jobs) = 0 /\ Seed' = Seed
  BY JobFacts DEF ConfInv, Seed, SeedFromYaml, Nothing
<1>2. \A s \in Sections : Settled(s)'
  BY <1>1 DEF Settled
<1> QED
  BY <1>1, <1>2 DEF AckInv

LEMMA ArriveKeepsAck ==
  ASSUME AckInv, Shaped, NEW op \in Expected, Arrive(op)
  PROVE  AckInv'
<1>1. /\ Arrived(op) /\ UNCHANGED <<deployment, stored, yaml>> /\ Len(jobs) \in Nat
  BY ArriveMoves, JobFacts DEF Stores, Idle, Fixed, configVars
<1>2. Seed' = Seed /\ Configured' = Configured
  BY <1>1 DEF Seed, SeedFromYaml, Configured, Nothing
<1>3. \A k \in 1..Len(jobs'), s \in Sections :
        Changes(k, s)' <=> k \in 1..Len(jobs) /\ Changes(k, s)
  BY <1>1 DEF Changes, Arrived
<1>4. ASSUME NEW s \in Sections, Settled(s) PROVE Settled(s)'
  BY <1>1, <1>2, <1>3, <1>4 DEF Settled, Arrived
<1>5. ASSUME NEW j \in 1..Len(jobs')
      PROVE  /\ jobs'[j].pc = "new" => j = Len(jobs')
             /\ jobs'[j].op.kind = "put" => Effective(j)'
             /\ jobs'[j].pc = "replace" => First(j)'
  BY <1>1 DEF AckInv, Arrived, Effective, First
<1> QED
  BY <1>1, <1>2, <1>4, <1>5 DEF AckInv

\* A PUT takes effect: none that came after it has, and no other is between
\* its two writes.
LEMMA ChangeKeepsAck ==
  ASSUME AckInv, ConfInv, Shaped, NEW j \in 1..Len(jobs), Others(j),
         UNCHANGED <<yaml, deployment>>, stored' = Target(j), Configured,
         jobs[j].op.kind = "put",
         NEW written \in Sections, jobs[j].op.section = written,
         First(j), jobs'[j].changed, jobs'[j].pc = "audit",
         \A k \in 1..Len(jobs) \ {j} : jobs[k].pc # "replace"
  PROVE  AckInv'
<1>1. Seed' = Seed /\ Len(jobs) \in Nat
  BY JobFacts DEF Seed, SeedFromYaml, Nothing
<1>2. \A k \in 1..Len(jobs), s \in Sections :
        Changes(k, s)' <=> Changes(k, s) \/ (k = j /\ s = written)
  <2>1. \A k \in 1..Len(jobs) \ {j}, s \in Sections : Changes(k, s)' <=> Changes(k, s)
    BY DEF Others, Changes
  <2>2. \A s \in Sections : Changes(j, s)' <=> s = written
    BY DEF Others, Changes
  <2>3. \A s \in Sections : Changes(j, s) => s = written
    BY DEF Changes
  <2> QED
    BY <2>1, <2>2, <2>3
<1>3. \A s \in Sections :
        stored'[s] = IF s = written THEN jobs[j].op.value ELSE stored[s]
  BY DEF Target, Configured
<1>4. Settled(written)'
  <2>1. Changes(j, written)' /\ stored'[written] = jobs'[j].op.value
    BY <1>2, <1>3 DEF Others
  <2>2. \A k \in 1..Len(jobs) : Changes(k, written)' => k <= j
    BY <1>1, <1>2 DEF First, Changes
  <2> QED
    BY <2>1, <2>2 DEF Settled, Others
<1>5. ASSUME NEW s \in Sections \ {written} PROVE Settled(s)'
  <2>1. Settled(s) /\ stored'[s] = stored[s]
    BY <1>3 DEF AckInv
  <2>2. \A k \in 1..Len(jobs) : Changes(k, s)' <=> Changes(k, s)
    BY <1>2
  <2>3. \A k \in 1..Len(jobs) : jobs'[k].op = jobs[k].op
    BY DEF Others
  <2> QED
    BY <1>1, <2>1, <2>2, <2>3 DEF Settled, Others
<1>6. ASSUME NEW k \in 1..Len(jobs)
      PROVE  /\ jobs'[k].pc = "new" => k = Len(jobs')
             /\ jobs'[k].op.kind = "put" => Effective(k)'
             /\ jobs'[k].pc # "replace"
  BY DEF AckInv, Others, Effective
<1> QED
  BY <1>4, <1>5, <1>6 DEF AckInv, Others

LEMMA ServeKeepsAck ==
  ASSUME AckInv, ConfInv, Shaped, KeysInv, NEW j \in 1..Len(jobs), Serve(j)
  PROVE  AckInv'
<1>1. /\ Running(j)
      /\ Quiet(j) \/ Put(j) \/ Create(j) \/ Revoke(j)
  BY ServeCases
<1>2. UNCHANGED deployment /\ Configured /\ Len(jobs) \in Nat
  BY <1>1, JobFacts DEF Running, Idle, Fixed, ConfInv
<1>3. CASE Quiet(j)
  <2>1. Calm
    BY <1>3 DEF Quiet, Others, Calm
  <2> QED
    BY <1>2, <1>3, <2>1, CalmKeepsAck DEF Quiet, configVars
<1>4. CASE Create(j) \/ Revoke(j)
  <2>1. /\ UNCHANGED configVars /\ Others(j)
        /\ jobs[j].op.kind # "put" /\ jobs'[j].pc = "audit"
    BY <1>4, CreateCases, RevokeCases DEF Writes
  <2>2. Calm
    BY <2>1 DEF Others, Calm
  <2> QED
    BY <1>2, <2>1, <2>2, CalmKeepsAck DEF configVars
<1>5. CASE Put(j)
  <2>1. PutsTmp(j) \/ PutsFile(j) \/ PutsRow(j)
    BY <1>5, PutCases
  <2>2. /\ jobs[j].op.kind = "put" /\ OnLoop(j) /\ Others(j)
        /\ jobs[j].op.section \in Sections /\ jobs[j].op.value \in Values
    BY <2>1, JobFacts, OpsAssumption DEF PutsTmp, PutsFile, PutsRow, Writes, OnLoop
  <2>3. ASSUME NEW k \in 1..Len(jobs) \ {j} PROVE jobs[k].pc # "replace"
    <3>1. SUFFICES ASSUME jobs[k].pc = "replace" PROVE FALSE
      OBVIOUS
    <3>2. Holds(k) /\ HostOf(k) = HostOf(j)
      BY <2>2, <3>1 DEF ConfInv, Replacing, Holds, OnLoop, HostOf
    <3> QED
      BY <1>1, <2>2, <3>2, JobFacts DEF Running, MayRun
  <2>4. CASE PutsTmp(j)
    <3>1. Calm
      BY <1>2, <2>2, <2>4 DEF PutsTmp, Writes, Others, AckInv, Calm
    <3> QED
      BY <1>2, <2>4, <3>1, CalmKeepsAck DEF PutsTmp
  <2>5. CASE PutsFile(j)
    <3>1. /\ stored' = tmp /\ yaml' = yaml /\ jobs[j].pc = "replace"
          /\ jobs'[j].pc = "audit" /\ jobs'[j].changed = TRUE
      BY <2>5 DEF PutsFile, Writes
    <3>2. stored' = Target(j) /\ First(j)
      BY <3>1 DEF ConfInv, Replacing, AckInv
    <3> QED
      BY <1>2, <2>2, <2>3, <3>1, <3>2, ChangeKeepsAck
  <2>6. CASE PutsRow(j)
    <3>1. /\ stored' = Target(j) /\ yaml' = yaml /\ jobs[j].pc = "new"
          /\ jobs'[j].pc = "audit" /\ jobs'[j].changed = TRUE
      BY <2>6 DEF PutsRow, Writes
    <3>2. First(j)
      BY <1>2, <3>1 DEF AckInv, First
    <3> QED
      BY <1>2, <2>2, <2>3, <3>1, <3>2, ChangeKeepsAck
  <2> QED
    BY <2>1, <2>4, <2>5, <2>6
<1> QED
  BY <1>1, <1>3, <1>4, <1>5

LEMMA AckInit ==
  Init => AckInv
<1> SUFFICES ASSUME Init PROVE AckInv
  OBVIOUS
<1>1. Len(jobs) = 0 /\ yaml \in Contents
  BY YamlAssumption DEF Init, ConfigInit
<1>2. Configured => stored = Seed
  <2>1. SUFFICES ASSUME Configured PROVE stored = Seed
    OBVIOUS
  <2>2. deployment.config = "file" /\ stored = yaml /\ Whole(yaml) /\ yaml # Nothing
    BY <2>1, NothingIsNotConfigured DEF Init, ConfigInit
  <2>3. SeedFromYaml = yaml
    BY <1>1, <2>2 DEF SeedFromYaml, Whole, Contents
  <2> QED
    BY <2>2, <2>3 DEF Seed
<1>3. Configured => \A s \in Sections : Settled(s)
  BY <1>1, <1>2 DEF Settled
<1> QED
  BY <1>1, <1>3 DEF AckInv

LEMMA AckNext ==
  KeyPlaneInv /\ ConfInv /\ AckInv /\ [Next]_vars => AckInv'
<1> SUFFICES ASSUME Shaped, KeysInv, GateInv, ConfInv, AckInv, [Next]_vars
             PROVE  AckInv'
  BY DEF KeyPlaneInv
<1>1. UNCHANGED jobs => Calm
  BY JobFacts DEF Calm
<1>2. ASSUME NEW p \in Hosts, Start(p) PROVE AckInv'
  BY <1>1, <1>2, CalmKeepsAck DEF Start, Enter, Fixed, Stores, configVars
<1>3. ASSUME NEW p \in Hosts, Boot(p) PROVE AckInv'
  <2>1. UNCHANGED <<jobs, deployment, yaml>>
    BY <1>3 DEF Boot, OpenConfig, SeedFile, SeedDatabase, Bind, OpenKeys, BuildVerifier,
                Enter, Fixed, Stores, configVars, WriteTmp, ReplaceFile, SeedTable
  <2>2. UNCHANGED stored \/ (~Configured /\ stored' = Seed)
    BY <1>3, BootKeepsConf DEF SeedMove
  <2> QED
    BY <1>1, <2>1, <2>2, CalmKeepsAck, SeedingKeepsAck
<1>4. ASSUME NEW p \in Hosts, Crash(p) PROVE AckInv'
  <2>1. Cut(p) /\ UNCHANGED <<configVars, deployment>>
    BY <1>4, CrashMoves
  <2>2. Calm
    BY <2>1 DEF Cut, Calm
  <2> QED
    BY <2>1, <2>2, CalmKeepsAck DEF configVars
<1>5. CASE UNCHANGED vars
  BY <1>1, <1>5, CalmKeepsAck DEF vars, configVars
<1> QED
  BY <1>2, <1>3, <1>4, <1>5, ArriveKeepsAck, ServeKeepsAck, NextCases

(* A section holds what the last answered PUT wrote or the first boot      *)
(* seeded, unless a later PUT is under way or failed, for any processes,   *)
(* requests, crashes and restarts, whichever backend is configured.        *)
THEOREM AcknowledgedWritesStay ==
  Spec => []AcknowledgedStays
<1>1. ConfInv /\ AckInv /\ KeyPlaneInv => AcknowledgedStays
  <2> SUFFICES ASSUME ConfInv, AckInv, Shaped, stored # Nothing, NEW s \in Sections
               PROVE  \/ stored[s] = Seed[s] /\ Acknowledged(s) = {}
                      \/ \E j \in Puts(s) :
                           /\ stored[s] = jobs[j].op.value
                           /\ \A k \in Acknowledged(s) : k <= j
    BY DEF AcknowledgedStays, KeyPlaneInv
  <2>1. Settled(s)
    BY DEF ConfInv, AckInv
  <2>2. \A k \in Acknowledged(s) : k \in 1..Len(jobs) /\ Changes(k, s)
    BY JobFacts DEF Acknowledged, Puts, Changes, AckInv, Effective
  <2>3. \A j \in 1..Len(jobs) : Changes(j, s) => j \in Puts(s)
    BY JobFacts DEF Puts, Changes
  <2> QED
    BY <2>1, <2>2, <2>3 DEF Settled
<1>2. Init => ConfInv /\ AckInv
  BY ConfInit, AckInit
<1>3. KeyPlaneInv /\ ConfInv /\ AckInv /\ [Next]_vars => ConfInv' /\ AckInv'
  BY ConfNext, AckNext
<1> QED
  BY <1>1, <1>2, <1>3, KeyPlaneAlways, PTL DEF Spec

-----------------------------------------------------------------------------
(* The stores implement the ledger.                                        *)

\* A step that changes no key is one of the ledger's for the configuration.
LEMMA ConfMoveIsLedgerStep ==
  ASSUME ConfInv, ConfMove, UNCHANGED keyVars
  PROVE  [Ledger!Next]_(Ledger!ledgerVars)
<1>1. /\ Pairs(Active)' = Pairs(Active)
      /\ Pairs(rows \ Active)' = Pairs(rows \ Active)
  BY DEF keyVars, Pairs, Active
<1>2. CASE UNCHANGED stored
  BY <1>1, <1>2 DEF Ledger!ledgerVars, Pairs, Pair
<1>3. CASE ~Configured /\ Configured'
  <2>1. Ledger!Establish
    BY <1>1, <1>3 DEF Ledger!Establish, Ledger!Configurations, Configured, Pairs, Pair
  <2> QED
    BY <2>1 DEF Ledger!Next
<1>4. ASSUME Configured, NEW j \in 1..Len(jobs), stored' = Target(j),
             jobs[j].op.section \in Sections, jobs[j].op.value \in Values
      PROVE  Ledger!Next
  <2>1. Ledger!Put(jobs[j].op.section, jobs[j].op.value)
    BY <1>1, <1>4 DEF Ledger!Put, Ledger!Configurations, Configured, Target, Pairs, Pair
  <2> QED
    BY <1>4, <2>1 DEF Ledger!Next
<1> QED
  BY <1>2, <1>3, <1>4 DEF ConfMove, SeedMove

LEMMA IssueIsLedgerStep ==
  ASSUME NEW entries \in SUBSET [id: AuditIds, key: Keys], Ledger!Issue(entries)
  PROVE  Ledger!Next
BY DEF Ledger!Next

LEMMA RetireIsLedgerStep ==
  ASSUME NEW entry \in Pairs(Active), Ledger!Retire(entry)
  PROVE  Ledger!Next
BY DEF Ledger!Next, Pairs, Pair

LEMMA SeedKeysIsLedgerStep ==
  ASSUME KeysInv, KeysInv', UNCHANGED <<stored, deployment>>, SeedKeys
  PROVE  [Ledger!Next]_(Ledger!ledgerVars)
<1> DEFINE New == {Issue(env[i]) : i \in Unseeded}
<1>1. rows' = rows \cup New
  BY DEF SeedKeys
<1>2. CASE New = {}
  <2>1. rows' = rows
    BY <1>1, <1>2
  <2> QED
    BY <2>1 DEF Ledger!ledgerVars, Active
<1>3. CASE New # {}
  <2>1. \A q \in New : ~q.revoked /\ \A r \in rows : r.id # q.id
    BY DEF Issue, SeedKeys, CanSeedKeys
  <2> HIDE DEF New
  <2> QED
    BY <1>1, <1>3, <2>1, AddedRowsAreIssued, IssueIsLedgerStep
<1> QED
  BY <1>2, <1>3

LEMMA CreateIsLedgerStep ==
  ASSUME KeysInv, KeysInv', UNCHANGED stored, NEW entry, CreateKey(entry)
  PROVE  Ledger!Next
<1> DEFINE New == {Issue(entry)}
<1>1. rows' = rows \cup New /\ New # {}
  BY DEF CreateKey
<1>2. \A q \in New : ~q.revoked /\ \A r \in rows : r.id # q.id
  BY DEF Issue, CreateKey
<1> HIDE DEF New
<1> QED
  BY <1>1, <1>2, AddedRowsAreIssued, IssueIsLedgerStep

LEMMA LedgerStep ==
  KeyPlaneInv /\ ConfInv /\ [Next]_vars => [Ledger!Next]_(Ledger!ledgerVars)
<1> SUFFICES ASSUME KeyPlaneInv, ConfInv, [Next]_vars
             PROVE  [Ledger!Next]_(Ledger!ledgerVars)
  OBVIOUS
<1>1. ConfMove /\ KeysInv /\ KeysInv' /\ Shaped
  BY ConfNext, KeyPlaneNext DEF KeyPlaneInv
<1>2. CASE UNCHANGED keyVars
  BY <1>1, <1>2, ConfMoveIsLedgerStep
<1>3. ASSUME NEW p \in Hosts, Start(p) \/ Boot(p) \/ Crash(p), ~UNCHANGED keyVars
      PROVE  [Ledger!Next]_(Ledger!ledgerVars)
  <2>1. SeedKeys /\ UNCHANGED <<stored, deployment>>
    BY <1>3 DEF Start, Crash, Boot, OpenConfig, SeedFile, SeedDatabase, Bind, OpenKeys,
                BuildVerifier, Enter, Fixed, Stores, configVars
  <2> QED
    BY <1>1, <2>1, SeedKeysIsLedgerStep
<1>4. ASSUME NEW op \in Expected, Arrive(op), ~UNCHANGED keyVars PROVE FALSE
  BY <1>4 DEF Arrive, Stores
<1>5. ASSUME NEW j \in 1..Len(jobs), Serve(j), ~UNCHANGED keyVars
      PROVE  [Ledger!Next]_(Ledger!ledgerVars)
  <2>1. Create(j) \/ Revoke(j)
    BY <1>1, <1>5, ServeCases, PutCases DEF Quiet
  <2>2. CASE Create(j)
    BY <1>1, <2>2, CreateIsLedgerStep DEF Create, configVars
  <2>3. CASE Revoke(j)
    BY <1>1, <2>3, RevokedRowIsRetired, RetireIsLedgerStep DEF Revoke, configVars
  <2> QED
    BY <2>1, <2>2, <2>3
<1> QED
  BY <1>1, <1>2, <1>3, <1>4, <1>5, NextCases DEF vars

(* Whatever backends a deployment combines, however many processes it has  *)
(* and wherever they crash, its stores implement the ledger: the           *)
(* configuration is whole and changes by sections, ids and keys are never  *)
(* used twice, and a key is retired once and for good.                     *)
THEOREM StoresImplementLedger ==
  Spec => ImplementsLedger
<1>1. Init => Ledger!Init
  <2> SUFFICES ASSUME Init PROVE Ledger!Init
    OBVIOUS
  <2>1. rows = {}
    BY DEF Init, KeyInit
  <2>2. stored \in [Sections -> Values] \/ stored = [s \in Sections |-> Absent]
    BY ConfInit DEF ConfInv, Configured, Nothing
  <2> QED
    BY <2>1, <2>2 DEF Ledger!Init, Ledger!Configurations, Active
<1> QED
  BY <1>1, LedgerStep, ConfInit, ConfNext, KeyPlaneAlways, PTL
     DEF Spec, ImplementsLedger, Ledger!Spec
=============================================================================
