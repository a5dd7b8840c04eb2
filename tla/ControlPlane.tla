---------------------------- MODULE ControlPlane ----------------------------
(***************************************************************************)
(* The control plane: the processes of a deployment boot against the       *)
(* configuration, the API keys and the audit log they share, and serve the *)
(* Admin API and the gateway's authentication, under crashes, restarts and *)
(* failing stores.                                                         *)
(*                                                                         *)
(* A deployment is either one process, started by hand, or one container   *)
(* per service, which Compose starts in order and restarts when they exit. *)
(* An async handler holds the event loop of its process, a def handler     *)
(* runs in a thread beside it; each lock in the code is of one process.    *)
(***************************************************************************)
EXTENDS ConfigProviders, ApiKeyStores, AuditLoggers, FiniteSets

CONSTANTS
  Deployments,   \* records of single, config, keys and audit
  Ops,           \* what a request may ask
  Loads,         \* bound: the sequences of requests that may come
  MaxCrashes,    \* bound: processes that die
  PageSize       \* limit of an audit query

Kinds == {"put", "create", "revoke", "view", "call"}
Hosts == {"all", "gateway", "admin"}

ASSUME BoundAssumption ==
  Loads \subseteq Seq(Ops) /\ MaxCrashes \in Nat /\ PageSize \in Nat \ {0}
ASSUME OpsAssumption ==
  \A op \in Ops :
    /\ op.kind \in Kinds
    /\ op.kind = "put" => op.section \in Sections /\ op.value \in Values
    /\ op.kind = "create" => op.entry \in Minted
    /\ op.kind = "revoke" => op.id \in AuditIds
    /\ op.kind = "call" => op.key \in Keys
\* Nobody names a key like the caller of a gateway that demands none.
ASSUME AuditIdAssumption == AuditIds \cap {"anonymous", "none"} = {}
\* The log can hold the record of every request that may come.
ASSUME EventAssumption ==
  \A load \in Loads : \A j \in 1..Len(load) :
    [type: {"query", "admin_event"}, by: {j},
     api_key_id: AuditIds \cup {"none", "anonymous"}] \subseteq Events
ASSUME DeploymentAssumption ==
  Deployments \subseteq [single: BOOLEAN, config: {"file", "sqlite"},
                         keys: {"env", "sqlite"}, audit: {"file", "sqlite"}]

VARIABLES
  deployment,   \* the CONFIG_, API_KEY_ and AUDIT_BACKEND of .env, and --service
  phase,        \* where each process is
  enforce,      \* whether its verifier demands a key
  crashes,      \* how many processes have died
  jobs          \* the requests, numbered in order of arrival

vars == <<configVars, keyVars, log, deployment, phase, enforce, crashes, jobs>>

Stores == <<configVars, keyVars, log>>
Fixed == <<deployment, crashes>>

Processes == IF deployment.single THEN {"all"} ELSE {"gateway", "admin"}
Host(service) == IF deployment.single THEN "all" ELSE service
HostOf(j) == Host(IF jobs[j].op.kind = "call" THEN "gateway" ELSE "admin")
Serving(p) == phase[p] = "serving"

Job == [op: Ops, pc: {"new", "replace", "audit", "append", "page", "done", "gone"},
        answer: {"none", "ok", "error", "garbled", "refused"}, changed: BOOLEAN,
        audit_id: AuditIds \cup {"none", "anonymous"}, seen: Seq(Events)]

NewJob(op) == [op |-> op, pc |-> "new", answer |-> "none", changed |-> FALSE,
               audit_id |-> "none", seen |-> <<>>]

Init ==
  /\ deployment \in Deployments
  /\ ConfigInit(deployment.config)
  /\ KeyInit
  /\ LogInit
  /\ phase = [p \in Hosts |-> "new"]
  /\ enforce = [p \in Hosts |-> FALSE]
  /\ crashes = 0
  /\ jobs = <<>>
-----------------------------------------------------------------------------
(***************************************************************************)
(* The boot of a process: build_container, then the keys, then the server. *)
(* Whatever raises on the way ends the process.                            *)
(***************************************************************************)
Enter(p, next) ==
  /\ phase' = [phase EXCEPT ![p] = next]
  /\ UNCHANGED <<enforce, jobs, Fixed>>

\* Compose starts admin once the gateway is healthy, and any process again
\* that exited.
Start(p) ==
  /\ p \in Processes
  /\ \/ phase[p] = "new" /\ (p = "admin" => Serving("gateway"))
     \/ phase[p] = "down"
  /\ Enter(p, "config")
  /\ UNCHANGED Stores

\* The provider looks for a configuration.
OpenConfig(p) ==
  /\ phase[p] = "config"
  /\ Enter(p, IF Exists THEN "bind" ELSE "seed")
  /\ UNCHANGED Stores

\* FileConfigProvider writes the defaults, through the temporary file.
SeedFile(p) ==
  /\ deployment.config = "file"
  /\ \/ phase[p] = "seed" /\ WriteTmp(DefaultConfig) /\ Enter(p, "rename")
     \/ phase[p] = "rename" /\ ReplaceFile /\ Enter(p, "bind")
  /\ UNCHANGED <<keyVars, log>>

\* SqliteConfigProvider inserts the YAML file, or the defaults.
SeedDatabase(p) ==
  /\ deployment.config = "sqlite"
  /\ phase[p] = "seed"
  /\ SeedTable
  /\ Enter(p, "bind")
  /\ UNCHANGED <<keyVars, log>>

\* Every implementation is built from its section; a section that is missing
\* raises KeyError, one that names no implementation ValueError.
Missing(s) == stored[s] = Absent
Unbuildable(s) == stored[s] \in Refused

Bind(p) ==
  /\ phase[p] = "bind"
  /\ Enter(p, IF \E s \in BoundSections : Missing(s) \/ Unbuildable(s)
                THEN "down" ELSE "keys")
  /\ UNCHANGED Stores

\* The sqlite store seeds API_KEYS, or its commit raises IntegrityError.
OpenKeys(p) ==
  /\ phase[p] = "keys"
  /\ IF deployment.keys = "sqlite"
       THEN IF CanSeedKeys
              THEN SeedKeys /\ Enter(p, "verifier")
              ELSE UNCHANGED keyVars /\ Enter(p, "down")
       ELSE UNCHANGED keyVars /\ Enter(p, "verifier")
  /\ UNCHANGED <<configVars, log>>

\* Mutation: one revoked key opens the gateway.
AllKeysActive == IF deployment.keys = "env" THEN env # <<>> ELSE rows # {} /\ Active = rows

AnyKeyActive == IF deployment.keys = "env" THEN env # <<>> ELSE Active # {}

\* Whether keys are demanded is settled here for the life of the process.
BuildVerifier(p) ==
  /\ phase[p] = "verifier"
  /\ phase' = [phase EXCEPT ![p] = "serving"]
  /\ enforce' = [enforce EXCEPT ![p] = AnyKeyActive]
  /\ UNCHANGED <<Stores, Fixed, jobs>>

Boot(p) ==
  \/ OpenConfig(p) \/ SeedFile(p) \/ SeedDatabase(p)
  \/ Bind(p) \/ OpenKeys(p) \/ BuildVerifier(p)

\* A process dies; what it was doing is left where it is.
Crash(p) ==
  /\ crashes < MaxCrashes
  /\ phase[p] \notin {"new", "down"}
  /\ crashes' = crashes + 1
  /\ phase' = [phase EXCEPT ![p] = "down"]
  /\ enforce' = [enforce EXCEPT ![p] = FALSE]
  /\ jobs' = [j \in DOMAIN jobs |->
       IF HostOf(j) = p /\ jobs[j].pc # "done" THEN [jobs[j] EXCEPT !.pc = "gone"]
                                               ELSE jobs[j]]
  /\ IF log.writer = {p} THEN BreakAppend ELSE UNCHANGED log
  /\ UNCHANGED <<configVars, keyVars, deployment>>
-----------------------------------------------------------------------------
(***************************************************************************)
(* Requests.  The next one is taken up when the one before it has been.    *)
(***************************************************************************)
Idle == <<phase, enforce, Fixed>>

Expected ==
  {load[Len(jobs) + 1] : load \in {l \in Loads : Len(jobs) < Len(l) /\
     \A j \in DOMAIN jobs : jobs[j].op = l[j]}}

Arrive(op) ==
  /\ \A j \in DOMAIN jobs : jobs[j].pc # "new"
  /\ jobs' = Append(jobs, NewJob(op))
  /\ Serving(Host(IF op.kind = "call" THEN "gateway" ELSE "admin"))
  /\ UNCHANGED <<Stores, Idle>>

Goto(j, pc) == jobs' = [jobs EXCEPT ![j].pc = pc]
Change(j, pc) == jobs' = [jobs EXCEPT ![j] = [@ EXCEPT !.pc = pc, !.changed = TRUE]]
Answer(j, answer) == jobs' = [jobs EXCEPT ![j] = [@ EXCEPT !.pc = "done", !.answer = answer]]

\* The handlers that run on the event loop, from the moment they hold it.
OnLoop(j) == jobs[j].op.kind \in {"put", "create"}
Holds(j) ==
  \/ OnLoop(j) /\ jobs[j].pc \in {"replace", "audit", "append"}
  \/ jobs[j].op.kind = "call" /\ jobs[j].pc = "append"

\* Mutation: the handler is a plain def, and runs in a thread.
RunsInThread(j) == TRUE

MayRun(j) ==
  OnLoop(j) \/ jobs[j].op.kind = "call" =>
    \A k \in DOMAIN jobs : Holds(k) /\ HostOf(k) = HostOf(j) => k = j

At(j, kind, pc) ==
  /\ jobs[j].op.kind = kind
  /\ jobs[j].pc = pc
  /\ MayRun(j)
  /\ UNCHANGED Idle

\* verify_admin_auth, _validate_or_400, the 409 of the env store, the 404.
Refuse(j) ==
  /\ \E kind \in {"put", "create", "revoke", "view"} : At(j, kind, "new")
  /\ Answer(j, "refused")
  /\ UNCHANGED Stores

\* A store raises before its write takes effect, or when a key is resolved;
\* one that raises after the write leaves what RecordFails leaves.
StoreFails(j) ==
  /\ \/ At(j, "put", "new")
     \/ At(j, "put", "replace")
     \/ \E kind \in {"create", "revoke"} : At(j, kind, "new") /\ deployment.keys = "sqlite"
     \/ At(j, "call", "new") /\ enforce[HostOf(j)] /\ deployment.keys = "sqlite"
  /\ Answer(j, "error")
  /\ UNCHANGED Stores

\* set_*: the file is read, changed and written, or the row is updated.
Put(j) ==
  /\ LET op == jobs[j].op IN
       \/ /\ At(j, "put", "new") /\ deployment.config = "file"
          /\ WriteTmp([stored EXCEPT ![op.section] = op.value])
          /\ Goto(j, "replace")
       \/ At(j, "put", "replace") /\ ReplaceFile /\ Change(j, "audit")
       \/ /\ At(j, "put", "new") /\ deployment.config = "sqlite"
          /\ SetRow(op.section, op.value)
          /\ Change(j, "audit")
  /\ UNCHANGED <<keyVars, log>>

Create(j) ==
  /\ At(j, "create", "new")
  /\ deployment.keys = "sqlite"
  /\ CreateKey(jobs[j].op.entry)
  /\ Change(j, "audit")
  /\ UNCHANGED <<configVars, log>>

\* Mutation: the handler ignores that no row was changed.
RevokeUnchecked(j) ==
  /\ At(j, "revoke", "new")
  /\ deployment.keys = "sqlite"
  /\ RevokeKey(jobs[j].op.id)
  /\ jobs' = [jobs EXCEPT ![j] =
       [@ EXCEPT !.pc = "audit", !.changed = CanRevoke(jobs[j].op.id)]]
  /\ UNCHANGED <<configVars, log>>

\* revoke_key looks and changes under its lock; if there is no such row, or
\* it is revoked already, the handler answers 404 (Refuse).
Revoke(j) ==
  /\ At(j, "revoke", "new")
  /\ deployment.keys = "sqlite"
  /\ CanRevoke(jobs[j].op.id)
  /\ RevokeKey(jobs[j].op.id)
  /\ Change(j, "audit")
  /\ UNCHANGED <<configVars, log>>

Resolve(key) == IF deployment.keys = "env" THEN ResolveEnv(key) ELSE ResolveRow(key)

\* verify: the audit id of the caller, or AuthError.
Verify(j) ==
  /\ At(j, "call", "new")
  /\ LET ids == IF enforce[HostOf(j)] THEN Resolve(jobs[j].op.key) ELSE {"anonymous"} IN
       \/ \E id \in ids :
            jobs' = [jobs EXCEPT ![j] = [@ EXCEPT !.pc = "audit", !.audit_id = id]]
       \/ ids = {} /\ Answer(j, "refused")
  /\ UNCHANGED Stores
-----------------------------------------------------------------------------
(***************************************************************************)
(* The audit log.                                                          *)
(***************************************************************************)
QueryEvent(j) == [type |-> "query", api_key_id |-> jobs[j].audit_id, by |-> j]
AdminEvent(j) == [type |-> "admin_event", api_key_id |-> "none", by |-> j]
Event(j) == IF jobs[j].op.kind = "call" THEN QueryEvent(j) ELSE AdminEvent(j)

AtAudit(j, pc) == \E kind \in Kinds \ {"view"} : At(j, kind, pc)

\* Each record is the last thing a handler does before it answers.
Record(j) ==
  /\ IF deployment.audit = "file"
       THEN \/ AtAudit(j, "audit") /\ BeginAppend(HostOf(j)) /\ Goto(j, "append")
            \/ AtAudit(j, "append") /\ EndAppend(Event(j)) /\ Answer(j, "ok")
       ELSE AtAudit(j, "audit") /\ InsertEvent(Event(j)) /\ Answer(j, "ok")
  /\ UNCHANGED <<configVars, keyVars>>

\* The append raises, before or after the record is there, and the client is
\* told of an error.
RecordFails(j) ==
  /\ IF deployment.audit = "file"
       THEN AtAudit(j, "append") /\ (BreakAppend \/ EndAppend(Event(j)))
       ELSE AtAudit(j, "audit") /\ (UNCHANGED log \/ InsertEvent(Event(j)))
  /\ Answer(j, "error")
  /\ UNCHANGED <<configVars, keyVars>>

\* get_audit, page after page until one is not full.
ReadPage(j) ==
  /\ \E pc \in {"new", "page"} : At(j, "view", pc)
  /\ deployment.audit = "file" => MayReadFile(HostOf(j)) /\ ~Torn
  /\ LET page == QueryLogs(jobs[j].op.filter, Len(jobs[j].seen), PageSize)
         seen == jobs[j].seen \o page
     IN  \/ /\ Len(page) = PageSize
            /\ jobs' = [jobs EXCEPT ![j] = [@ EXCEPT !.seen = seen, !.pc = "page"]]
         \/ /\ Len(page) < PageSize
            /\ jobs' = [jobs EXCEPT ![j] =
                 [@ EXCEPT !.seen = seen, !.pc = "done", !.answer = "ok"]]
  /\ UNCHANGED Stores

\* query_logs raises: the file is unreadable, the database is locked or a date
\* is malformed (an error), or json.loads meets a fragment (garbled).
ReadFails(j) ==
  /\ \E pc \in {"new", "page"} : At(j, "view", pc)
  /\ deployment.audit = "file" => MayReadFile(HostOf(j))
  /\ \/ Answer(j, "error")
     \/ deployment.audit = "file" /\ MayMeetFragment /\ Answer(j, "garbled")
  /\ UNCHANGED Stores

Serve(j) ==
  \/ Refuse(j) \/ StoreFails(j)
  \/ Put(j) \/ Create(j) \/ Revoke(j) \/ Verify(j)
  \/ Record(j) \/ RecordFails(j)
  \/ ReadPage(j) \/ ReadFails(j)

Next ==
  \/ \E p \in Hosts : Start(p) \/ Boot(p) \/ Crash(p)
  \/ \E op \in Expected : Arrive(op)
  \/ \E j \in DOMAIN jobs : Serve(j)

(***************************************************************************)
(* A process that has begun to boot goes on.  Containers are started again *)
(* (restart: unless-stopped); the single process is the operator's.        *)
(***************************************************************************)
Fairness ==
  /\ \A p \in Hosts : WF_vars(Boot(p))
  /\ \A p \in Hosts : WF_vars(~deployment.single /\ Start(p))

Spec == Init /\ [][Next]_vars /\ Fairness
-----------------------------------------------------------------------------
(***************************************************************************)
(* Properties.                                                             *)
(***************************************************************************)
\* Every variable has its type, and no two keys share an id or a hash, which
\* the lookups of resolve (scalar_one_or_none) and revoke_key rely on.
TypeOK ==
  /\ deployment \in Deployments
  /\ {yaml, stored, tmp} \subseteq Contents
  /\ env \in EnvLists /\ rows \subseteq Row /\ Unique(rows)
  /\ log \in [lines: Seq(Events \cup {Garbage}), torn: BOOLEAN,
              writer: {Free} \cup {{p} : p \in Hosts}]
  /\ phase \in [Hosts -> {"new", "down", "config", "seed", "rename", "bind", "keys",
                          "verifier", "serving"}]
  /\ enforce \in [Hosts -> BOOLEAN]
  /\ crashes \in 0..MaxCrashes
  /\ jobs \in Seq(Job)

\* Both backends of each store implement the ledger: a configuration is there
\* as a whole or not at all, a write changes its own section alone, keys are
\* issued under new ids, and revoked once and for good.
Ledger == INSTANCE AdminLedger WITH
  settings <- stored,
  active <- {[id |-> r.id, key |-> r.key] : r \in Active},
  retired <- {[id |-> r.id, key |-> r.key] : r \in rows \ Active}

ImplementsLedger == Ledger!Spec

\* A section holds what the last answered PUT wrote, or what the first boot
\* seeded, unless a later PUT is under way or failed: neither a restart, nor
\* another section's write, nor a crash between two steps takes it back.
Puts(s) == {j \in DOMAIN jobs : jobs[j].op.kind = "put" /\ jobs[j].op.section = s}
Acknowledged(s) == {j \in Puts(s) : jobs[j].answer = "ok"}
Seed == IF deployment.config = "file" /\ yaml = Nothing THEN DefaultConfig ELSE SeedFromYaml

AcknowledgedStays ==
  stored # Nothing => \A s \in Sections :
    \/ stored[s] = Seed[s] /\ Acknowledged(s) = {}
    \/ \E j \in Puts(s) :
         stored[s] = jobs[j].op.value /\ \A k \in Acknowledged(s) : k <= j

\* The trail names no administrative change that did not happen, names none
\* twice, and names the changes made on the event loop in their order; every
\* answered request is in it, but for as many as there are torn lines.
TrailIsTrue ==
  LET lines == log.lines
      At_(i) == lines[i].by
      whole == {i \in DOMAIN lines : lines[i] # Garbage}
      admin == {i \in whole : lines[i].type = "admin_event"}
      answered == {j \in DOMAIN jobs : jobs[j].op.kind # "view" /\ jobs[j].answer = "ok"}
  IN  /\ \A i \in admin : jobs[At_(i)].changed
      /\ \A i, k \in whole : i < k =>
           /\ At_(i) # At_(k)
           /\ OnLoop(At_(i)) /\ OnLoop(At_(k)) => At_(i) < At_(k)
      /\ Cardinality(answered \ {At_(i) : i \in whole})
           <= Cardinality(DOMAIN lines \ whole)

\* From the moment a key is revoked no call is accepted under its id, and none
\* that bears it, in any process, after any restart, although API_KEYS may
\* still list it: but a gateway that found no active key when it booted lets
\* every caller in, as anonymous.
Bears(c, id) == \E row \in rows : row.id = id /\ row.key = jobs[c].op.key

RevocationIsImmediate ==
  [][\A c \in DOMAIN jobs : \A r \in DOMAIN jobs :
       /\ jobs[c].op.kind = "call" /\ jobs'[c].audit_id # jobs[c].audit_id
       /\ jobs[r].op.kind = "revoke" /\ jobs[r].changed
       => /\ jobs'[c].audit_id # jobs[r].op.id
          /\ Bears(c, jobs[r].op.id) =>
               ~enforce[HostOf(c)] /\ jobs'[c].audit_id = "anonymous"]_vars

\* A gateway that serves while a key of API_KEYS is valid demands keys: the
\* seeding precedes the decision, and revoking another key does not turn it.
ConfiguredKeyIsValid ==
  IF deployment.keys = "env" THEN env # <<>>
  ELSE \E r \in Active : \E i \in DOMAIN env : env[i].key = r.key

ConfiguredKeysEnforce ==
  ConfiguredKeyIsValid /\ Serving(Host("gateway")) => enforce[Host("gateway")]

\* However the log grows between two pages, a viewer that pages through it
\* sees every matching event up to where it is, once, in order.
PagesAreExact ==
  \A j \in DOMAIN jobs : jobs[j].op.kind = "view" =>
    jobs[j].seen = SubSeq(MatchingLines(jobs[j].op.filter), 1, Len(jobs[j].seen))

\* Whatever else fails, a viewer meets a line that cannot be parsed only in a
\* file that is torn for good, or that several processes share.
NoFragmentUntilTorn ==
  \A j \in DOMAIN jobs : jobs[j].answer = "garbled" => Torn \/ ~deployment.single

\* Containers come back after a crash at any point of a boot or a request,
\* unless the Admin API was given a configuration nothing can be built from,
\* or API_KEYS gives two keys one name or one key two names.
ApiKeysClash ==
  \E i, k \in DOMAIN env : i # k /\ (env[i].id = env[k].id \/ env[i].key = env[k].key)

Unbootable ==
  \/ \E s \in BoundSections : Unbuildable(s)
  \/ deployment.keys = "sqlite" /\ ApiKeysClash

Recovers ==
  \A p \in {"gateway", "admin"} :
    ~deployment.single /\ ~Serving(p) ~> Serving(p) \/ Unbootable
=============================================================================
