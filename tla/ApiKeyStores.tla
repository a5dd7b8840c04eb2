---------------------------- MODULE ApiKeyStores ----------------------------
(***************************************************************************)
(* The two ApiKeyStores: EnvApiKeyStore, read-only, parsed from API_KEYS   *)
(* when the process boots, and SqliteApiKeyStore, a table with a unique id *)
(* and a unique key hash, into which every boot seeds API_KEYS.            *)
(*                                                                         *)
(* A key is the value its hash stands for.  Of an entry of API_KEYS only   *)
(* its audit id (its name, or one derived from the key) and its key matter.*)
(***************************************************************************)
EXTENDS Naturals, Sequences

CONSTANTS
  AuditIds,   \* audit ids of keys
  Keys,       \* plaintext keys
  EnvLists,   \* what API_KEYS may hold: sequences of entries
  Minted      \* what create_key may mint: fresh ids with fresh keys

Entry == [id: AuditIds, key: Keys]

ASSUME EnvAssumption == EnvLists \subseteq Seq(Entry)
\* 96 random bits of id and 256 of key: never those of another key.
ASSUME MintedAssumption ==
  /\ Minted \subseteq Entry
  /\ \A k, m \in Minted : k # m => k.id # m.id /\ k.key # m.key
  /\ \A k \in Minted : \A env \in EnvLists : \A i \in 1..Len(env) :
       env[i].id # k.id /\ env[i].key # k.key

VARIABLES
  env,    \* API_KEYS, in the environment of every process
  rows    \* the table of the sqlite store

keyVars == <<env, rows>>

Row == [id: AuditIds, key: Keys, revoked: BOOLEAN]
Active == {r \in rows : ~r.revoked}
Issue(entry) == [id |-> entry.id, key |-> entry.key, revoked |-> FALSE]

\* No two rows share an id or a key: what the table's constraints demand.
Unique(S) == \A r, q \in S : r.id = q.id \/ r.key = q.key => r = q

KeyInit ==
  /\ env \in EnvLists
  /\ rows = {}

\* Mutation: only keys that are still active are looked for.
UnseededIfRevoked ==
  {i \in 1..Len(env) : \A r \in Active : r.key # env[i].key}

\* seed_from_env: the entries whose key no row has.  The session does not
\* flush before the commit, so an entry does not see the ones before it.
Unseeded == {i \in 1..Len(env) : \A r \in rows : r.key # env[i].key}

\* Mutation: the table has no unique columns.
SeedsRepeats == TRUE

\* The commit goes through unless an id or a key would be there twice.
CanSeedKeys ==
  /\ \A i, k \in Unseeded : i # k => env[i].id # env[k].id /\ env[i].key # env[k].key
  /\ \A i \in Unseeded : \A r \in rows : r.id # env[i].id

SeedKeys ==
  /\ CanSeedKeys
  /\ rows' = rows \cup {Issue(env[i]) : i \in Unseeded}
  /\ UNCHANGED env

\* Mutation: a revoked row resolves as well.
ResolveAnyRow(key) == {r.id : r \in {q \in rows : q.key = key}}

\* resolve of the sqlite store: at most one id, none for a revoked key.
ResolveRow(key) == {r.id : r \in {q \in Active : q.key = key}}

\* resolve of the env store: the last entry with that key has its id.
ResolveEnv(key) ==
  {env[i].id : i \in {k \in 1..Len(env) :
     env[k].key = key /\ \A m \in k + 1..Len(env) : env[m].key # key}}

\* create_key and revoke_key, each one transaction.
CreateKey(entry) ==
  /\ entry \in Minted
  /\ \A r \in rows : r.id # entry.id
  /\ rows' = rows \cup {Issue(entry)}
  /\ UNCHANGED env

CanRevoke(id) == \E r \in Active : r.id = id
RevokeKey(id) ==
  /\ rows' = {[r EXCEPT !.revoked = r.revoked \/ r.id = id] : r \in rows}
  /\ UNCHANGED env
=============================================================================
