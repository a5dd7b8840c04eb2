-------------------------- MODULE ConfigProviders --------------------------
(***************************************************************************)
(* The two ConfigProviders: FileConfigProvider, one YAML file that every   *)
(* process of the deployment opens, and SqliteConfigProvider, one row per  *)
(* section in the database they share.  Both are seeded by the first       *)
(* process that finds nothing; afterwards a section is replaced as a whole.*)
(*                                                                         *)
(* Either store is a function from sections to values.  A missing file and *)
(* an empty table have no section at all.                                  *)
(***************************************************************************)
CONSTANTS
  Sections,        \* the top-level sections of the configuration
  BoundSections,   \* those the composition root binds implementations from
  Values,          \* what a section may hold
  Default,         \* its value in DEFAULT_CONFIG
  Refused,         \* values the Admin API stores and no process boots with
  Yamls            \* what CONFIG_FILE_PATH may hold before the first boot

Absent == "absent"
Contents == [Sections -> Values \cup {Absent}]
Nothing == [s \in Sections |-> Absent]
DefaultConfig == [s \in Sections |-> Default]

ASSUME SectionAssumption == BoundSections \subseteq Sections /\ Sections # {}
ASSUME ValueAssumption ==
  /\ Absent \notin Values
  /\ Default \in Values \ Refused
ASSUME YamlAssumption == Yamls \subseteq Contents

VARIABLES
  yaml,     \* CONFIG_FILE_PATH before the first boot
  stored,   \* the configuration: that file, or the rows of the table
  tmp       \* the content of the file's .tmp sibling

configVars == <<yaml, stored, tmp>>

Whole(content) == \A s \in Sections : content[s] # Absent

\* An operator's file is whole; sqlite also seeds from one that is not.
ConfigInit(backend) ==
  /\ yaml \in Yamls
  /\ tmp = Nothing
  /\ IF backend = "file"
       THEN /\ Whole(yaml) \/ yaml = Nothing
            /\ stored = yaml
       ELSE stored = Nothing

\* Mutation: whatever is stored, it is not looked for.
NeverExists == FALSE

\* path.exists(), and the select of _bootstrap_if_empty.
Exists == stored # Nothing

\* _read_seed: the YAML file merged over the defaults, or the defaults.
SeedFromYaml == [s \in Sections |-> IF yaml[s] = Absent THEN Default ELSE yaml[s]]

\* The commit of _bootstrap_if_empty, all rows at once.
SeedTable ==
  /\ stored' = SeedFromYaml
  /\ UNCHANGED <<yaml, tmp>>

\* Mutation: no temporary file, the section `data` ends with comes later.
WriteInPlace(content) ==
  /\ \E s \in Sections : stored' = [content EXCEPT ![s] = Absent]
  /\ tmp' = content
  /\ UNCHANGED yaml

\* _write: the temporary file takes the content, ...
WriteTmp(content) ==
  /\ tmp' = content
  /\ UNCHANGED <<yaml, stored>>

\* ... then the name of the file, in one step of the file system.
ReplaceFile ==
  /\ stored' = tmp
  /\ tmp' = Nothing
  /\ UNCHANGED yaml

\* _set: one transaction, which touches the row of its section alone.
SetRow(s, v) ==
  /\ stored' = [stored EXCEPT ![s] = v]
  /\ UNCHANGED <<yaml, tmp>>
=============================================================================
