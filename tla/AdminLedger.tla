---------------------------- MODULE AdminLedger ----------------------------
(***************************************************************************)
(* What administration promises, whatever the backends and however many    *)
(* processes there are: a configuration that is there as a whole and       *)
(* changes one section at a time, and keys that are issued once, with an   *)
(* id that was never used before, and retired for good.                    *)
(***************************************************************************)
CONSTANTS Sections, Values, Absent, AuditIds, Keys

VARIABLES
  settings,   \* the configuration
  active,     \* the keys that are accepted: records of id and key
  retired     \* those that were revoked

ledgerVars == <<settings, active, retired>>

Issued == active \cup retired
Configurations == [Sections -> Values]

Init ==
  /\ settings \in Configurations \cup {[s \in Sections |-> Absent]}
  /\ active = {}
  /\ retired = {}

\* The first configuration, complete from the start.
Establish ==
  /\ settings \notin Configurations
  /\ settings' \in Configurations
  /\ UNCHANGED <<active, retired>>

Put(s, v) ==
  /\ settings \in Configurations
  /\ settings' = [settings EXCEPT ![s] = v]
  /\ UNCHANGED <<active, retired>>

\* New keys: an id and a key belong to one entry for ever.
Issue(entries) ==
  /\ entries # {}
  /\ active' = active \cup entries
  /\ \A e \in entries : \A d \in Issued \cup entries :
       e.id = d.id \/ e.key = d.key => e = d
  /\ entries \cap Issued = {}
  /\ UNCHANGED <<settings, retired>>

Retire(entry) ==
  /\ entry \in active
  /\ active' = active \ {entry}
  /\ retired' = retired \cup {entry}
  /\ UNCHANGED settings

Next ==
  \/ Establish
  \/ \E s \in Sections, v \in Values : Put(s, v)
  \/ \E entries \in SUBSET [id: AuditIds, key: Keys] : Issue(entries)
  \/ \E entry \in active : Retire(entry)

Spec == Init /\ [][Next]_ledgerVars
=============================================================================
