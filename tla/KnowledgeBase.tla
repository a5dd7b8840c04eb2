---------------------------- MODULE KnowledgeBase ----------------------------
(***************************************************************************)
(* What ingestion promises to whoever retrieves: at any moment a document  *)
(* is absent from a collection or served in one complete version; it       *)
(* becomes visible only in a version clients are offering at that moment,  *)
(* and one version never turns into another without the document having    *)
(* been absent in between (the delete-then-store of docs/pipeline.md).     *)
(***************************************************************************)
CONSTANTS Collections, Docs, Versions, None

VARIABLES
  served,   \* the version of each document each collection serves, or None
  offer     \* the content clients are offering for each document, or None

kvars == <<served, offer>>

Init ==
  /\ served = [c \in Collections |-> [d \in Docs |-> None]]
  /\ offer = [d \in Docs |-> None]

Offer(d, v) ==
  /\ offer' = [offer EXCEPT ![d] = v]
  /\ UNCHANGED served

Withdraw(D) ==
  /\ offer' = [d \in Docs |-> IF d \in D THEN None ELSE offer[d]]
  /\ UNCHANGED served

Publish(c, d) ==
  /\ served[c][d] = None
  /\ offer[d] # None
  /\ served' = [served EXCEPT ![c][d] = offer[d]]
  /\ UNCHANGED offer

Retract(c, d) ==
  /\ served' = [served EXCEPT ![c][d] = None]
  /\ UNCHANGED offer

Next ==
  \/ \E d \in Docs, v \in Versions : Offer(d, v)
  \/ \E D \in SUBSET Docs : Withdraw(D)
  \/ \E c \in Collections, d \in Docs : Publish(c, d) \/ Retract(c, d)

Spec == Init /\ [][Next]_kvars
=============================================================================
