-------------------------- MODULE MCControlPlane --------------------------
EXTENDS ControlPlane

MCDeployments ==
  {[single |-> TRUE, config |-> "file", keys |-> "sqlite", audit |-> "file"],
   [single |-> FALSE, config |-> "file", keys |-> "env", audit |-> "file"],
   [single |-> FALSE, config |-> "sqlite", keys |-> "sqlite", audit |-> "sqlite"]}

MCValues == {"default", "other", "refused"}
MCYamls ==
  {Nothing, [Nothing EXCEPT !["template"] = "other"], [s \in Sections |-> "other"]}

Alice == [id |-> "alice", key |-> "ka"]
Bob == [id |-> "bob", key |-> "kb"]
Carol == [id |-> "carol", key |-> "kc"]
MCEnvLists == {<<>>, <<Alice, Bob>>, <<Alice, [Alice EXCEPT !.key = "kb"]>>}
MCMinted == {Carol}

MCFilters == [type: {"any", "query"}, api_key_id: {"any", "alice"}]
MCEvents ==
  [type: {"query", "admin_event"}, by: 1..3,
   api_key_id: {"alice", "bob", "carol", "none", "anonymous"}]

PutModel == [kind |-> "put", section |-> "model", value |-> "other"]
PutRefused == [PutModel EXCEPT !.value = "refused"]
PutTemplate == [PutModel EXCEPT !.section = "template"]
CreateCarol == [kind |-> "create", entry |-> Carol]
RevokeKeyOf(id) == [kind |-> "revoke", id |-> id]
View(f) == [kind |-> "view", filter |-> f]
ViewAll == View([type |-> "any", api_key_id |-> "any"])
ViewOf(id) == View([type |-> "query", api_key_id |-> id])
Call(key) == [kind |-> "call", key |-> key]

MCOps ==
  {PutModel, PutRefused, PutTemplate, CreateCarol, RevokeKeyOf("alice"),
   RevokeKeyOf("carol"), ViewAll, ViewOf("alice"), Call("ka"), Call("kc")}

\* Every pair of requests whose first leaves a trace, and the longer stories three of them tell.
MCLoads ==
  {<<a, b>> : a \in {op \in MCOps : op.kind # "view"}, b \in MCOps}
  \cup {<<CreateCarol, RevokeKeyOf("carol"), Call("kc")>>,
        <<PutModel, PutTemplate, ViewAll>>,
        <<PutModel, PutRefused, PutModel>>,
        <<RevokeKeyOf("alice"), RevokeKeyOf("alice"), ViewAll>>,
        <<Call("ka"), RevokeKeyOf("alice"), ViewOf("alice")>>}
===========================================================================
