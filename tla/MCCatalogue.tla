------------------------------ MODULE MCCatalogue ------------------------------
(* Resources for TLC, shipped as in templates/: the workflow w, the agent g, *)
(* the skill s and the prompt r; and the agent o of a scope without files.   *)
EXTENDS Catalogue, TLC

CONSTANTS w, g, s, r, o, x, blank, new

MCArn == {w, g, s, r, o}
MCKind == w :> "workflow" @@ g :> "agent" @@ s :> "skill" @@ r :> "prompt" @@ o :> "agent"

Text(fields, bad, arn, stages, front, v) ==
  [doc |-> [bom |-> FALSE, parses |-> TRUE, json |-> FALSE, mapping |-> TRUE,
            fields |-> fields, bad |-> bad, arn |-> arn, mode |-> None, refs |-> {s},
            stages |-> stages, spec |-> <<>>],
   front |-> front, value |-> v]

OneStage(id, key) == <<[id |-> id, name |-> None, key |-> key, deps |-> {}]>>

AgentFields == {"arn", "name", "description", "model", "skills", "tools"}

ShippedWorkflow == Text({"arn", "name", "agents", "stages"}, {"agents"}, w,
                        OneStage(None, x), FALSE, blank)
ShippedAgent == Text(AgentFields, {"tools"}, g, <<>>, FALSE, blank)
ShippedSkill == Text({"name", "description"}, {}, None, <<>>, TRUE, blank)
ShippedPrompt == [Text({}, {}, None, <<>>, TRUE, blank) EXCEPT !.doc.parses = FALSE]
MCShipped == w :> ShippedWorkflow @@ g :> ShippedAgent @@ s :> ShippedSkill @@ r :> ShippedPrompt @@ o :> ShippedAgent

\* Saved texts; the last for w lacks the ids of its stages, that for g names o.
MCTexts ==
  w :> {Text({"arn", "name", "stages"}, {}, w, OneStage(x, None), FALSE, new),
        Text({"arn", "name", "stages"}, {}, w, OneStage(None, x), FALSE, new)}
  @@ g :> {Text(AgentFields, {}, o, <<>>, FALSE, new), ShippedAgent}
  @@ s :> {Text({"arn", "name", "description"}, {}, s, <<>>, TRUE, new)}
  @@ r :> {ShippedPrompt}
  @@ o :> {Text(AgentFields, {}, o, <<>>, FALSE, new)}

MCDefaults == <<w, g, s, r>>

NoFiles == [a \in MCArn |-> None]
MCUserFiles == {NoFiles, [NoFiles EXCEPT ![g] = Text(AgentFields, {}, g, <<>>, FALSE, new)]}
===============================================================================
