------------------------------ MODULE MCDocuments ------------------------------
(* Workflows of four stages for TLC, declared in the order a, b, c, d.       *)
(* Built ones: every graph without a self-loop, and every graph whose stages *)
(* depend on a, itself included, and on u, a name the workflow does not      *)
(* define.  Texts: lists with and without ids, manifests and mappings, with  *)
(* dependencies on a, on d and on u.                                         *)
EXTENDS Documents

CONSTANTS a, b, c, d, u, self

MCStages == {a, b, c, d}
MCNames == MCStages \cup {u}
MCArn == {self}
MCPosition == a :> 0 @@ b :> 1 @@ c :> 2 @@ d :> 3
LoopFree == {g \in [MCStages -> SUBSET MCStages] : \A s \in MCStages : s \notin g[s]}
MCGraphs == LoopFree \cup [MCStages -> SUBSET {a, u}]

Text(fields, stages, spec) ==
  [bom |-> FALSE, parses |-> TRUE, json |-> FALSE, mapping |-> TRUE,
   fields |-> fields, bad |-> {}, arn |-> self, mode |-> None, refs |-> {self},
   stages |-> stages, spec |-> spec]

Dto == {"arn", "name", "agents", "stages"}
Manifest == {"kind", "spec"}

InOrder == <<a, b, c, d>>
FewDeps == [1 .. 4 -> {{}, {a}, {d}, {u}}]

\* Lists of stages with ids, one id used twice or none.
ListTexts ==
  {Text(Dto, [i \in 1 .. 4 |-> [id |-> names[i], name |-> None, key |-> None, deps |-> g[i]]],
        <<>>) : names \in {InOrder, <<a, b, a, d>>}, g \in FewDeps}

\* Stages named by any of their fields, in a manifest.
Keys == <<d, c, b, u>>
Namings == {<<TRUE, FALSE, FALSE>>, <<FALSE, TRUE, FALSE>>, <<FALSE, FALSE, FALSE>>,
            <<TRUE, FALSE, TRUE>>, <<FALSE, TRUE, TRUE>>}
Chains == {<<{}, {a}, {a}, {b, c}>>, <<{c}, {a}, {b}, {}>>, <<{}, {a}, {u}, {c}>>}
ManifestTexts ==
  {Text(Manifest, <<>>,
        [i \in 1 .. 4 |->
           [id   |-> IF n[1] /\ i # 2 THEN InOrder[i] ELSE IF m[1] /\ i = 2 THEN b ELSE None,
            name |-> IF n[2] THEN InOrder[i] ELSE None,
            key  |-> IF n[3] THEN Keys[i] ELSE None,
            deps |-> g[i]]]) : n \in Namings, m \in Namings, g \in Chains}

\* Mappings, as files have them.
FileTexts ==
  {Text(fields, [i \in 1 .. 4 |-> [id |-> None, name |-> None, key |-> InOrder[i], deps |-> g[i]]],
        <<>>) : fields \in {Dto, Dto \ {"agents"}}, g \in [1 .. 4 -> {{}, {b}, {c}}]
                                                  \cup [1 .. 4 -> {{}, {u}}]}

MCDocs == ListTexts \cup ManifestTexts \cup FileTexts
===============================================================================
