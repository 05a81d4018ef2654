------------------------------- MODULE Documents -------------------------------
(***************************************************************************)
(* The text of a workflow on its way to a plan: it is validated and        *)
(* stored, parsed, and the result given to the planner or shown as a DAG.  *)
(* Each of these reads the stages of the text in its own way: the          *)
(* validator, the parser of stored workflows and that of workflow files    *)
(* differ in what names a stage.                                           *)
(*                                                                         *)
(* A stage of the planner stands for a position in the parsed workflow,    *)
(* and Names \ Stages for the names no stage has; so every text has as     *)
(* many stages as the planner.  With doc = None a caller has built the     *)
(* workflow himself, as the planner's tests do.                            *)
(***************************************************************************)
EXTENDS Planner

CONSTANTS Arn, None, Docs

INSTANCE Validation

\* Stages are found under their fields, and a mapping has a key once.
WellFormed(d) ==
  /\ d.stages \in Seq(Stage) /\ (d.stages # <<>> => "stages" \in d.fields)
  /\ d.spec \in Seq(Stage) /\ (d.spec # <<>> => "spec" \in d.fields)
  /\ \A i, j \in DOMAIN d.stages :
       d.stages[i].key = d.stages[j].key => i = j \/ d.stages[i].key = None

ASSUME DocumentsAssumption ==
  /\ Position \in [Stages -> 0 .. Cardinality(Stages) - 1]
  /\ Names \ Stages # {}
  /\ \A d \in Docs : WellFormed(d)

VARIABLES
  doc,     (* the text                                                     *)
  phase,   (* how far it has come                                          *)
  ids      (* the id of each stage of the parsed workflow                  *)

docVars == <<doc, phase, ids>>

Parsed == {"built", "registry", "file"}

DocInit ==
  /\ ids = [s \in Stages |-> s]
  /\ \/ doc = None /\ phase = "built"
     \/ /\ doc \in Docs /\ phase = "submitted"
        /\ agents = TRUE /\ deps = [s \in Stages |-> {}]
  /\ Init

-------------------------------------------------------------------------------
\* The two parsers.

Container(d) == IF d.spec # <<>> THEN d.spec ELSE d.stages

\* Mutant of ParsedId: the key of a stage comes before its id.
ParsedByKey(s, i) ==
  IF s.key # None THEN s.key ELSE IF s.id # None THEN s.id ELSE Index(i)

\* parse_stage_yaml: the name is not looked at.
ParsedId(s, i) ==
  IF s.id # None THEN s.id ELSE IF s.key # None THEN s.key ELSE Index(i)

ParseRegistryWorkflow(d) ==
  [i \in DOMAIN Container(d) |-> [id   |-> ParsedId(Container(d)[i], i),
                                  deps |-> Container(d)[i].deps]]

\* RawWorkflow: a name at the top, and the stages a mapping.
RawWorkflow(d) ==
  "name" \in d.fields /\ \A i \in DOMAIN d.stages : d.stages[i].key # None

\* Mutant of ParseWorkflow: the dependencies stay in the order of the text.
ParseWorkflowShuffled(d, turn) ==
  [i \in DOMAIN turn |-> [id |-> d.stages[turn[i]].key, deps |-> d.stages[i].deps]]

\* parse_workflow_yaml collects the stages from a HashMap, in any order.
ParseWorkflow(d, turn) ==
  [i \in DOMAIN turn |-> [id |-> d.stages[turn[i]].key, deps |-> d.stages[turn[i]].deps]]

Ids(stages) == {stages[i].id : i \in DOMAIN stages}

\* The workflow, as the planner's graph.
Load(stages) ==
  LET at(s) == stages[Position[s] + 1]
  IN /\ Len(stages) = Cardinality(Stages)
     /\ ids' = [s \in Stages |-> at(s).id]
     /\ deps' = [s \in Stages |->
                   {t \in Stages : at(t).id \in at(s).deps}
                   \cup IF at(s).deps \subseteq Ids(stages) THEN {} ELSE Names \ Stages]

-------------------------------------------------------------------------------
\* put_content looks only for errors.
Validate ==
  /\ phase = "submitted"
  /\ phase' = IF IsValid(ValidateResource(doc.arn, "workflow", doc, Arn))
              THEN "stored" ELSE "refused"
  /\ UNCHANGED <<vars, doc, ids>>

\* generate_execution_plan: the parser leaves the agents of the workflow empty.
PlanStored ==
  /\ phase = "stored"
  /\ phase' = "registry"
  /\ Load(ParseRegistryWorkflow(doc))
  /\ agents' = FALSE
  /\ UNCHANGED <<doc, pc, search, sorting, grouping>>

PlanFile ==
  /\ phase = "submitted" /\ RawWorkflow(doc)
  /\ phase' = "file"
  /\ \E turn \in SetToSeqs(DOMAIN doc.stages) : Load(ParseWorkflow(doc, turn))
  /\ agents' = ("agents" \in doc.fields)
  /\ UNCHANGED <<doc, pc, search, sorting, grouping>>

Distinct == \A s, t \in Stages : ids[s] = ids[t] => s = t

\* The first loop of validate_workflow.
RejectDuplicates ==
  /\ phase \in Parsed /\ pc = "validate" /\ ~Distinct
  /\ pc' = "rejected"
  /\ UNCHANGED <<docVars, workflow, search, sorting, grouping>>

Plan == phase \in Parsed /\ Distinct /\ Next /\ UNCHANGED docVars

DocNext == Validate \/ PlanStored \/ PlanFile \/ RejectDuplicates \/ Plan

DocSpec == DocInit /\ [][DocNext]_<<vars, docVars>>

-------------------------------------------------------------------------------
\* The DAG of a stored workflow.

\* workflow_get: of stages with one id the last is kept.
WorkflowGet(stages) ==
  [id \in Ids(stages) |-> stages[Max({i \in DOMAIN stages : stages[i].id = id})].deps]

\* Mutant of CalculateParallelGroups: what is not a stage counts as done.
GroupsLenient(graph) ==
  LET completed[n \in 0 .. Cardinality(DOMAIN graph)] ==
        IF n = 0 THEN {}
        ELSE {id \in DOMAIN graph : graph[id] \cap DOMAIN graph \subseteq completed[n-1]}
  IN completed[Cardinality(DOMAIN graph)]

\* The stages that get into a group.
CalculateParallelGroups(graph) ==
  LET completed[n \in 0 .. Cardinality(DOMAIN graph)] ==
        IF n = 0 THEN {}
        ELSE {id \in DOMAIN graph : graph[id] \subseteq completed[n-1]}
  IN completed[Cardinality(DOMAIN graph)]

-------------------------------------------------------------------------------
\* Safety.

\* Each stage has an id, at the one place where the text has stages.
Explicit ==
  /\ doc.spec = <<>> \/ doc.stages = <<>>
  /\ "spec" \in doc.fields => doc.spec # <<>>
  /\ \A i \in DOMAIN Container(doc) : Container(doc)[i].id # None

StageWarnings ==
  ValidateResource(doc.arn, "workflow", doc, Arn).warnings
    \cap {"DUPLICATE_STAGE", "UNDEFINED_DEPENDENCY"}

\* For a stored workflow whose stages have ids, the warnings about stages are
\* what the planner refuses before its search, no more and no less, although
\* the validator and the parser find and name the stages each for itself.
WarningsPredict ==
  phase = "registry" /\ Explicit =>
    /\ StageWarnings # {} /\ pc \in Done => pc = "rejected" /\ visited = {}
    /\ StageWarnings = {} /\ pc = "rejected" => visited # {}

\* Stages that wait for each other, in a parsed text.
Knot(stages) ==
  \E S \in SUBSET DOMAIN stages :
    S # {} /\ \A i \in S : \E j \in S : stages[j].id \in stages[i].deps

\* Such a workflow is stored without a warning and has no knot exactly if its
\* DAG has a node for every stage and a group for every node; otherwise
\* workflow_get_dag leaves stages out and says nothing.
DagShowsAll ==
  phase = "stored" /\ Explicit =>
    LET stages == ParseRegistryWorkflow(doc)
        graph == WorkflowGet(stages)
    IN StageWarnings = {} /\ ~Knot(stages)
       <=> /\ Cardinality(DOMAIN graph) = Len(stages)
           /\ CalculateParallelGroups(graph) = DOMAIN graph

\* What plan makes of a file is a matter of its text alone, whatever the order
\* in which the stages came out of the map.
VerdictOfText ==
  phase = "file" /\ pc \in Done =>
    LET stages == ParseWorkflow(doc, [i \in DOMAIN doc.stages |-> i])
        defined == \A i \in DOMAIN stages : stages[i].deps \subseteq Ids(stages)
    IN pc = IF ~defined THEN "rejected"
            ELSE IF Knot(stages) THEN "cyclic"
            ELSE IF "agents" \in doc.fields THEN "planned" ELSE "rejected"

===============================================================================
