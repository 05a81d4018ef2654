------------------------------- MODULE Validation -------------------------------
(***************************************************************************)
(* The validation pipeline for the text of a resource (crate validation)   *)
(* with the schemas it compares the text with (crate schema): syntax, then *)
(* schema, then references, then rules per kind.  Everything here is a     *)
(* function of the text and of which ARNs are registered.                  *)
(*                                                                         *)
(* A document is what the validators tell apart of a text: whether it      *)
(* starts with a byte order mark, parses as YAML (a skill, prompt or       *)
(* template: its frontmatter), is a mapping, and is JSON; its top-level    *)
(* fields, those among them whose value has not the type their schema      *)
(* asks for, the ARN in its field arn, its mode, the ARNs it mentions      *)
(* and, for a workflow, its stages: the top-level ones, and those under    *)
(* spec.  The field spec is a mapping with no other key than stages, and   *)
(* empty if it has no stages.                                              *)
(*                                                                         *)
(* Left out: messages and locations; hints on the length of a description, *)
(* on empty documents, on undeclared template variables and on the format  *)
(* of a template; every stage names an agent.                              *)
(***************************************************************************)
EXTENDS Naturals, Sequences

CONSTANTS Arn, Names, None

Kinds == {"workflow", "agent", "skill", "prompt", "tool", "template"}

\* A stage as it is written: its fields id and name and, when the stages are a
\* mapping, its key; its depends_on.
Stage == [id : Names \cup {None}, name : Names \cup {None},
          key : Names \cup {None}, deps : SUBSET Names]

-------------------------------------------------------------------------------
\* The schemas: the fields of each type, of which these are required.

AgentSpec == {"arn", "name", "description", "model", "prompt", "skills", "tools",
              "permission", "temperature", "top_p", "steps", "mode", "hidden",
              "color", "variant", "options"}

SkillFrontmatter == {"arn", "name", "description", "scope", "content_path", "version",
                     "author", "license", "triggers", "references", "required_tools"}

PromptFrontmatter == {"arn", "name", "description", "scope", "content_path", "kind",
                      "template"}

TemplateFrontmatter == {"arn", "name", "description", "scope", "content_path",
                        "format", "target_kind"}

ToolSpec == {"arn", "name", "description", "source", "source_type", "input_schema",
             "output_schema", "category", "tags", "implementation_path", "runtime",
             "scope"}

WorkflowSpec == {"arn", "name", "version", "description", "scope", "agents", "skills",
                 "stages", "execution", "metrics"}

\* A list of stages, each with an id.
StageSpec(stages) == \A i \in DOMAIN stages : stages[i].id # None /\ stages[i].key = None

SchemaForType(kind) ==
  CASE kind = "agent"    -> AgentSpec
    [] kind = "skill"    -> SkillFrontmatter
    [] kind = "prompt"   -> PromptFrontmatter
    [] kind = "template" -> TemplateFrontmatter
    [] kind = "tool"     -> ToolSpec
    [] kind = "workflow" -> WorkflowSpec

Required(kind) == {"arn", "name"} \cup IF kind = "template" THEN {"format"} ELSE {}

-------------------------------------------------------------------------------
\* The phases: each yields the codes of the diagnostics it finds.

Diagnostic(code, found) == IF found THEN {code} ELSE {}

Result(errors, warnings) == [errors |-> errors, warnings |-> warnings]

Merge(r, s) == Result(r.errors \cup s.errors, r.warnings \cup s.warnings)

HasFatalErrors(r) == "YAML_SYNTAX" \in r.errors

IsValid(r) == r.errors = {}

ValidateSyntax(d) ==
  Result(Diagnostic("UTF8_BOM", d.bom) \cup Diagnostic("YAML_SYNTAX", ~d.parses), {})

\* A workflow in the manifest form is not compared with a schema; one with spec
\* alone is compared by its spec, which has no arn.
ValidateSchema(kind, d) ==
  LET manifest == kind = "workflow" /\ {"spec", "kind"} \subseteq d.fields
      inner == kind = "workflow" /\ "spec" \in d.fields
      conforms == /\ d.mapping /\ ~inner
                  /\ Required(kind) \subseteq d.fields
                  /\ d.bad \cap SchemaForType(kind) = {}
                  /\ kind = "workflow" => StageSpec(d.stages)
  IN Result(Diagnostic("SCHEMA_VALIDATION_ERROR", ~manifest /\ ~conforms), {})

ValidateArnReferences(arn, d, registered) ==
  Result({}, Diagnostic("UNRESOLVED_ARN", ~(d.refs \subseteq registered \cup {arn})))

Index(i) == <<"stage", i - 1>>

\* The id the validator gives a stage.
StageId(s, i) == IF s.id # None THEN s.id ELSE IF s.name # None THEN s.name ELSE Index(i)

\* The stages the validator looks at.
Validated(d) == IF "spec" \in d.fields THEN d.spec ELSE d.stages

ValidateWorkflow(d) ==
  LET stages == Validated(d)
      ids == {StageId(stages[i], i) : i \in DOMAIN stages}
  IN Result({},
       Diagnostic("DUPLICATE_STAGE",
         \E i, j \in DOMAIN stages :
           i # j /\ StageId(stages[i], i) = StageId(stages[j], j))
       \cup Diagnostic("UNDEFINED_DEPENDENCY",
              \E i \in DOMAIN stages : ~(stages[i].deps \subseteq ids)))

\* The modes it knows are not those of the schema; a bad temperature is one out of
\* range.
ValidateAgent(d) ==
  Result({},
    Diagnostic("UNKNOWN_MODE", d.mode \notin {None, "browse", "edit", "ask", "plan"})
    \cup Diagnostic("TEMPERATURE_RANGE", "temperature" \in d.bad))

MissingField(d, required) ==
  Result(Diagnostic("MISSING_FIELD", d.mapping /\ ~(required \subseteq d.fields)), {})

ValidateSkill(d) == MissingField(d, {"name", "description"})

ValidatePrompt(d) == MissingField(d, {"name", "description"})

\* Every YAML value the tool's input_schema can have is JSON.
ValidateTool(d) == MissingField(d, {"name", "description"})

ValidateTemplate(d) == MissingField(d, {"name"})

ValidateSemantic(kind, d) ==
  CASE kind = "workflow" -> ValidateWorkflow(d)
    [] kind = "agent"    -> ValidateAgent(d)
    [] kind = "skill"    -> ValidateSkill(d)
    [] kind = "prompt"   -> ValidatePrompt(d)
    [] kind = "tool"     -> ValidateTool(d)
    [] kind = "template" -> ValidateTemplate(d)

\* validate_resource.
ValidateResource(arn, kind, d, registered) ==
  LET syntax == ValidateSyntax(d)
  IN IF HasFatalErrors(syntax) THEN syntax
     ELSE Merge(Merge(syntax, ValidateSchema(kind, d)),
                Merge(ValidateArnReferences(arn, d, registered),
                      ValidateSemantic(kind, d)))
===============================================================================
