-------------------------------- MODULE Catalogue --------------------------------
(***************************************************************************)
(* The catalogue of resources: rows of the nodes table, files under the    *)
(* workspace directory, the start-up that fills both with the defaults     *)
(* (bootstrap.rs, start_server), and the REST calls that change them,      *)
(* their statements interleaving.  The server may be killed at any step.   *)
(*                                                                         *)
(* A file is truncated, then written.  The directories are created with    *)
(* the files in them.  A resource that cannot be registered at start-up is *)
(* warned about and passed over; any other failure there ends the server,  *)
(* as Crash does.  A call that is refused changes nothing and has no       *)
(* action.  Bounds: MaxCalls calls, MaxCrashes crashes.                    *)
(***************************************************************************)
EXTENDS Validation, FiniteSets

CONSTANTS
  Clients,
  Kind,             (* the type in an ARN                                  *)
  Pathed, Global,   (* the ARNs whose scope gives them a file, or is global *)
  Defaults,         (* the ARNs of the default resources, in their order   *)
  Values, Blank,    (* the rest of a text: of a request's, of any other    *)
  Shipped, Texts,   (* the default texts; the texts put_content gets       *)
  Torn,             (* a file cut short                                    *)
  UserFiles,        (* the files there may be before the first start       *)
  MaxCalls, MaxCrashes

(* A text: its document, whether that is the frontmatter of a Markdown text, *)
(* and the rest.                                                             *)
Field == {"apiVersion", "kind", "metadata", "spec", "version", "description"}
         \cup UNION {SchemaForType(kind) : kind \in Kinds}

Document == [bom : BOOLEAN, parses : BOOLEAN, json : BOOLEAN, mapping : BOOLEAN,
             fields : SUBSET Field, bad : SUBSET Field, arn : Arn \cup {None},
             mode : STRING \cup {None}, refs : SUBSET Arn, stages : Seq(Stage), spec : Seq(Stage)]

Content == [doc : Document, front : BOOLEAN, value : Values \cup {Blank}]

Row == [kind : Kinds, config : Content \cup {None}]

ASSUME CatalogueAssumption ==
  /\ Kind \in [Arn -> Kinds]
  /\ Global \subseteq Pathed /\ Pathed \subseteq Arn
  /\ Defaults \in Seq(Global)
  /\ Shipped \in [Arn -> Content]
  /\ Texts \in [Arn -> SUBSET Content]
  /\ UserFiles \subseteq [Arn -> Content \cup {None}]
  /\ MaxCalls \in Nat /\ MaxCrashes \in Nat
  /\ None \notin Content \cup Row \cup Arn /\ Torn \notin Content \cup {None}

\* There are no default templates, and a shipped YAML text names itself, on lines.
ASSUME ShippedAssumption ==
  \A i \in DOMAIN Defaults :
    LET d == Defaults[i]
    IN /\ Kind[d] # "template"
       /\ Kind[d] \in {"workflow", "agent", "tool"}
            => /\ "name" \in Shipped[d].doc.fields /\ Shipped[d].doc.arn = d
               /\ ~Shipped[d].doc.json

VARIABLES
  rows,        (* the nodes table                                          *)
  files,       (* the file of an ARN                                       *)
  db,          (* whether the file of the database exists                  *)
  executed,    (* the workflows that rows of executions refer to           *)
  foreignKeys, (* whether the connection checks foreign keys               *)
  pc,          (* where the server is                                      *)
  next,        (* the default the start-up is at                           *)
  todo,        (* the files still to register                              *)
  warned,      (* what this start-up could not register                    *)
  calls,       (* the call of a client                                     *)
  made, crashes,
  unchecked,   (* whether it ever stopped checking while serving           *)
  interrupted, (* whether a start-up was killed among the defaults         *)
  saved        (* what put_content saved and no other call touched since   *)

store == <<rows, files, db, executed>>
startup == <<pc, next, todo, warned>>
history == <<interrupted, unchecked, saved>>
vars == <<store, startup, history, foreignKeys, calls, made, crashes>>

Node(kind, config) == [kind |-> kind, config |-> config]

Idle == [op |-> "idle"]
Call == [op : {"update", "delete", "put", "execute"}, arn : Arn, kind : Kinds,
         row : Row, text : Content \cup {None}, value : Values \cup {Blank}, step : Nat,
         alone : BOOLEAN]

TypeOK ==
  /\ rows \in [Arn -> Row \cup {None}]
  /\ files \in [Arn -> Content \cup {None, Torn}]
  /\ db \in BOOLEAN /\ foreignKeys \in BOOLEAN
  /\ interrupted \in BOOLEAN /\ unchecked \in BOOLEAN
  /\ executed \subseteq Arn
  /\ pc \in {"down", "init", "defaults", "write", "open", "register", "up"}
  /\ next \in Nat /\ todo \subseteq Arn /\ warned \subseteq Arn
  /\ calls \in [Clients -> Call \cup {Idle}]
  /\ made \in 0 .. MaxCalls /\ crashes \in 0 .. MaxCrashes
  /\ saved \in [Arn -> Content \cup {None}]

Init ==
  /\ rows = [a \in Arn |-> None] /\ files \in UserFiles /\ db = FALSE
  /\ executed = {} /\ foreignKeys = FALSE
  /\ pc = "down" /\ next = 1 /\ todo = {} /\ warned = {}
  /\ calls = [c \in Clients |-> Idle]
  /\ made = 0 /\ crashes = 0
  /\ interrupted = FALSE /\ unchecked = FALSE /\ saved = [a \in Arn |-> None]

-------------------------------------------------------------------------------
\* The start-up.

IsInitialized == files[Defaults[1]] # None /\ db

Start ==
  /\ pc = "down"
  /\ pc' = IF IsInitialized THEN "open" ELSE "init"
  /\ next' = 1
  /\ UNCHANGED <<store, history, foreignKeys, todo, warned, calls, made, crashes>>

\* The first half of init: the directories and the database.
CreateDatabase ==
  /\ pc = "init"
  /\ pc' = "defaults" /\ db' = TRUE
  /\ UNCHANGED <<rows, files, executed, history, foreignKeys, next, todo, warned, calls,
                 made, crashes>>

\* Mutant of Kept: a default that is there is written again.
KeptNever(f) == FALSE

\* path.exists().
Kept(f) == f # None

\* The second half: each default resource, unless its file exists.
CreateDefaults ==
  /\ pc = "defaults"
  /\ IF next > Len(Defaults)
     THEN pc' = "open" /\ UNCHANGED <<files, next>>
     ELSE IF Kept(files[Defaults[next]])
     THEN next' = next + 1 /\ UNCHANGED <<files, pc>>
     ELSE /\ files' = [files EXCEPT ![Defaults[next]] = Torn]
          /\ pc' = "write" /\ UNCHANGED next
  /\ UNCHANGED <<rows, db, executed, history, foreignKeys, todo, warned, calls, made, crashes>>

WriteDefault ==
  /\ pc = "write"
  /\ files' = [files EXCEPT ![Defaults[next]] = Shipped[Defaults[next]]]
  /\ pc' = "defaults" /\ next' = next + 1
  /\ UNCHANGED <<rows, db, executed, history, foreignKeys, todo, warned, calls, made, crashes>>

\* The bundled SQLite checks foreign keys unless it is told not to.
OpenDatabase == db' = TRUE /\ foreignKeys' = TRUE

\* AppState::new.
Open ==
  /\ pc = "open"
  /\ pc' = "register" /\ OpenDatabase
  /\ todo' = {a \in Global : files[a] # None /\ Kind[a] # "template"}
  /\ UNCHANGED <<rows, files, executed, history, next, warned, calls, made, crashes>>

\* The ARN a file registers: the one in its text, or that of its path.  The text is
\* searched for lines that begin with the field: JSON has none.
ExtractYamlField(f) ==
  IF f = Torn THEN None
  ELSE IF f.doc.json \/ "name" \notin f.doc.fields THEN None ELSE f.doc.arn

RegisteredArn(a) ==
  IF Kind[a] \in {"skill", "prompt"} THEN a ELSE ExtractYamlField(files[a])

AsJson(c) == [c EXCEPT !.doc.json = TRUE]

\* Mutant of RegisterRow: an existing row is not skipped.
RegisterRowAgain(b, row) ==
  IF b = None THEN UNCHANGED <<rows, warned>>
  ELSE rows' = [rows EXCEPT ![b] = row] /\ UNCHANGED warned

\* A file without an arn and an ARN with a row are passed over.  When the statements
\* of get or create fail, a warning is printed and the row, if there is none, is not.
RegisterRow(b, row) ==
  \/ /\ b # None => rows[b] # None
     /\ UNCHANGED <<rows, warned>>
  \/ /\ b # None /\ rows[b] = None
     /\ rows' = [rows EXCEPT ![b] = row] /\ UNCHANGED warned
  \/ /\ b # None
     /\ warned' = warned \cup {b} /\ UNCHANGED rows

\* The directories of workflows, agents and tools, whose texts become the configs.
RegisterYamlDir(a) ==
  /\ Kind[a] \in {"workflow", "agent", "tool"}
  /\ LET b == RegisteredArn(a)
     IN RegisterRow(b, Node(Kind[a], IF b = None THEN None ELSE AsJson(files[a])))

\* Mutant of RegisterSkillsDir: a skill without an arn is skipped.
RegisterSkillsDirByText(a) ==
  Kind[a] = "skill" /\ RegisterRow(ExtractYamlField(files[a]), Node("skill", None))

RegisterSkillsDir(a) == Kind[a] = "skill" /\ RegisterRow(a, Node("skill", None))

RegisterPromptsDir(a) == Kind[a] = "prompt" /\ RegisterRow(a, Node("prompt", None))

Turn(kind) ==
  CASE kind = "workflow" -> 1 [] kind = "agent" -> 2 [] kind = "tool" -> 3
    [] kind = "skill" -> 4 [] OTHER -> 5

Register ==
  /\ pc = "register"
  /\ \E a \in todo :
       /\ \A b \in todo : Turn(Kind[a]) <= Turn(Kind[b])
       /\ todo' = todo \ {a}
       /\ RegisterYamlDir(a) \/ RegisterSkillsDir(a) \/ RegisterPromptsDir(a)
  /\ UNCHANGED <<files, db, executed, history, foreignKeys, pc, next, calls, made, crashes>>

\* The routes are served.
Listen ==
  /\ pc = "register" /\ todo = {}
  /\ pc' = "up" /\ warned' = {}
  /\ UNCHANGED <<store, history, foreignKeys, next, todo, calls, made, crashes>>

Crash ==
  /\ pc # "down" /\ crashes < MaxCrashes
  /\ crashes' = crashes + 1
  /\ pc' = "down" /\ todo' = {} /\ warned' = {} /\ foreignKeys' = FALSE
  /\ calls' = [c \in Clients |-> Idle]
  /\ interrupted' = (interrupted \/ (pc \in {"defaults", "write"} /\ files[Defaults[1]] # None))
  /\ UNCHANGED <<store, next, made, saved, unchecked>>

-------------------------------------------------------------------------------
\* The routes of the resources: a create, update or delete per kind.

Markdown(kind) == kind \in {"skill", "prompt", "template"}

\* The config of a REST resource: everything under spec; no arn at the top.
Built(fields, v) ==
  [doc |-> [bom |-> FALSE, parses |-> TRUE, json |-> FALSE, mapping |-> TRUE,
            fields |-> {"apiVersion", "kind", "metadata", "spec"} \cup fields,
            bad |-> {}, arn |-> None, mode |-> None, refs |-> {},
            stages |-> <<>>, spec |-> <<>>],
   front |-> FALSE, value |-> v]

BuildAgentConfig(v)    == Built({}, v)
BuildSkillConfig(v)    == Built({}, v)
BuildPromptConfig(v)   == Built({}, v)
BuildToolConfig(v)     == Built({}, v)
BuildTemplateConfig(v) == Built({}, v)
BuildWorkflowConfig(v) == Built({"version", "description"}, v)

BuildConfig(kind, v) ==
  CASE kind = "agent" -> BuildAgentConfig(v)   [] kind = "skill" -> BuildSkillConfig(v)
    [] kind = "prompt" -> BuildPromptConfig(v) [] kind = "tool" -> BuildToolConfig(v)
    [] kind = "template" -> BuildTemplateConfig(v)
    [] kind = "workflow" -> BuildWorkflowConfig(v)

\* The config as YAML; Markdown, several YAML documents, reads as an empty mapping.
EmptyMapping ==
  [doc |-> [bom |-> FALSE, parses |-> TRUE, json |-> TRUE, mapping |-> TRUE,
            fields |-> {}, bad |-> {}, arn |-> None, mode |-> None, refs |-> {},
            stages |-> <<>>, spec |-> <<>>],
   front |-> FALSE, value |-> Blank]

AsYaml(c) == [c EXCEPT !.doc.json = (c.doc.fields = {}), !.doc.bom = FALSE]

ReadYaml(config) ==
  IF config = None THEN EmptyMapping
  ELSE IF config.front \/ ~config.doc.parses THEN EmptyMapping
  ELSE AsYaml(config)

\* The new fields go into spec; without one they are dropped.
IntoSpec(c, v) == IF "spec" \in c.doc.fields THEN [c EXCEPT !.value = v] ELSE c

ApplyAgentUpdate(c, v)    == IntoSpec(c, v)
ApplySkillUpdate(c, v)    == IntoSpec(c, v)
ApplyPromptUpdate(c, v)   == IntoSpec(c, v)
ApplyToolUpdate(c, v)     == IntoSpec(c, v)
ApplyTemplateUpdate(c, v) == IntoSpec(c, v)

\* A workflow gets a spec, and a description at the top.
ApplyWorkflowUpdate(c, v) ==
  [c EXCEPT !.doc.fields = @ \cup {"spec", "description"}, !.doc.json = FALSE, !.value = v]

ApplyUpdate(kind, c, v) ==
  CASE kind = "agent" -> ApplyAgentUpdate(c, v)   [] kind = "skill" -> ApplySkillUpdate(c, v)
    [] kind = "prompt" -> ApplyPromptUpdate(c, v) [] kind = "tool" -> ApplyToolUpdate(c, v)
    [] kind = "template" -> ApplyTemplateUpdate(c, v)
    [] kind = "workflow" -> ApplyWorkflowUpdate(c, v)

\* A free client makes a call.
Free(c) ==
  /\ pc = "up" /\ calls[c] = Idle /\ made < MaxCalls
  /\ made' = made + 1

Changing(x, a) == calls[x] # Idle /\ calls[x].arn = a /\ calls[x].op # "execute"

Request(op, a, kind, text, v, step) ==
  [op |-> op, arn |-> a, kind |-> kind, row |-> rows[a], text |-> text, value |-> v,
   step |-> step, alone |-> \A x \in Clients : ~Changing(x, a)]

\* A call that changes a begins: no other on a is alone any more, and what was saved
\* there may change.
Begin(c, a, call) ==
  /\ Free(c)
  /\ calls' = [x \in Clients |-> IF x = c THEN call
                                ELSE IF Changing(x, a) THEN [calls[x] EXCEPT !.alone = FALSE]
                                ELSE calls[x]]
  /\ saved' = [saved EXCEPT ![a] = None]

End(c) == calls' = [calls EXCEPT ![c] = Idle]

At(c, op, step) == calls[c] # Idle /\ calls[c].op = op /\ calls[c].step = step

\* save_node: the lookup of create does not matter, as both ways end in an upsert.
SaveNode(a, row) == rows' = [rows EXCEPT ![a] = row]

Create(c, a, v) ==
  /\ Begin(c, a, Idle)
  /\ SaveNode(a, Node(Kind[a], BuildConfig(Kind[a], v)))
  /\ UNCHANGED <<files, db, executed, startup, foreignKeys, crashes, interrupted, unchecked>>

ReadToUpdate(c, a, kind, v) ==
  /\ rows[a] # None
  /\ Begin(c, a, Request("update", a, kind, None, v, 1))
  /\ UNCHANGED <<store, startup, foreignKeys, crashes, interrupted, unchecked>>

\* The row gets the type of the route.
Update(c) ==
  /\ At(c, "update", 1)
  /\ LET call == calls[c]
     IN SaveNode(call.arn, Node(call.kind, ApplyUpdate(call.kind, ReadYaml(call.row.config),
                                                       call.value)))
  /\ End(c)
  /\ UNCHANGED <<files, db, executed, startup, history, foreignKeys, made, crashes>>

\* delete_node_by_arn.
ReadToDelete(c, a) ==
  /\ rows[a] # None
  /\ Begin(c, a, Request("delete", a, Kind[a], None, Blank, 1))
  /\ UNCHANGED <<store, startup, foreignKeys, crashes, interrupted, unchecked>>

\* Mutant of Referenced: the connection never checks.
ReferencedNever(a) == FALSE

Referenced(a) == foreignKeys /\ a \in executed

Delete(c) ==
  /\ At(c, "delete", 1)
  /\ IF Referenced(calls[c].arn) THEN UNCHANGED rows
     ELSE rows' = [rows EXCEPT ![calls[c].arn] = None]
  /\ End(c)
  /\ UNCHANGED <<files, db, executed, startup, history, foreignKeys, made, crashes>>

\* The handlers of one kind of resource; update and delete take any ARN.
ResourceCalls(c, kind) ==
  \E a \in Arn, v \in Values :
    \/ Kind[a] = kind /\ Create(c, a, v)
    \/ ReadToUpdate(c, a, kind, v)
    \/ ReadToDelete(c, a)

WorkflowCalls(c) == ResourceCalls(c, "workflow")
AgentCalls(c)    == ResourceCalls(c, "agent")
SkillCalls(c)    == ResourceCalls(c, "skill")
PromptCalls(c)   == ResourceCalls(c, "prompt")
ToolCalls(c)     == ResourceCalls(c, "tool")
TemplateCalls(c) == ResourceCalls(c, "template")

-------------------------------------------------------------------------------
\* put_content.

Registered == {a \in Arn : rows[a] # None}

ResourceType(a) == Kind[a]

\* Mutant of ReadToPut: the row need not exist.
ReadToPutAny(c, a, text) ==
  /\ IsValid(ValidateResource(a, Kind[a], text.doc, Registered))
  /\ Begin(c, a, Request("put", a, Kind[a], text, Blank, IF a \in Pathed THEN 1 ELSE 3))
  /\ UNCHANGED <<store, startup, foreignKeys, crashes, interrupted, unchecked>>

ReadToPut(c, a, text) ==
  /\ rows[a] # None
  /\ IsValid(ValidateResource(a, ResourceType(a), text.doc, Registered))
  /\ Begin(c, a, Request("put", a, Kind[a], text, Blank, IF a \in Pathed THEN 1 ELSE 3))
  /\ UNCHANGED <<store, startup, foreignKeys, crashes, interrupted, unchecked>>

Advance(c) == calls' = [calls EXCEPT ![c].step = @ + 1]

TruncateFile(c) ==
  /\ At(c, "put", 1)
  /\ files' = [files EXCEPT ![calls[c].arn] = Torn]
  /\ Advance(c)
  /\ UNCHANGED <<rows, db, executed, startup, history, foreignKeys, made, crashes>>

WriteFile(c) ==
  /\ At(c, "put", 2)
  /\ files' = [files EXCEPT ![calls[c].arn] = calls[c].text]
  /\ Advance(c)
  /\ UNCHANGED <<rows, db, executed, startup, history, foreignKeys, made, crashes>>

\* IO_ERROR.
FailToWrite(c) ==
  /\ At(c, "put", 1) \/ At(c, "put", 2)
  /\ End(c)
  /\ UNCHANGED <<store, startup, history, foreignKeys, made, crashes>>

\* The row as it was read, with the text.
WithContent(row, text) == [row EXCEPT !.config = text]

PutContent(c) ==
  /\ At(c, "put", 3)
  /\ LET call == calls[c]
     IN /\ SaveNode(call.arn, WithContent(call.row, call.text))
        /\ saved' = IF call.alone THEN [saved EXCEPT ![call.arn] = call.text] ELSE saved
  /\ End(c)
  /\ UNCHANGED <<files, db, executed, startup, foreignKeys, made, crashes, interrupted, unchecked>>

\* get_content.
GetContent(a) ==
  IF a \in Pathed /\ files[a] # None THEN files[a] ELSE rows[a].config

-------------------------------------------------------------------------------
\* The calls that touch foreign keys.

\* create_execution reads the row; a stage of the workflow must be able to start.
Runnable(config) ==
  /\ config # None
  /\ ~config.front /\ config.doc.parses
  /\ \E i \in DOMAIN Validated(config.doc) : Validated(config.doc)[i].deps = {}

ReadToExecute(c, a) ==
  /\ rows[a] # None
  /\ Runnable(rows[a].config)
  /\ Free(c)
  /\ calls' = [calls EXCEPT ![c] = Request("execute", a, Kind[a], None, Blank, 1)]
  /\ UNCHANGED <<store, startup, history, foreignKeys, crashes>>

InsertExecution(c) ==
  /\ At(c, "execute", 1)
  /\ executed' = IF foreignKeys /\ rows[calls[c].arn] = None THEN executed
                 ELSE executed \cup {calls[c].arn}
  /\ End(c)
  /\ UNCHANGED <<rows, files, db, startup, history, foreignKeys, made, crashes>>

\* artifact_create turns the check off for its insert, and never on again.
CreateArtifact(c) ==
  /\ Free(c)
  /\ foreignKeys' = FALSE /\ unchecked' = TRUE
  /\ UNCHANGED <<store, startup, calls, crashes, interrupted, saved>>

-------------------------------------------------------------------------------
\* The MCP tools that read the table.

ListByType(kind) == {a \in Registered : rows[a].kind = kind}

\* No case for prompts and templates.
ListNodes(kind) ==
  IF kind \in {"workflow", "agent", "skill", "tool"} THEN ListByType(kind) ELSE {}

WorkflowList == ListNodes("workflow")
AgentList    == ListNodes("agent")
SkillList    == ListNodes("skill")

\* tool_search without filters.
ToolSearch == ListByType("tool")

\* The lists of the REST routes.
WorkflowResources == ListByType("workflow")
AgentResources    == ListByType("agent")
SkillResources    == ListByType("skill")
PromptResources   == ListByType("prompt")
ToolResources     == ListByType("tool")
TemplateResources == ListByType("template")

Listed ==
  WorkflowResources \cup AgentResources \cup SkillResources \cup PromptResources
    \cup ToolResources \cup TemplateResources

\* The config is parsed as JSON into a record of these fields.
ReadJson(config, fields) ==
  config # None => /\ config.doc.json /\ ~config.front
                   /\ fields \subseteq config.doc.fields

\* Skills and tools are lists there, and tools a mapping in the schema.
AgentGet(row) ==
  /\ ReadJson(row.config, {"arn", "name", "description", "scope", "model", "skills", "tools"})
  /\ row.config # None => "tools" \in row.config.doc.bad

SkillGet(row) ==
  ReadJson(row.config, {"arn", "name", "description", "scope", "content", "triggers"})

PromptGet(row) == ReadJson(row.config, {"arn", "name", "description", "scope", "content"})

-------------------------------------------------------------------------------
\* The routes of the server.
Route(c) ==
  \/ WorkflowCalls(c) \/ AgentCalls(c) \/ SkillCalls(c)
  \/ PromptCalls(c) \/ ToolCalls(c) \/ TemplateCalls(c)
  \/ \E a \in Arn : ReadToExecute(c, a) \/ \E text \in Texts[a] : ReadToPut(c, a, text)
  \/ CreateArtifact(c)

Continue(c) ==
  \/ Update(c) \/ Delete(c) \/ InsertExecution(c)
  \/ TruncateFile(c) \/ WriteFile(c) \/ FailToWrite(c) \/ PutContent(c)

StartServer ==
  CreateDatabase \/ CreateDefaults \/ WriteDefault \/ Open \/ Register \/ Listen

Next ==
  \/ Start \/ StartServer \/ Crash
  \/ \E c \in Clients : Route(c) \/ Continue(c)

Spec == Init /\ [][Next]_vars

-------------------------------------------------------------------------------
\* When the server opens, the lists of the REST routes have every resource whose file
\* is whole and names itself, unless this start-up printed a warning for it, and the
\* defaults are there, unless a start-up was killed among them: then the next one
\* takes the workspace for initialized (start_server).  At the first opening each
\* shipped default without a warning is in the MCP list of its kind, but for the
\* prompts, which no MCP list has.
OpensComplete ==
  [][pc # "up" /\ pc' = "up" =>
       /\ \A a \in Global :
            files[a] # None /\ Kind[a] # "template" /\ RegisteredArn(a) # None
              => RegisteredArn(a) \in Listed \cup warned
       /\ \A i \in DOMAIN Defaults :
            LET d == Defaults[i]
            IN /\ ~interrupted => files[d] # None
               /\ crashes = 0 /\ files[d] = Shipped[d] /\ Kind[d] # "prompt"
                    => d \in WorkflowList \cup AgentList \cup SkillList \cup ToolSearch \cup warned]_vars

\* A start-up, the first or a later one, killed or not, changes no row there is and
\* no file there is but a torn one: what users wrote under the names of the defaults
\* stays (bootstrap.rs).
StartKeepsEdits ==
  [][pc # "up" => \A a \in Arn : /\ rows[a] # None => rows'[a] = rows[a]
                                 /\ files[a] \notin {None, Torn} => files'[a] = files[a]]_vars

\* artifact_handler.rs:56 says that the check is disabled for the one insert: a
\* workflow that executions refer to keeps its row.
ExecutedKept == \A a \in executed : rows[a] # None

\* It does as long as no artifact was created: deletes race with executions, and the
\* foreign key decides (db.rs).
KeptWhileChecked == ~unchecked => ExecutedKept

\* What put_content saved, with no other call on the ARN during it or since, is what
\* get_content answers and what the table holds, through crashes and restarts.
SavesSurvive ==
  \A a \in Arn :
    saved[a] # None => rows[a] # None /\ rows[a].config = saved[a] /\ GetContent(a) = saved[a]

\* rest_handlers.rs:1149 says that MCP reads reflect the latest saved version
\* immediately: what is saved can be read with agent_get, skill_get or prompt_get.
SavedIsReadable ==
  \A a \in Arn :
    saved[a] # None =>
      /\ Kind[a] = "agent" => AgentGet(rows[a])
      /\ Kind[a] = "skill" => SkillGet(rows[a])
      /\ Kind[a] = "prompt" => PromptGet(rows[a])
===============================================================================
