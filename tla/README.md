# A formal model of agents-workflows

TLA+ modules, TLC configurations and TLAPS proofs about the server of agents-workflows:
the executions of workflows and their state machine, the tools and routes that work on
them, the parsers, the validator and the planner, the artifact store, the catalogue of
resources with its start-up, and what the server tells of an execution: insights and
metrics.

Run a configuration `R.cfg` with `tlc -config R.cfg M.tla` (the table of runs names the
module), and the proofs with `tlapm P.tla` for `ExecutionRepositoryProofs`,
`ExecutionServiceProofs`, `TelemetryProofs`, `RecursionLemmas`, `PlannerProofs`,
`DocumentsProofs`, `ArtifactsProofs` and `CatalogueProofs`.

## 1. The system

One process (`crates/mcp-server`) serves MCP tools, which agents call, and REST routes,
which the Studio (a web front end) calls. Handlers are tasks of a multi-threaded
runtime. They share one SQLite connection behind a mutex: one statement is atomic,
nothing spans two. Agents do the work of the stages; the server records what they report
and tells them what may come next.

| part | state it keeps | operations | what is hard about it | what makes it correct |
|---|---|---|---|---|
| execution state machine (`workflow/domain/execution_state.rs`) | the execution record | start, complete_stage, check_completion | legal calls in a bad order | stages never get lost; completed means all done |
| navigator (`workflow/application/workflow_navigator.rs`) | none | which stages are executable, next, first | three overlapping records of a stage's progress | a stage runs only after its dependencies |
| execution service (`workflow/application/execution_service.rs`) | none of its own | create, complete, advance, synchronize, abort | reads and writes of callers interleave | updates do not undo each other |
| persistence (`mcp-server/execution_repository_adapter.rs`, `execution_store.rs`) | table `executions` | insert, update, abort, pause, resume | a row keeps less than the record has | what is read is what was written, where it matters |
| execution tools and routes (`mcp-server/workflow_handler.rs`, `rest_handlers.rs`) | none of their own | execute, update_state, get_next_stage, abort; pause, resume, abort | agents and operators act at once | an abort is final; progress is kept; the end is reached |
| planner (`workflow/application/executor.rs`) | local | validate, sort, group | graphs nobody wrote a test for | cycles are found, the order and the groups respect dependencies |
| workflow service (`workflow/application/workflow_service.rs`) | local | validation and grouping a second time | agreement with the planner | the same levels |
| artifacts (`crates/artifact`, `mcp-server/artifact_handler.rs`, `artifact_store.rs`) | table `artifacts` and a directory tree | create, get, download, delete, clean up | row and file change in separate steps | no row without its file, no file without an owner |
| parsers (`workflow/application/parser.rs`) | none | text to workflow, of stored workflows and of files | three readings of one text; a map without order | what was accepted without a warning can be planned and shown |
| validation and schema (`crates/validation`, `crates/schema`) | none | syntax, schema, references, rules per kind | phases that overlap | errors stop a save, warnings foretell what comes |
| registry (`crates/registry`, `mcp-server/state.rs`) | tables `nodes`, `edges` | create, update, delete, lists | foreign keys are a state of the connection | executions keep their workflow |
| start-up (`mcp-server/bootstrap.rs`, `main.rs`) | files of the defaults, `nodes` | create the database and the files, register the files | killed at any step, started again | nothing of the users' is lost, the catalogue is complete but for what was warned about |
| resource and content routes (`mcp-server/resources`, `rest_handlers.rs`) | files and `nodes` | create, update, delete, put, get | a row and a file changed in separate steps; four formats in one column | what was saved is what is read |
| insights (`mcp-server/insights_handler.rs`, `crates/insights`) | table `insights` | log, aggregate | the log and the execution are told separately | the two agree |
| metrics stream (`mcp-server/metrics_sse.rs`, `main.rs`) | a broadcast channel | broadcast, subscribe, ask again | a filter, a slow subscriber, events after the fact | the subscriber ends up with the progress |
| alerts, workspaces, Studio | a table each; the browser | single statements; an alert read, changed and written | - | - |

An execution goes through the parts like this: `workflow_execute` looks the workflow up
in the registry, asks the navigator for the first stage and inserts a running execution.
An agent asks `workflow_get_next_stage`, has the stage done, and reports the list of
completed stages with `workflow_update_state`, which reads the row, merges the
parameters and writes the row back. `workflow_abort` and the routes set the status.
Artifacts are created for an execution independently of its row; the abort route removes
their files. The agents log insights about it in separate calls, and every call ends
with an event to the subscribers of the metrics stream.

A resource (a workflow, agent, skill, prompt, tool or template) is a row of `nodes` and,
depending on its ARN, a file. At a start the server creates the default files that are
missing and registers every file that has no row yet; after that the routes change rows
and files, and the tools read the rows.

Two ways of recording progress exist. The service's own methods `complete_stage` and
`advance_to_next_stage` validate each transition; the server does not call them yet. The
server's handlers use `synchronize_execution_state`, which stores what the caller sends.
Both are modelled.

## 2. The modules

| module | models | state |
|---|---|---|
| `ExecutionState` | the record, its transitions, the navigator's questions; constant-level operators only | - |
| `ExecutionRepository` | what saving, reading and updating a row do to a record; `Adapter` chooses the SQLite adapter, or the in-memory repository of the service's tests | - |
| `Lifecycle` | the abstract lifecycle of an execution that ADR-0007 promises | status, done |
| `ExecutionService` | `ExecutionApplicationService` under concurrent callers | row, pc, snap |
| `ExecutionServer` | the MCP tools and REST routes on one execution | row, pc, read, params |
| `Orchestration` | `ExecutionServer` composed with agents that follow the monitor loop of `docs/orchestrator-prompt.md` | adds work, known |
| `Telemetry` | `Orchestration` composed with the log of insights, its analytics, the broadcast of events and a subscriber that follows them | adds insights, due, owed, filter, feed, lagged, stale, view |
| `Planner` | `WorkflowPlanner::plan`, with the two other groupings of a graph as functions | pc, the loop over the roots, the search stack, the queue, the order, the groups |
| `Validation` | the validation pipeline and the schemas; constant-level operators only | - |
| `Documents` | a text that is validated, stored, parsed by either parser, planned by `Planner` and shown as a DAG | adds doc, phase, ids |
| `Artifacts` | files and rows under concurrent handlers, failures and crashes | rows, files, call |
| `ArtifactStore` | the abstract store of artifacts that the calls implement | given, pending, readable |
| `Catalogue` | the start-up and the routes of the resources on rows and files, with crashes; uses `Validation` | rows, files, db, executed, foreignKeys, pc, next, todo, warned, calls |
| `ExecutionRepositoryProofs` | lemmas about the record, its transitions and the repository, for the next two | - |
| `RecursionLemmas` | lemmas about recursive functions, maxima and sums, for the proofs about loops and logs | - |
| `ExecutionServiceProofs`, `TelemetryProofs` (with `ExecutionServer`), `PlannerProofs`, `DocumentsProofs`, `ArtifactsProofs`, `CatalogueProofs` | theorems | - |
| `MC...` | small instances for TLC | - |

**ExecutionService.** A method of the service is a `find_by_arn` and a later `update`;
so it is two actions, `Load(c, m)` and the rest of the method, and `snap[c]` is the
record read by the first. `row` is the stored record. `CompleteStageCall` is
`complete_stage` from its check to its return, the completion check included; an error
leaves the row alone. `AdvanceToNextStage` is the rest of `advance_to_next_stage`: like
the code, it looks neither at the status nor at the current stage, and callers may call
it at any time. `CheckAbort` and `AbortExecution` are the two statements of
`abort_execution`.

**ExecutionRepository.** There are two repositories in the source. The SQLite adapter,
which the server runs with (`Adapter = TRUE`), has no column for `pending_stages` and
`stage_statuses`; both are empty when the row is read (`ToDomain`), the status of an
output is inferred from the completed and current stages, and `UPDATE` leaves the two
timestamps alone (`Update`). The repository of the service's tests (`FALSE`) gives back
the record it was given, and its `abort` returns without doing anything (`Abort`). Of
the first timestamp the model keeps whether it is set; of the second whether it was set
never, once or again (`Stamp`), since an abort also overwrites an earlier time.

**ExecutionServer.** `FindForUpdate` and `WriteUpdate` are the two statements of
`workflow_update_state`, `Synchronize` what happens in between; `CheckAbort`,
`WriteAbort`, `AnswerAbort` the three of `workflow_abort`; the routes are one statement
each. `Updates` are the parameters clients may send. `execution_context` is an opaque
value and left out.

**Orchestration.** An agent asks for a stage (`AskNextStage`), reads which stages are
completed (`GetState`: the prompt forbids it to keep that itself), works, and reports
(`Report`, `Reported`). The agents are external to the repository: they are modelled
from the prompt that it ships for them. No report carries a status, the last no more
than the others: the prompt asks for none.

**Telemetry.** Each call of an agent is one or more actions of `Orchestration`, then an
event: `owed[o]` holds the events that the call has still to broadcast, since the write
is committed before (`CallTool`). Starting an execution broadcasts two, of which only
the first names the execution; all others carry `*`. After a report an agent logs an
insight (`due`, `InsightsLog`); work may fail (`StageFails`), which is logged too.
`Spellings` are the ways in which the agents spell the types of insights (the prompt and
the server disagree), chosen anew for each insight. `Broadcast` is the bounded channel:
the oldest event is overwritten and the subscriber told that it lagged. `Hear` is one
turn of the stream: an event that passes the filter, or a `skip` in place of one that
does not. The subscriber is external; it does what ADR-0008 asks of one, and asks for
the metrics whenever it hears something, by the route (`Refresh`) or by the tool
(`RefreshByTool`, whose call is an event again). `ExecutionSummary`,
`AggregateExecution` and `AggregateStage` are the three analytics over the log as
`insights_aggregate` reads it.

**Planner.** One action per turn of a loop: `VisitRoot` is a turn of the for-loop of
`detect_cycle` over the stages in their order (`roots` are those it has not come to);
`VisitDependency` and `ReturnFromVisit` are the recursion of `visit` with its stack made
explicit, `PopQueue` a turn of Kahn's algorithm, `FormGroup` a turn of the outer loop of
the grouping (its inner loop is the function `AssignedWith`). `Init` chooses the graph.
`Completed` is the grouping of `workflow_get_dag`, `Depth` that of the workflow service.

**Validation.** A document is a record of what the validators tell apart in a text, and
a validator a function from it to the codes of the errors and warnings it reports.
`ValidateResource` runs syntax, schema, references and the rules of the kind in the
order of the code, the first alone if the text does not parse.

**Documents.** A text is submitted, validated (`Validate`, as `put_content` does) and
stored or refused; a stored one is parsed as `generate_execution_plan` does
(`PlanStored`), a submitted one perhaps as a file (`PlanFile`, whose order of stages is
that of a hash map: any). Both give `Planner` its graph, which goes its way from there.
`ParsedId` is what names a stage in the parser, `StageId` in the validator.
`WorkflowGet` and `CalculateParallelGroups` are the DAG of a stored workflow.

**Artifacts.** `Store` writes the file, `InsertRow` the row; `SelectRow` and
`ReadContent` are the two steps of a get or a download; `GetStorageInfo`, `DeleteRow`
and `RemoveFile` those of a delete. A step may fail, as the code lets it: `StoreFails`
leaves part of a file, `InsertFails` a file without a row, `RemoveFails` a file whose
row is gone (the handler drops the error and answers 204), and `CleanupForExecution` may
stop after any part of the directory. `Crash` cuts calls off between their steps.
`origin`, `lost`, `leaked` and `cleaned` are auxiliary: no action reads them, except
that with `Reuse = FALSE` clients take a new name for each artifact. `ImplementsStore`
says that then the steps add up to those of `ArtifactStore`: an artifact is accepted
once, published with its content or dropped, and gone when it is deleted or, if large,
when its execution is cleaned up. Its state is read off the rows, the files and the
calls (`Given`, `Pending`, `Readable`).

**Catalogue.** `pc` is where `start_server` is: `CreateDatabase`, `CreateDefaults` and
`WriteDefault` (a file is truncated, then written), `Open`, one `Register` per file in
the order of the directories, `Listen`. A registration adds the row, finds it there, or
fails: then the start-up prints a warning, goes on (`warned`), and opens without the
row. `Crash` ends the process at any step; rows and files stay, calls and the setting of
the connection go. A route is one or more actions, one for each statement or system
call: `ReadToUpdate` and `Update`, `ReadToDelete` and `Delete`, `ReadToPut`,
`TruncateFile`, `WriteFile` and `PutContent`, `ReadToExecute` and `InsertExecution`;
`Create` is a single upsert. `foreignKeys` is the setting of the one connection: on when
it opens, off from the first `CreateArtifact`. `unchecked`, `interrupted`, `saved` and
the field `alone` of a call are auxiliary: no guard reads them. The texts are records
that `Validation` understands; the config that a row holds is such a text, or none.

## 3. The runs

Runs that hold:

| run (module) | asks | distinct states |
|---|---|---|
| `ServiceSafety` (`MCExecutionService`) | do dependencies hold, is every stage pending until it is handed out, and is a recorded stage lost only to a caller that read the record earlier, when two callers complete, advance and abort in the repository of the tests, their reads and writes interleaved and stages failing? | 655,564 |
| `LoopSafety` (`MCTelemetry`) | with one agent, failing stages and operators at the Studio: is progress closed under dependencies and kept, work handed out only when ready, the time of the end changed by aborts only? how far do the summary and the row agree, however completions are spelt? do the analytics add up, and does a subscriber get to know the progress? | 1,610,879 |
| `LoopPair` (`MCOrchestration`) | do two agents that overwrite each other get every stage recorded? | 64,126 |
| `PlannerAll` (`MCDocuments`) | does planning find exactly the cycles and respect dependencies? how do the three groupings relate? do the warnings of the validator foretell what the planner refuses and the DAG leaves out, and is the verdict on a file its text's alone? | 187,873 |
| `ArtifactCalls` (`MCArtifacts`) | do rows keep files, files owners, readers their content, under failures and crashes? do the calls implement `ArtifactStore`? | 442,392 |
| `CatalogueCalls` (`MCCatalogue`) | with crashes, restarts, failing registrations and two clients, do users' rows and files survive a start, is the catalogue complete but for what was warned about, is what was saved what is read, do executions keep their workflow as long as foreign keys are checked? | 578,071 |

Runs that find a disagreement of the code with what the repository says of it:

| run (module) | violated | the code | what is said |
|---|---|---|---|
| `ServerAbortLost` (`MCExecutionServer`) | `AbortIsFinal` | `synchronize_execution_state` writes the status it has read even if the caller gave none: an update that read the row before an abort sets the execution running again | GAPS.md: the status in the database is aborted |
| `LoopNeverEnds` (`MCOrchestration`) | `ReachesCompleted` | no update derives the status, and the prompt sends none: an agent that follows it does the last stage again and again | ADR-0008: the state is completed after the last stage |
| `GroupsDependent` (`MCDocuments`) | `GroupsIndependent` | a stage joins a group when its dependencies are assigned, those assigned a moment ago to the same group included, and is compared with the group's first stage only | `executor.rs`: steps that can run in parallel, which do not depend on each other |
| `ArtifactOverwritten` (`MCArtifacts`) | `ReadsOwnContent` | the path of a file is made of execution, stage and name: a stage that is retried overwrites the file of its first attempt | GAPS.md: the actual content is returned |
| `ForeignKeysOff` (`MCCatalogue`) | `ExecutedKept` | `artifact_create` turns foreign keys off on the connection that all handlers share, and nothing turns them on again | its comment: for this insert |
| `SaveUnreadable` (`MCCatalogue`) | `SavedIsReadable` | `put_content` stores the text in the column that the tools parse as JSON: after a save of an agent `agent_get` fails | its comment: MCP reads reflect the saved version |

**Also seen in the models,** without a run of its own:

- The adapter returns every execution with nothing pending, so `is_complete` holds as
  soon as no stage is current, and `complete_stage` would end an execution with its
  first stage (`ServiceSafety` with `Adapter = TRUE`). An advance while a stage runs
  forgets that stage, in either repository, and the execution can end without it.
  ADR-0007 says that it ends when all stages are done. Both are latent: no handler calls
  these methods.
- The resume route sets any execution running, also a completed one; ADR-0007 lists no
  transition out of completed.
- A second abort by the route, also of an execution that is aborted already, writes the
  time of its end anew. `AbortTimeKept` says that nothing but an abort touches it.
- An update replaces the completed stages by the caller's list, so of two agents the
  later report removes the stage of the earlier; ADR-0007 asks that concurrent updates
  be handled. They can undo each other's last records for ever, so `LoopPair` can say
  that all stages are recorded at some time (`<>`), not that they stay so.
- The update statement has no timestamp columns, so the `completed_at` that
  `synchronize_execution_state` sets never reaches the database.
- `stage:completed`, as the prompt spells it, is no type that the server knows, and
  counts as the output of an agent: a summary of insights spelt so has no completed
  stage. `SummaryAgrees` excuses just these (`Misread`).
- A stage that failed and was completed later counts twice in the number of stages of a
  summary.
- No event but the start names its execution, so a filtered subscriber hears only
  `skip`; it stays current because it takes each as a reason to ask again. The Studio's
  hook listens for unnamed events and the server names all of them.
- A workflow passes the validator with a cycle, or with stages that the parser names
  otherwise (by key, not by name); the parser of stored workflows leaves the agents
  empty, so `generate_execution_plan` refuses every stored workflow.
- A start-up killed among the defaults leaves a workspace that counts as initialized;
  the missing defaults are never written. Deleted resources return at the next start, as
  their files do not go. `prompt_list` is always empty.
- The error of `remove_file` is dropped: a delete answers 204 and leaves a file nobody
  owns. `FilesOwned` lists this among the ways to leak a file (`leaked`).
- `put_content` writes the file and the row one after the other, with nothing held: of
  two saves that overlap the file may end with the text of the one, the row with that of
  the other. `SavesSurvive` is about a save alone at its resource.
- An update of a resource whose config has no `spec` is accepted and dropped; of a
  workflow it adds a `spec` with nothing in it, and the parser then sees no stages.
- An agent's modes are `browse`, `edit`, `ask` and `plan` to one check and `primary`,
  `subagent` and `all` to the next: none passes both without a diagnostic.

**Bounds, and why they are enough.** The service and, in `LoopPair`, the agents run on a
diamond of four stages: the smallest graph with a fan-out, a join and two stages that
may run in either order. `ServiceSafety` adds a stage name the workflow does not have
and a condition on an outcome. Two callers, clients or agents are enough for a stale
write, which takes one to read and another to write in between; each method has at most
one such window. `ServiceSafety` takes the repository of the tests: over the adapter an
execution ends with its first stage, after a handful of states, and the theorems below
cover both. `ServerAbortLost` needs one update that carries no status. `LoopSafety` has
a join of three stages, so that work is ready in any order and blocked; a channel of two
events (the code's holds about a thousand), which a call and an execution overflow; and
three insights, so that a failure can come between two completions, each completion
spelt in either way. `PlannerAll` takes all 4096 loop-free graphs over four stages, and
256 with self-loops and a name that no stage has; four stages allow for every shape of a
cycle next to a path, and for a group of three that follows another. Its texts are 512
lists with and without ids used twice, 75 manifests whose stages are named by any of
their fields, and the files with and without agents. `CatalogueCalls` has a default of
each kind that differs in the code (workflow, agent, skill, prompt) and an agent without
a file, a start from nothing and one over a user's file; one crash and two calls are
what a lost update or a torn save takes. Two artifacts, two names and two executions
show sharing and not sharing; of the three contents one is small, so that it has no
file, and two are large, so that they can be mistaken for each other. `MaxInsights`,
`MaxCalls` and `MaxCrashes` stand in the guards; nothing else counts without bound, so
no state constraint is used.

`ServiceSafety` reduces by the symmetry of the callers, `ArtifactCalls` by that of
clients, artifacts, executions, names and large contents; they check no liveness. The
runs of `MCOrchestration`, `MCDocuments` and `MCCatalogue` do not check for deadlock: an
execution nobody works on, a plan, and a server with no call left are ends. In the other
runs there is always a step left.

**Fairness.** `FairLoopSpec`, of `LoopPair` and `LoopNeverEnds`, assumes that a client
creates the execution and that an agent which can take a step of its loop takes one. The
first is what starts anything at all; the second is the runtime's promise that a ready
task runs, and the prompt's that an agent repeats its loop until the execution ends.
Operators and aborts are absent there: nothing could be promised of an execution that is
paused as long as they like. No other specification needs fairness: the planner, the
start-up and the calls consist of loops over finite collections and straight lines.

## 4. The proofs

TLC looks at one workflow and two callers. `ExecutionServiceProofs` proves for every
workflow, every set of callers and every set of outcomes:

| theorem | property | assumptions besides those of the modules |
|---|---|---|
| `TypeCorrect` | `TypeOK` | - |
| `DependenciesRespected` | `DependenciesHold` | none: either repository, any calls in any order |
| `NoStageLost` | `StagesAccountedFor` | `~Adapter`: the adapter stores no list of pending stages |
| `StagesKept` | `CompletedStagesKept` | none: either repository, any callers |
| `ServiceImplementsLifecycle` | `LifecycleSpec` | one caller, either repository |

The argument is the same for the first three. No caller can be kept from overwriting the
row with a record computed from an old one, so an invariant must not compare two
records. But each record that is ever written is computed from *one* record that was
read, so a property of single records is inductive if each operator keeps it: `Records`
is the row with all the copies that callers hold, and each invariant says something of
every member. The lemmas about `Start`, `CompleteStage`, `MoveTo`, `CheckCompletion` and
the repository's operators are stated once and used in the step of each action (those
that the server's proofs need as well are in `ExecutionRepositoryProofs`).

`StagesKept` compares the row with the record that the writing caller holds: whatever
interleaves, a write only adds to what its caller has read. `ServiceImplementsLifecycle`
compares the row before and after, and holds for one caller only: an abort that another
caller slips between a read and a write is undone by the write, as `ServerAbortLost`
shows of the server. No run checks it, for the prover covers both repositories at once.
With one caller the copy it holds is the row as the repository gives it back, or that
row before its abort was written (`HeldIsStored`); so a write adds to what is stored.
Besides, for the refinement (`status` and `done` of `Lifecycle` are those of the row)
one thing more is needed: that no write leaves an end. `LifeInv` says that an execution
which the service would find complete is marked completed already, and that it still
runs when its one caller comes to abort it. So a completion is accepted only while the
execution runs, an advance, at whatever moment, leaves the status alone, and a check
that sets the status finds it running. What `LifecycleSpec` leaves open is the meaning
of completed: `ForwardSpec` allows `Ends` with any stages done, where ADR-0007 asks for
all of them. That part is false of the code (section 3).

`TelemetryProofs` proves, of `ExecutionServer` the first two and of `Telemetry` the
others, for every workflow:

| theorem | property | for |
|---|---|---|
| `ServerTypeCorrect` | `TypeOK` | any clients, parameters and buttons |
| `AbortTimeStays` | `AbortTimeKept` | the same; only an abort changes whether and how often the end was stamped |
| `ProgressSound` | `ProgressRespectsDeps` | one orchestrator, with operators, aborts and failing stages |
| `WorkStaysReady` | `WorkIsReady` | the same |
| `ProgressStaysRecorded` | `ProgressKept` | the same |
| `SummaryStaysTrue` | `SummaryAgrees` | the same, however it spells the types of insights |
| `ViewStaysCurrent` | `ViewIsCurrent` | any orchestrators, any capacity of the channel, any filter |
| `AnalyticsStayTrue` | `AnalyticsAddUp` | any orchestrators, any spelling and any log, if the workflow has finitely many stages |

The row is well-formed since a handler that is to write holds a record it has read
(`HandlerInv`); nothing of the two records is compared. With one orchestrator there is
more to say of what is read and used later: `ProgressInv` says that what it knows
completed is what the row says until its own report is written, that the record its
update read names a current stage with its dependencies completed, and the same of the
stage it works on. Operators and aborts change the status of the row and neither field,
which is what lets an update that was computed before them go through. With two
orchestrators the first part fails, and the run `LoopPair` says what remains.
`SummaryAgrees` rests on `LogInv`: the completed stages of the row are exactly those of
the log, in whatever spelling, and of the one insight that is due; it needs that no
update begins while one is due. What the summary misses is then due or misspelt.
`ViewInv` gives the subscriber its news: as long as it does not know the progress, it
has to ask, or an event is in the channel, or a call has still to broadcast one. A full
channel loses an event only by putting another one in its place, and an event that does
not pass the filter becomes a skip, which makes the subscriber ask all the same. TLC
checked these invariants on the instance of `LoopSafety` first. `AnalyticsAddUp` is a
fact about every log whose insights name stages of the workflow (`LogAddsUp`), and
`NamedInv` says that they do: a stage that is logged was worked on, so it was suggested,
so it was executable or the current one of the row, and what is written as current was
suggested before. The fact itself takes three loops apart: the insights of a stage are
counted in the log one position after the other (`OfStageCounts`), and so are the tokens
(`TokensCounted`); and sets that share no element count together what their union does
(`SumOfParts`).

`PlannerProofs` proves for every finite workflow and every graph:

| theorem | property | says of the code |
|---|---|---|
| `PlannerTypes` | `TypeOK` | no in-degree, a `usize`, ever falls below zero |
| `CycleFound` | `CycleFoundExactly` | the search refuses a graph exactly if it has a cycle |
| `OrderSound` | `OrderRespectsDeps` | no stage comes before one it depends on |
| `SortDone` | `SortSucceeds` | the error of the sort is never returned after the search |
| `GroupsSound` | `GroupsFollowDeps` | each stage is in one group, its dependencies in none that follows, those of the stage that opened it in earlier ones |
| `LevelsEqual` | `LevelsAgree` | the DAG tool and the workflow service give a stage the same level, the planner no earlier group; of a cyclic graph the DAG leaves a stage out |

`OrderRespectsDeps` alone is not inductive. `OrderInv` says besides that order and queue
together hold no stage twice, that a stage is in one of the two exactly if all it
depends on is in the order, and that the in-degree of a stage counts the dependencies
missing from the order; that is what makes a decrement to zero the moment at which a
stage gets ready. `SearchInv` is about the search: the stack is a path of dependencies,
the stages on it are those that are entered and not finished, and no finished stage
leads to one that is not. A dependency found on the stack closes a cycle; and if the
search ends, a cycle would be a set of finished stages, of which the one finished first
led to one unfinished. The sort is then complete by counting: without a cycle the stages
missing from the order have a member that waits for none of them. `GroupInv` follows the
loop over the groups with the stages it has assigned, and the two other groupings are
recursive functions, unfolded once by `RoundsStay` and its kind: a claim about all
rounds fails, if it fails, at a least one (`LeastNat` of `RecursionLemmas`, which also
shows that such a function exists), and in each round that leaves stages a stage is
added, so as many rounds as stages are enough (`GrownUp`).

`DocumentsProofs` proves for every set of well-formed texts:

| theorem | property | says of the code |
|---|---|---|
| `PlansOfTexts` | all those of `Planner` | a parsed text is planned as any graph is |
| `VerdictSound` | `VerdictOfText` | what becomes of a file does not depend on the order of its hash map |
| `WarningsSound` | `WarningsPredict` | a stored text has a warning about its stages exactly if the planner refuses it before its search (for workflows that have a stage) |
| `DagSound` | `DagShowsAll` | the DAG shows every stage exactly if there was neither warning nor cycle |

`Documents` composes the parsers with `Planner` by renaming nothing: a step of the one
leaves the other's variables alone or sets the graph, so the invariants of the planner
carry over once it is shown that what the parsers hand over is a graph that `Planner`
may start with (`WellFormed` is what makes it one). `DocInv` then ties each phase to the
text it came from. A workflow without stages has no agent to miss, which is why
`WarningsSound` asks for one.

`ArtifactsProofs` proves for all clients, artifacts, names and contents (the first two
theorems whether names are used again or not):

| theorem | property |
|---|---|
| `ArtifactsTypeCorrect` | `TypeOK` |
| `NoFileLeaks` | `FilesOwned` |
| `RowsStayBacked` | `RowsBacked`, if no stage uses a name twice |
| `ReadersGetOwnContent` | `ReadsOwnContent`, if no stage uses a name twice |
| `ArtifactsImplementStore` | `ImplementsStore`, if no stage uses a name twice |

A file has an owner: a row, a call between two of its steps, or a failure (of a write,
an insert or a removal, or the end of the process). Each step that ends one ownership
starts another of the same file. For that, a call must know the row that it removes: the
invariant `CallsInv` says that the row a `delete` has read is the row that is there, if
there is one, and that no row exists yet for the artifact that a call is about to
insert. The last three theorems rest on `BackedInv`: different artifacts have different
paths, and every row, and every row about to be inserted, leads to the content its
artifact came with, or the execution was cleaned up. Then the file that a call removes
is that of a row already gone and of no other. If a name is used again the first part
fails, and `ArtifactOverwritten` shows what follows. For the refinement `ContentInv`
adds that a file is always what an artifact of its path came with, so a row inserted
after a cleanup finds nothing rather than something else, and that a row says "on disk"
exactly for the large, so a cleanup takes these and no other. An insert is then a
`Publish` or a `Drop`, a crash a `Drop` of all that is pending, and the removal of a
file, whose row is gone, changes nothing that is read.

`CatalogueProofs` proves for any resources, shipped and saved texts, users' files and
clients, and any number of calls and crashes:

| theorem | property | says of the code |
|---|---|---|
| `CatalogueTypeCorrect` | `TypeOK` | rows and files keep their types |
| `WorkflowsKept` | `KeptWhileChecked` | until an artifact is created, workflows with executions keep their rows |
| `SavedTextsSurvive` | `SavesSurvive` | a save alone at its resource is in the row and in the file until the next call |
| `StartsKeepEdits` | `StartKeepsEdits` | a start changes no row and no whole file |
| `OpeningsComplete` | `OpensComplete` | an opening server lists every file that names itself, or has printed a warning for it |

The inductive invariant `CatalogueInv` has four parts besides `TypeOK` and
`KeptWhileChecked`. `StartInv`: the start-up runs alone, and the connection it opens
checks foreign keys until an artifact is created. `AloneInv`: a call marked `alone` is
the only one at work on its ARN, for a call that begins there takes the mark away.
`PutInv`: the text of a save is in the file before it is in the row, if the save is
alone. `SavedInv`: what was saved is in both and no call is about to change it, which is
what makes the properties about the row alone inductive. That a start leaves saves alone
follows from `RegisterKeeps`: it adds rows where there are none. TLC checked
`CatalogueInv` on the instance of `CatalogueCalls` first.

`OpeningsComplete` needs a second invariant, `OpenInv`, about the order of a start-up.
`RegisteredInv`: while the directories are registered, each file there is either waits,
or has its row, which no start-up takes away, or was warned about. `DefaultsInv`:
whoever passes for initialized (the first default and the database are there) has all
the defaults, unless a start-up was killed among them; no call removes a file, so this
lasts. `FirstRowsInv`: until the first opening only the start-up has written rows, so
none is a template's. About the shipped texts it assumes (`ShippedAssumption`, true of
`templates/`) that none is a template and that each YAML text has a name and carries its
own ARN on a line of its own. TLC checked `OpenInv` there too.

**Only model-checked:** the liveness of `LoopPair` (`AllRecorded`), which the proof
system has no means for here. Theorems about recursive functions are proved by a least
counterexample, as the theorems of the library that do induction cannot be instantiated.

## 5. What is not modelled

The alerts and the workspaces are tables changed by single statements, or by reading one
field and writing it back, and no other part reads them. Edges and the impact analysis:
nothing writes an edge yet. The emitter and the aggregator of the metrics crate and the
scanner of the registry have no callers. The JSON schemas of the tools, the token check,
static files and the Studio are data, conversions and rendering without shared state.
Template resolution and the texts of errors and suggestions are left out of the
navigator; retry configuration is parsed and stored, and nothing consults it.

In what is modelled: checksums of artifacts are never computed by a caller. The write of
a file and the removal of a directory are single steps in `Artifacts`, which may fail
partway, so a reader of a file that is still being written is not seen there (in
`Catalogue` it is); with names of their own, artifacts are read only after the row, and
so the whole file, was written. A download of an inline artifact sends the JSON text in
which its bytes are stored; `Answer` models it and `ReadsOwnContent` leaves it out. In
`Catalogue` the directories are created with the files in them, an update carries one
value, and a call that is refused, and changes nothing, has no action. In `Validation`
messages, positions and infos are left out. In `Telemetry` durations are, and events end
with a subscriber that keeps reading: nothing is said of one that stops.

## 6. Order of work

Done, in this order: `ExecutionState`, `ExecutionRepository`, `ExecutionService` with
`Lifecycle` (the core, and the abstract specification it implements); `ExecutionServer`,
`Orchestration` (the same record as the server uses it); the proofs about the core;
`Planner`, `Artifacts` and the first proofs about each; `Validation` and `Documents`
around the planner; `Catalogue`; `Telemetry` around the agents; the proofs about
`Catalogue`, and those about `ExecutionServer` and `Telemetry`; the rest of
`PlannerProofs`, `DocumentsProofs`, one caller of `ExecutionService` and the refinement
of `Lifecycle`, and the analytics of `Telemetry`; complete openings of `Catalogue`;
`ArtifactStore` and its refinement; the steps that fail (artifacts, start-up), and the
runs that show where documents and code disagree.

What would come next: edges and the impact analysis, once something writes edges; alerts
and workspaces, once another part reads them.
