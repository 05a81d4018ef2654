------------------------------- MODULE Telemetry -------------------------------
(***************************************************************************)
(* What the server tells of an execution while orchestrators work on it:   *)
(* the log of insights and its analytics, and the metrics events, which a  *)
(* subscriber of /metrics/sse answers by asking for the metrics again.     *)
(*                                                                         *)
(* The orchestrators log a stage as completed or failed (the loop of       *)
(* docs/ORCHESTRATOR.md).  Each call of a tool ends by broadcasting an    *)
(* event; the routes of the Studio broadcast nothing.  Of the numbers in   *)
(* an insight only the tokens are kept.  Bound: MaxInsights insights.      *)
(***************************************************************************)
EXTENDS Orchestration, Sequences, FiniteSets, Functions

CONSTANTS
  Capacity,     (* how many events the channel keeps for a slow reader     *)
  Spellings,    (* the ways in which the orchestrators spell the types     *)
  MaxInsights

ASSUME TelemetryAssumption ==
  /\ Capacity \in Nat \ {0} /\ MaxInsights \in Nat /\ None \notin Nat
  /\ Spellings \subseteq [{"completed", "failed"} -> STRING]
  /\ \A x, y \in Spellings : x["failed"] \notin {y["completed"], "stage_completed"}
  /\ None \notin {"*", "execution", "skip"}
  /\ None \notin [stage : StageId, type : STRING, tokens : {1, None}]

VARIABLES
  insights,  (* the log, in its order                                      *)
  due,       (* the insight an orchestrator has still to log               *)
  owed,      (* the events a call still has to broadcast                   *)
  filter,    (* the execution the subscriber asked for, "*" for all        *)
  feed,      (* the events the channel keeps for it                        *)
  lagged,    (* whether others were lost since it read                     *)
  stale,     (* whether it has to ask for the metrics                      *)
  view       (* the metrics it was given last                              *)

loop == <<row, pc, read, params, work, known>>
reader == <<filter, feed, lagged, stale, view>>
telemetry == <<loop, insights, due, owed, reader>>

TelemetryInit ==
  /\ LoopInit
  /\ insights = <<>>
  /\ due = [o \in Clients |-> None] /\ owed = [o \in Clients |-> <<>>]
  /\ filter = None /\ feed = <<>> /\ lagged = FALSE /\ stale = FALSE /\ view = None

-------------------------------------------------------------------------------
\* Events.

\* The oldest event is overwritten when the channel is full.
Broadcast(event) ==
  IF filter = None THEN UNCHANGED <<feed, lagged>>
  ELSE /\ feed' = Append(IF Len(feed) < Capacity THEN feed ELSE Tail(feed), event)
       /\ lagged' = (lagged \/ Len(feed) = Capacity)

\* The handler of a tool call is done; events are still to come.
Owe(o, events) == owed' = [owed EXCEPT ![o] = events]

\* Only the start of an execution names it.
ToolCall == <<"*">>
Started == <<"execution", "*">>

CallTool(o) ==
  /\ owed[o] # <<>>
  /\ Broadcast(Head(owed[o]))
  /\ Owe(o, Tail(owed[o]))
  /\ UNCHANGED <<loop, insights, due, filter, stale, view>>

Subscribe(execution) ==
  /\ filter = None
  /\ filter' = execution /\ stale' = TRUE
  /\ UNCHANGED <<loop, insights, due, owed, feed, lagged, view>>

Disconnect ==
  /\ filter # None
  /\ filter' = None /\ feed' = <<>> /\ lagged' = FALSE /\ stale' = FALSE
  /\ UNCHANGED <<loop, insights, due, owed, view>>

\* Mutant of Message: what does not pass the filter is left out.
MessagePassing(event) == IF filter \in {"*", event} THEN event ELSE None

\* What an event becomes on the stream.
Message(event) == IF filter \in {"*", event} THEN event ELSE "skip"

\* A lag is told by a skip of its own, and then the events that are left come.
Hear ==
  /\ filter # None /\ feed # <<>>
  /\ IF lagged THEN UNCHANGED feed /\ stale' = TRUE
     ELSE feed' = Tail(feed) /\ stale' = (stale \/ Message(Head(feed)) # None)
  /\ lagged' = FALSE
  /\ UNCHANGED <<loop, insights, due, owed, filter, view>>

\* The REST route; durations and tokens are left out.
GetMetrics(execution) ==
  [completed |-> execution.completed, running |-> execution.current]

\* The tool tells the other stages of the workflow as well.
MetricsQuery(execution) ==
  [completed |-> execution.completed, running |-> execution.current,
   pending   |-> Stages \ (execution.completed \cup {execution.current})]

Refresh ==
  /\ stale /\ row # None
  /\ view' = GetMetrics(row) /\ stale' = FALSE
  /\ UNCHANGED <<loop, insights, due, owed, filter, feed, lagged>>

\* As a call of a tool, which ends in an event for the subscriber itself.
RefreshByTool ==
  /\ stale /\ row # None
  /\ view' = MetricsQuery(row) /\ stale' = FALSE
  /\ Broadcast("*")
  /\ UNCHANGED <<loop, insights, due, owed, filter>>

Subscriber ==
  \/ \E execution \in {"*", "execution"} : Subscribe(execution)
  \/ Disconnect \/ Hear \/ Refresh \/ RefreshByTool

-------------------------------------------------------------------------------
\* Insights.

InsightType ==
  {"workflow_started", "workflow_completed", "workflow_failed", "stage_started",
   "stage_completed", "stage_failed", "stage_skipped", "condition_evaluated",
   "agent_output", "agent_error", "metrics_token_usage", "metrics_duration",
   "metrics_quality_score"}

\* A type the server does not know is read as the output of an agent.
FromStr(type) == IF type \in InsightType THEN type ELSE "agent_output"

Insights(stage, what, tokens) ==
  {[stage |-> stage, type |-> spelling[what], tokens |-> tokens] : spelling \in Spellings}

InsightsLog(o) ==
  /\ due[o] # None /\ owed[o] = <<>> /\ Len(insights) < MaxInsights
  /\ insights' = Append(insights, due[o])
  /\ due' = [due EXCEPT ![o] = None]
  /\ Owe(o, ToolCall)
  /\ UNCHANGED <<loop, reader>>

\* The insights as insights_aggregate reads them.
Logged == [i \in DOMAIN insights |-> [insights[i] EXCEPT !.type = FromStr(@)]]

\* Tokens add up; without any there is no total.
Tokens(log) ==
  LET total[n \in 0 .. Len(log)] ==
        IF n = 0 THEN None
        ELSE IF log[n].tokens = None THEN total[n-1]
        ELSE IF total[n-1] = None THEN log[n].tokens
        ELSE total[n-1] + log[n].tokens
  IN total[Len(log)]

Types(log) ==
  [t \in {log[i].type : i \in DOMAIN log} |-> Cardinality({i \in DOMAIN log : log[i].type = t})]

\* The insights of a stage, in their order.
OfStage(log, stage) ==
  LET its[n \in 0 .. Len(log)] ==
        IF n = 0 THEN <<>>
        ELSE IF log[n].stage = stage THEN Append(its[n-1], log[n]) ELSE its[n-1]
  IN its[Len(log)]

\* Mutant of AggregateStage: the insights of every stage.
AggregateAnyStage(log, stage) ==
  [total |-> Len(log), tokens |-> Tokens(log), types |-> Types(log)]

AggregateStage(log, stage) ==
  LET its == OfStage(log, stage)
  IN [total |-> Len(its), tokens |-> Tokens(its), types |-> Types(its)]

AggregateExecution(log) ==
  [total  |-> Len(log), tokens |-> Tokens(log),
   types  |-> Types(log),
   stages |-> [s \in Stages |-> Cardinality({i \in DOMAIN log : log[i].stage = s})]]

StagesOf(log, type) == {log[i].stage : i \in {j \in DOMAIN log : log[j].type = type}}

\* Mutant of ExecutionSummary: a stage that failed is not completed any more.
ExecutionSummaryOnce(log) ==
  [completed |-> StagesOf(log, "stage_completed") \ StagesOf(log, "stage_failed"),
   failed |-> StagesOf(log, "stage_failed"),
   count |-> Cardinality(StagesOf(log, "stage_completed"))
             + Cardinality(StagesOf(log, "stage_failed"))]

ExecutionSummary(log) ==
  [completed |-> StagesOf(log, "stage_completed"), failed |-> StagesOf(log, "stage_failed"),
   count |-> Cardinality(StagesOf(log, "stage_completed"))
             + Cardinality(StagesOf(log, "stage_failed"))]

-------------------------------------------------------------------------------
\* The loop of an orchestrator: one call after the other.

Ready(o) == due[o] = None /\ owed[o] = <<>>

Due(o, wordings) == \E insight \in wordings : due' = [due EXCEPT ![o] = insight]

ExecuteTool ==
  /\ Execute
  /\ \E o \in Clients : Ready(o) /\ Owe(o, Started)
  /\ UNCHANGED <<insights, due, reader>>

AskTool(o) ==
  Ready(o) /\ AskNextStage(o) /\ Owe(o, ToolCall) /\ UNCHANGED <<insights, due, reader>>

GetStateTool(o) ==
  Ready(o) /\ GetState(o) /\ Owe(o, ToolCall) /\ UNCHANGED <<insights, due, reader>>

ReportTool(o) == Ready(o) /\ Report(o) /\ UNCHANGED <<insights, due, owed, reader>>

ReportedTool(o) ==
  /\ Reported(o)
  /\ Owe(o, ToolCall) /\ Due(o, Insights(work[o], "completed", 1))
  /\ UNCHANGED <<insights, reader>>

\* The work fails: nothing is reported, and the stage is asked for again.
StageFails(o) ==
  /\ Ready(o) /\ known[o] # None /\ pc[o] = "idle"
  /\ Due(o, Insights(work[o], "failed", None))
  /\ work' = [work EXCEPT ![o] = None] /\ known' = [known EXCEPT ![o] = None]
  /\ UNCHANGED <<server, insights, owed, reader>>

AbortTool(o) ==
  /\ Ready(o) /\ GiveUp(o)
  /\ IF pc[o] = "answer" THEN Owe(o, ToolCall) ELSE UNCHANGED owed
  /\ UNCHANGED <<insights, due, reader>>

Orchestrator(o) ==
  \/ AskTool(o) \/ GetStateTool(o) \/ ReportTool(o) \/ ReportedTool(o)
  \/ StageFails(o) \/ AbortTool(o) \/ InsightsLog(o) \/ CallTool(o)

TelemetryNext ==
  \/ ExecuteTool
  \/ \E o \in Clients : Orchestrator(o)
  \/ Operator /\ UNCHANGED <<insights, due, owed, reader>>
  \/ Subscriber

TelemetrySpec == TelemetryInit /\ [][TelemetryNext]_telemetry

-------------------------------------------------------------------------------
\* How the orchestrators spell that a stage was completed.
CompletedTypes == {spelling["completed"] : spelling \in Spellings}

\* The stages whose completion was logged in a spelling the server does not know.
Misread ==
  {insights[i].stage : i \in {j \in DOMAIN insights :
                                insights[j].type \in CompletedTypes \ {"stage_completed"}}}

\* The stages whose completion is still to be logged.
Ahead == {due[o].stage : o \in {x \in Clients : due[x] # None /\ due[x].type \in CompletedTypes}}

\* The summary of insights_aggregate, which is made from the log alone, names as
\* completed only stages that workflow_get_state does, whatever failed, was tried
\* again or aborted meanwhile; and it names all of them but those not yet logged
\* and those logged in a spelling that is read as the output of an agent.
SummaryAgrees ==
  row # None =>
    LET summary == ExecutionSummary(Logged) IN
    /\ summary.completed \subseteq row.completed
    /\ row.completed \subseteq summary.completed \cup Ahead \cup Misread

AddUp(log) ==
  LET whole == AggregateExecution(log)
      part == [s \in Stages |-> AggregateStage(log, s)]
      tokens == [s \in Stages |-> OrElse(part[s].tokens, 0)]
      Counts(t) == [s \in Stages |-> LET types == part[s].types
                                      IN IF t \in DOMAIN types THEN types[t] ELSE 0]
  IN /\ \A s \in Stages : part[s].total = whole.stages[s]
     /\ whole.tokens # None => whole.tokens = SumFunction(tokens)
     /\ \A t \in DOMAIN whole.types : whole.types[t] = SumFunction(Counts(t))

\* The two ways to aggregate the log agree: an execution has what its stages have
\* together (aggregate_execution and aggregate_stage).
AnalyticsAddUp == AddUp(Logged)

\* A subscriber that asks for the metrics at every message, a skip included,
\* knows the progress once it has read everything and no call is being answered,
\* whatever its filter and however far behind it fell.
ViewIsCurrent ==
  (/\ filter # None /\ feed = <<>> /\ ~stale
   /\ \A o \in Clients : owed[o] = <<>>)
  => row = None \/ view \in {GetMetrics(row), MetricsQuery(row)}
===============================================================================
