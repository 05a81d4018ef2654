----------------------------- MODULE MCTelemetry -----------------------------
(* Three stages for TLC, a and b before c.  The workflows the server parses  *)
(* carry no conditions.  A completion is logged as the server spells it,    *)
(* or as the orchestrator's prompt does.                                     *)
EXTENDS Telemetry, TLC

CONSTANTS a, b, c

MCStages == {a, b, c}
MCDeps == a :> {} @@ b :> {} @@ c :> {a, b}
NoConditions == [s \in MCStages |-> {}]
MCPosition == a :> 0 @@ b :> 1 @@ c :> 2

ServersSpelling ==
  "completed" :> "stage_completed" @@ "failed" :> "stage_failed"
MCSpellings ==
  {ServersSpelling, [ServersSpelling EXCEPT !["completed"] = "stage:completed"]}
===============================================================================
