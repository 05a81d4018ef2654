--------------------------- MODULE MCOrchestration ---------------------------
(* A diamond of four stages for TLC: a before b and c, both before d.  The   *)
(* workflows the server parses carry no conditions.                          *)
EXTENDS Orchestration, TLC

CONSTANTS a, b, c, d

MCStages == {a, b, c, d}
MCDeps == a :> {} @@ b :> {a} @@ c :> {a} @@ d :> {b, c}
NoConditions == [s \in MCStages |-> {}]
MCPosition == a :> 0 @@ b :> 1 @@ c :> 2 @@ d :> 3
===============================================================================
