--------------------------- MODULE MCExecutionServer --------------------------
(* Two stages for TLC, b after a, and one update, which reports a done and   *)
(* says nothing of the status.                                               *)
EXTENDS ExecutionServer, TLC

CONSTANTS a, b

MCStages == {a, b}
MCDeps == a :> {} @@ b :> {a}
NoConditions == [s \in MCStages |-> {}]
MCPosition == a :> 0 @@ b :> 1

NoChange == [status |-> None, current |-> None, completed |-> None, outputs |-> None]
Progress == [NoChange EXCEPT !.completed = {a}]
ProgressOnly == {Progress}
===============================================================================
