-------------------------- MODULE MCExecutionService --------------------------
(* A workflow of four stages for TLC, declared in the order a, d, b, c: a    *)
(* fans out to b and c, d joins them and also waits for a condition on a's   *)
(* outcome.  x is a stage name the workflow does not have.                   *)
EXTENDS ExecutionService, TLC

CONSTANTS a, b, c, d, x

MCStages == {a, b, c, d}
MCStageId == {a, b, c, d, x}
MCDeps == a :> {} @@ b :> {a} @@ c :> {a} @@ d :> {b, c}
MCConditions ==
  a :> {} @@ b :> {} @@ c :> {} @@
  d :> {[when |-> a, operator |-> "NotIn", value |-> {"failed"}]}
MCPosition == a :> 0 @@ d :> 1 @@ b :> 2 @@ c :> 3

Symmetry == Permutations(Callers)
===============================================================================
