------------------------------ MODULE MCArtifacts ------------------------------
(* Two clients, and two artifacts of three contents, for TLC: all are model values, *)
(* and those of one set are alike, but that two of the contents are large.          *)
EXTENDS Artifacts, TLC

Symmetry ==
  Permutations(Clients) \cup Permutations(Ids) \cup Permutations(Executions)
    \cup Permutations(Name) \cup Permutations(Large)
===============================================================================
