------------------------------- MODULE Lifecycle -------------------------------
(***************************************************************************)
(* What docs/adr/0007-server-side-state-machine.md promises of the life of *)
(* an execution: its status moves forward only, stages are recorded as     *)
(* done while it runs, and it completes only when every stage is done.     *)
(* ForwardSpec is the part of it that leaves out the last of these.        *)
(***************************************************************************)
CONSTANT Stages

VARIABLES
  status,  (* "none" before workflow_execute *)
  done     (* the stages recorded as done    *)

Init == status = "none" /\ done = {}

Execute ==
  /\ status = "none" /\ status' = "running"
  /\ UNCHANGED done

StageCompletes ==
  /\ status = "running" /\ status' = "running"
  /\ \E s \in Stages : done' = done \cup {s}

Ends ==
  /\ status = "running" /\ status' = "completed"
  /\ done \subseteq done'

Completes == Ends /\ Stages \subseteq done'

Fails ==
  /\ status = "running" /\ status' = "failed"
  /\ UNCHANGED done

Aborts ==
  /\ status = "running" /\ status' = "aborted"
  /\ UNCHANGED done

Next == Execute \/ StageCompletes \/ Completes \/ Fails \/ Aborts

Spec == Init /\ [][Next]_<<status, done>>

ForwardSpec == Init /\ [][Next \/ Ends]_<<status, done>>
===============================================================================
