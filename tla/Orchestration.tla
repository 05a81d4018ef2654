----------------------------- MODULE Orchestration -----------------------------
(***************************************************************************)
(* The server under the orchestrators it is written for (the monitor loop  *)
(* of docs/orchestrator-prompt.md): ask workflow_get_next_stage, read      *)
(* workflow_get_state, have the stage done, and report it with             *)
(* workflow_update_state; "do NOT maintain parallel state".  Telemetry     *)
(* adds what may hold them up: aborts, and operators at the Studio.        *)
(*                                                                         *)
(* work[o] is the stage orchestrator o is busy with, and known[o] the      *)
(* completed stages workflow_get_state told it.                            *)
(***************************************************************************)
EXTENDS ExecutionServer

VARIABLES work, known

vars == <<row, pc, read, params, work, known>>

LoopInit ==
  /\ Init
  /\ work = [o \in Clients |-> None]
  /\ known = [o \in Clients |-> None]

Execute == CreateExecution /\ UNCHANGED <<work, known>>

\* The suggested stage, or one of the alternatives.
AskNextStage(o) ==
  /\ pc[o] = "idle" /\ work[o] = None
  /\ row # None /\ row.status = "running"
  /\ \E s \in Suggestions(FindByArn(row)) : work' = [work EXCEPT ![o] = s]
  /\ UNCHANGED <<server, known>>

GetState(o) ==
  /\ work[o] # None /\ known[o] = None
  /\ known' = [known EXCEPT ![o] = row.completed]
  /\ UNCHANGED <<server, work>>

\* workflow_update_state after the stage was done: the stage joins those the
\* orchestrator knows completed.  The stage may still be named as current.  The
\* prompt asks for no status, not with the last stage either.
Report(o) ==
  /\ known[o] # None
  /\ LET done == known[o] \cup {work[o]}
     IN \E current \in {work[o], None} :
          FindForUpdate(o, [status |-> None, current |-> current,
                            completed |-> done, outputs |-> done])
  /\ UNCHANGED <<work, known>>

Reported(o) ==
  /\ WriteUpdate(o)
  /\ work' = [work EXCEPT ![o] = None]
  /\ known' = [known EXCEPT ![o] = None]

Loop(o) == AskNextStage(o) \/ GetState(o) \/ Report(o) \/ Reported(o)

\* An idle orchestrator calls workflow_abort.
GiveUp(o) == work[o] = None /\ Abortion(o) /\ UNCHANGED <<work, known>>

Operator == Operate /\ UNCHANGED <<work, known>>

\* The loop by itself.
LoopNext == Execute \/ \E o \in Clients : Loop(o)

FairLoopSpec ==
  /\ LoopInit /\ [][LoopNext]_vars
  /\ WF_vars(Execute) /\ \A o \in Clients : WF_vars(Loop(o))

-------------------------------------------------------------------------------
\* Safety.

\* The completed stages of the row are closed under dependencies, although the
\* server stores whatever list it is sent.
ProgressRespectsDeps ==
  row # None => \A s \in Stages \cap row.completed : Deps[s] \subseteq row.completed

\* While a stage is being worked on, everything it depends on is recorded as
\* completed, whatever the operators did since it was suggested.
WorkIsReady ==
  \A o \in Clients : work[o] \in Stages => Deps[work[o]] \subseteq row.completed

\* Recorded progress is never lost (ADR-0007: "Must handle concurrent updates").
ProgressKept == [][row # None => row.completed \subseteq row'.completed]_vars

\* There comes a time when every stage is recorded as completed, although the
\* orchestrators overwrite each other's updates and undo what was recorded (the
\* current stage is suggested again when no other one is executable).
AllRecorded == <>(row # None /\ Stages \subseteq row.completed)

\* The execution ends
\* (ADR-0008: workflow_get_state "returns { status: completed }").
ReachesCompleted == <>(row # None /\ row.status = "completed")
===============================================================================
