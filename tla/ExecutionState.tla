---------------------------- MODULE ExecutionState ----------------------------
(***************************************************************************)
(* The execution record of crates/workflow: what an execution of one       *)
(* workflow remembers, the transitions of its state machine, and the       *)
(* navigator that reads the workflow's graph against it.  Everything here  *)
(* is a constant-level operator; the modules that EXTEND this one own the  *)
(* variables.                                                              *)
(*                                                                         *)
(* Abstracted: of started_at the flag started tells whether it is set, and *)
(* finished tells of completed_at whether it was never set, is as it was   *)
(* set first, or was set again; a stage output is its status, None where   *)
(* the map has no entry; completed_stages is a set, since push is guarded  *)
(* by contains; conditions read "<stage>.status", as In / NotIn a set.     *)
(***************************************************************************)
EXTENDS Naturals

CONSTANTS
  StageId,     (* every stage name a caller may pass                       *)
  Stages,      (* the stages of the workflow                               *)
  Deps,        (* depends_on: may name a stage the workflow lacks          *)
  Conditions,  (* the conditions of each stage                             *)
  Position,    (* the index of a stage in the workflow definition          *)
  None         (* Option::None                                             *)

ExecutionStatus ==
  {"pending", "running", "completed", "failed", "aborted", "paused"}

IsTerminal(status) == status \in {"completed", "failed", "aborted"}

StageStatus == {"pending", "running", "completed", "failed", "skipped"}

Condition == [when : StageId, operator : {"In", "NotIn"}, value : SUBSET StageStatus]

ASSUME WorkflowAssumption ==
  /\ Stages \subseteq StageId
  /\ Deps \in [Stages -> SUBSET StageId]
  /\ Conditions \in [Stages -> SUBSET Condition]
  /\ Position \in [Stages -> Nat]
  /\ \A s, t \in Stages : Position[s] = Position[t] => s = t

ASSUME NoneAssumption == None \notin StageId \cup StageStatus

State == [status    : ExecutionStatus,
          current   : StageId \cup {None},
          completed : SUBSET StageId,
          pending   : SUBSET Stages,
          outputs   : [StageId -> StageStatus \cup {None}],
          statuses  : [StageId -> StageStatus \cup {None}],
          started   : BOOLEAN,
          finished  : {"never", "once", "again"}]

NoEntries == [s \in StageId |-> None]

-------------------------------------------------------------------------------
\* The state machine.

New == [status |-> "pending", current |-> None, completed |-> {},
        pending |-> Stages, outputs |-> NoEntries, statuses |-> NoEntries,
        started |-> FALSE, finished |-> "never"]

Start(st, first) ==
  [st EXCEPT !.status = "running", !.current = first, !.pending = @ \ {first},
             !.statuses[first] = "running", !.started = TRUE]

CanComplete(st, s) ==
  /\ st.status = "running"
  /\ s \in st.completed \/ st.current = s

\* Mutant of CompleteStage: completed_stages is assigned, not extended.
CompleteStageForgets(st, s, output) ==
  [st EXCEPT !.outputs[s] = output, !.statuses[s] = output,
             !.current = IF @ = s THEN None ELSE @, !.completed = {s}]

CompleteStage(st, s, output) ==
  [st EXCEPT !.outputs[s] = output, !.statuses[s] = output,
             !.current = IF @ = s THEN None ELSE @,
             !.completed = @ \cup {s}]

IsComplete(st) == st.pending = {} /\ st.current = None

\* completed_at = now
Stamp(time) == IF time = "never" THEN "once" ELSE "again"

CheckCompletion(st) ==
  IF IsComplete(st) THEN [st EXCEPT !.status = "completed", !.finished = Stamp(@)]
                    ELSE st

-------------------------------------------------------------------------------
\* The navigator.  First(S) holds the one stage of S defined first, if any.

StatusBlocks(st, s) ==
  IF st.statuses[s] # None
  THEN st.statuses[s] \in {"completed", "running", "skipped"}
  ELSE s \in st.completed \/ st.current = s

Evaluate(c, st) ==
  /\ st.outputs[c.when] # None
  /\ (c.operator = "In") <=> (st.outputs[c.when] \in c.value)

\* Mutant of CanExecute: unmet dependencies do not block.
CanExecuteNoDeps(st, s) ==
  ~StatusBlocks(st, s) /\ \A c \in Conditions[s] : Evaluate(c, st)

CanExecute(st, s) ==
  /\ ~StatusBlocks(st, s)
  /\ Deps[s] \subseteq st.completed
  /\ \A c \in Conditions[s] : Evaluate(c, st)

ListExecutable(st) == {s \in Stages : CanExecute(st, s)}

First(S) == {s \in S : \A t \in S : Position[s] <= Position[t]}

FindNextStage(st) == First(ListExecutable(st))

FindFirstExecutable(st) ==
  IF st.completed # {} \/ st.current # None THEN {}
  ELSE First({s \in ListExecutable(st) : Deps[s] = {}})
===============================================================================
