---------------------------- MODULE ExecutionServer ----------------------------
(***************************************************************************)
(* The handlers of mcp-server that work on one execution: the MCP tools    *)
(* workflow_execute, workflow_update_state, workflow_get_next_stage and    *)
(* workflow_abort, and the REST routes pause, resume and abort.  Handlers  *)
(* are tasks of a multi-threaded runtime; one SQL statement is atomic (the *)
(* connection is behind a mutex) and the tasks interleave between          *)
(* statements.  read[c] and params[c] are what the handler serving client  *)
(* c has read and was called with.                                         *)
(*                                                                         *)
(* A request with an unknown status or ARN is an error that changes        *)
(* nothing.  execution_context is an opaque payload and is left out.       *)
(***************************************************************************)
EXTENDS ExecutionRepository

CONSTANTS
  Clients,   (* the callers of the MCP tools                         *)
  Updates,   (* the parameters they pass to workflow_update_state    *)
  Buttons    (* the REST routes the Studio uses                      *)

UpdateParams == [status    : ExecutionStatus \cup {None},
                 current   : StageId \cup {None},
                 completed : (SUBSET StageId) \cup {None},
                 outputs   : (SUBSET StageId) \cup {None}]

ASSUME ServerAssumption ==
  /\ Adapter
  /\ None \notin State \cup UpdateParams
  /\ \A S \in SUBSET StageId : S # None
  /\ Updates \subseteq UpdateParams
  /\ Buttons \subseteq {"pause", "resume", "abort"}

VARIABLES
  row,      (* the row of the execution, None before workflow_execute    *)
  pc,       (* what the handler of each client does next                 *)
  read,     (* the record an update in progress has read                 *)
  params    (* the parameters of that update                             *)

server == <<row, pc, read, params>>

TypeOK ==
  /\ row \in State \cup {None}
  /\ pc \in [Clients -> {"idle", "update", "abort", "answer"}]
  /\ read \in [Clients -> State \cup {None}]
  /\ params \in [Clients -> UpdateParams \cup {None}]

Init ==
  /\ row = None
  /\ pc = [c \in Clients |-> "idle"]
  /\ read = [c \in Clients |-> None]
  /\ params = [c \in Clients |-> None]

\* workflow_execute: the execution is created running, at its first stage.
CreateExecution ==
  /\ row = None
  /\ \E first \in FindFirstExecutable(New) : row' = Save(Start(New, first))
  /\ UNCHANGED <<pc, read, params>>

OrElse(option, default) == IF option = None THEN default ELSE option

\* synchronize_execution_state between the read and the write.
Synchronize(st, u) ==
  LET new == [st EXCEPT !.status    = OrElse(u.status, @),
                        !.current   = OrElse(u.current, @),
                        !.completed = OrElse(u.completed, @),
                        !.started   = @ \/ u.status = "running",
                        !.finished  = IF @ = "never" /\ IsTerminal(u.status)
                                      THEN "once" ELSE @]
  IN [new EXCEPT !.outputs  = IF u.outputs = None THEN @ ELSE OutputsOf(u.outputs, new),
                 !.statuses = [s \in StageId |->
                                 IF new.current = s THEN "running"
                                 ELSE IF s \in new.completed THEN "completed" ELSE None]]

\* workflow_update_state: find_by_arn ...
FindForUpdate(c, u) ==
  /\ pc[c] = "idle" /\ row # None
  /\ pc' = [pc EXCEPT ![c] = "update"]
  /\ read' = [read EXCEPT ![c] = FindByArn(row)]
  /\ params' = [params EXCEPT ![c] = u]
  /\ UNCHANGED row

Return(c) ==
  /\ pc' = [pc EXCEPT ![c] = "idle"]
  /\ read' = [read EXCEPT ![c] = None]
  /\ params' = [params EXCEPT ![c] = None]

\* ... and update.
WriteUpdate(c) ==
  /\ pc[c] = "update"
  /\ row' = Update(row, Synchronize(read[c], params[c]))
  /\ Return(c)

\* workflow_abort: current_status, then the UPDATE, then the answer is read.
CheckAbort(c) ==
  /\ pc[c] = "idle" /\ row # None
  /\ row.status \notin {"completed", "aborted"}
  /\ pc' = [pc EXCEPT ![c] = "abort"]
  /\ UNCHANGED <<row, read, params>>

WriteAbort(c) ==
  /\ pc[c] = "abort"
  /\ row' = Abort(row)
  /\ pc' = [pc EXCEPT ![c] = "answer"]
  /\ UNCHANGED <<read, params>>

AnswerAbort(c) ==
  /\ pc[c] = "answer"
  /\ UNCHANGED row
  /\ Return(c)

\* The REST routes: one statement each, on whatever status the row has.
Press(button, new) ==
  button \in Buttons /\ row # None /\ row' = new /\ UNCHANGED <<pc, read, params>>

PauseExecution == Press("pause", Pause(row))

ResumeExecution == Press("resume", Resume(row))

AbortExecution == Press("abort", Abort(row))

Abortion(c) == CheckAbort(c) \/ WriteAbort(c) \/ AnswerAbort(c)

Operate == PauseExecution \/ ResumeExecution \/ AbortExecution

Next ==
  \/ CreateExecution
  \/ \E c \in Clients :
       \/ \E u \in Updates : FindForUpdate(c, u)
       \/ WriteUpdate(c)
       \/ Abortion(c)
  \/ Operate

Spec == Init /\ [][Next]_server

-------------------------------------------------------------------------------
\* What the reading tools answer.

\* Mutant of Suggestions: nothing when no stage is executable.
SuggestExecutable(st) == ListExecutable(st)

\* Mutant of Suggestions: whatever is pending.
SuggestPending(st) == Stages \ (st.completed \cup {st.current})

\* workflow_get_next_stage: the executable stages, else the current one.
Suggestions(st) ==
  IF ListExecutable(st) # {} THEN ListExecutable(st) ELSE {st.current} \ {None}

-------------------------------------------------------------------------------
\* Action properties.

\* The time an execution ended at is never lost to anything but another abort, not
\* even to an update that read the row before (UPDATE leaves completed_at alone,
\* while every abort, also of an aborted execution, sets it).
AbortTimeKept ==
  [][row # None /\ row.finished # "never" =>
       \/ row'.finished = row.finished
       \/ AbortExecution \/ \E c \in Clients : WriteAbort(c)]_server

\* An aborted execution stays aborted (GAP-008: "Then the execution status in
\* the database is aborted").
AbortIsFinal ==
  [][row # None /\ row.status = "aborted" => row'.status = "aborted"]_server
===============================================================================
