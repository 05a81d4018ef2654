-------------------------- MODULE ExecutionRepository --------------------------
(***************************************************************************)
(* The repository port of the execution service, and its two               *)
(* implementations.  Adapter = TRUE is the SQLite adapter the server runs  *)
(* with: a row keeps neither pending_stages nor stage_statuses, nor the    *)
(* status of an output, which is inferred when the row is read; and UPDATE *)
(* leaves the two timestamps alone.  Adapter = FALSE is the repository of  *)
(* the service's own tests: it returns what was stored, and its abort does *)
(* nothing.                                                                *)
(***************************************************************************)
EXTENDS ExecutionState

CONSTANT Adapter

ASSUME AdapterAssumption == Adapter \in BOOLEAN

InferStatus(row, s) ==
  IF s \in row.completed THEN "completed"
  ELSE IF row.current = s THEN "running" ELSE "pending"

\* The outputs of the stages in S, with the statuses inferred from the row.
OutputsOf(S, row) ==
  [s \in StageId |-> IF s \in S THEN InferStatus(row, s) ELSE None]

\* What a column keeps of the outputs: which stages have one.
FromDomain(st) ==
  [st EXCEPT !.pending = {}, !.statuses = NoEntries,
             !.outputs = [s \in StageId |-> IF @[s] = None THEN None ELSE "pending"]]

ToDomain(row) ==
  [row EXCEPT !.pending = {}, !.statuses = NoEntries,
              !.outputs = OutputsOf({s \in StageId : @[s] # None}, row)]

Save(st) == IF Adapter THEN FromDomain(st) ELSE st

FindByArn(row) == IF Adapter THEN ToDomain(row) ELSE row

\* Mutant of Update: the timestamps of the record are written too.
UpdateTimestamps(row, st) == Save(st)

Update(row, st) ==
  IF Adapter
  THEN [FromDomain(st) EXCEPT !.started = row.started, !.finished = row.finished]
  ELSE st

\* Mutant of Abort: a status ExecutionStatus::from_str does not know.
AbortMisspelt(row) == [row EXCEPT !.status = "cancelled", !.finished = Stamp(@)]

\* UPDATE ... SET status = 'aborted', completed_at = now
Abort(row) ==
  IF Adapter THEN [row EXCEPT !.status = "aborted", !.finished = Stamp(@)] ELSE row

\* Mutant of Resume: the execution starts over.
ResumeFromScratch(row) == [row EXCEPT !.status = "running", !.completed = {}]

\* UPDATE ... SET status = 'paused' / 'running', whatever it was
Pause(row) == [row EXCEPT !.status = "paused"]
Resume(row) == [row EXCEPT !.status = "running"]
===============================================================================
