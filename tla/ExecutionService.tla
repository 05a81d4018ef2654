--------------------------- MODULE ExecutionService ---------------------------
(***************************************************************************)
(* ExecutionApplicationService: the life of one execution under callers    *)
(* that create it, complete its stages, advance it and abort it.  A method *)
(* reads the record in one critical section of the repository's mutex and  *)
(* writes it in a later one, so the methods of different callers           *)
(* interleave between the two: snap[c] is what caller c read.  A call that *)
(* returns an error changes nothing.                                       *)
(***************************************************************************)
EXTENDS ExecutionRepository

CONSTANTS
  Callers,       (* the tasks that call the service                        *)
  OutputStatus   (* the statuses a caller reports for a finished stage     *)

ASSUME CallerAssumption ==
  /\ None \notin State
  /\ OutputStatus \subseteq StageStatus

VARIABLES
  row,   (* the stored execution, None before it is created *)
  pc,    (* the method each caller is inside of             *)
  snap   (* the record that method has read                 *)

vars == <<row, pc, snap>>

TypeOK ==
  /\ row \in State \cup {None}
  /\ pc \in [Callers -> {"idle", "complete", "advance", "abort"}]
  /\ snap \in [Callers -> State \cup {None}]

Init ==
  /\ row = None
  /\ pc = [c \in Callers |-> "idle"]
  /\ snap = [c \in Callers |-> None]

CreateAndStartExecution ==
  /\ row = None
  /\ \E first \in FindFirstExecutable(New) : row' = Save(Start(New, first))
  /\ UNCHANGED <<pc, snap>>

\* find_by_arn at the head of complete_stage and advance_to_next_stage.
Load(c, method) ==
  /\ pc[c] = "idle" /\ row # None
  /\ pc' = [pc EXCEPT ![c] = method]
  /\ snap' = [snap EXCEPT ![c] = FindByArn(row)]
  /\ UNCHANGED row

Return(c) ==
  /\ pc' = [pc EXCEPT ![c] = "idle"]
  /\ snap' = [snap EXCEPT ![c] = None]

CompleteStageCall(c, s, output) ==
  /\ pc[c] = "complete"
  /\ row' = IF CanComplete(snap[c], s)
            THEN Update(row, CheckCompletion(CompleteStage(snap[c], s, output)))
            ELSE row
  /\ Return(c)

\* Mutant of MoveTo: the stage stays in pending_stages.
MoveToKeepsPending(st, next) ==
  [st EXCEPT !.current = next, !.statuses[next] = "running"]

MoveTo(st, next) ==
  [st EXCEPT !.current = next, !.pending = @ \ {next}, !.statuses[next] = "running"]

AdvanceToNextStage(c) ==
  /\ pc[c] = "advance"
  /\ IF FindNextStage(snap[c]) # {}
     THEN \E next \in FindNextStage(snap[c]) : row' = Update(row, MoveTo(snap[c], next))
     ELSE row' = Update(row, CheckCompletion(snap[c]))
  /\ Return(c)

\* abort_execution: read the status, then write 'aborted' whatever it is now.
CheckAbort(c) ==
  /\ pc[c] = "idle" /\ row # None
  /\ row.status \notin {"completed", "aborted"}
  /\ pc' = [pc EXCEPT ![c] = "abort"]
  /\ UNCHANGED <<row, snap>>

AbortExecution(c) ==
  /\ pc[c] = "abort"
  /\ row' = Abort(row)
  /\ Return(c)

Next ==
  \/ CreateAndStartExecution
  \/ \E c \in Callers :
       \/ Load(c, "complete")
       \/ \E s \in StageId, o \in OutputStatus : CompleteStageCall(c, s, o)
       \/ Load(c, "advance")
       \/ AdvanceToNextStage(c)
       \/ CheckAbort(c)
       \/ AbortExecution(c)

Spec == Init /\ [][Next]_vars

-------------------------------------------------------------------------------
\* Safety.

Records == ({row} \cup {snap[c] : c \in Callers}) \ {None}

\* A stage is completed, or is the current one, only if everything it depends
\* on is completed: in the stored record and in every copy a caller holds
\* (check_stage_executable's dependency test, against lost updates).
DependenciesHold ==
  \A st \in Records : \A s \in Stages :
    s \in st.completed \cup {st.current} => Deps[s] \subseteq st.completed

\* No stage is handed out twice as new, or dropped before it was handed out:
\* pending_stages holds just the stages of the workflow that no caller was given
\* yet.  A stage that was is completed or marked running, also one that another
\* advance stepped over (start, complete_stage, advance_to_next_stage; of the
\* repositories only that of the tests stores the list).
StagesAccountedFor ==
  \A st \in Records : \A s \in Stages :
    s \in st.pending <=> ~(s \in st.completed \/ st.statuses[s] = "running")

-------------------------------------------------------------------------------
\* Action properties.

\* A recorded stage is lost to callers that overtake each other, and to nothing else:
\* what a write takes away was recorded after its caller had read the record
\* (complete_stage and advance_to_next_stage write back what they have read).
CompletedStagesKept ==
  [][row # None =>
       \A s \in row.completed \ row'.completed :
         \E c \in Callers : /\ pc[c] \in {"complete", "advance"} /\ pc'[c] = "idle"
                           /\ s \notin snap[c].completed]_vars

-------------------------------------------------------------------------------
\* The lifecycle of ADR-0007.

ADR == INSTANCE Lifecycle WITH
         status <- IF row = None THEN "none" ELSE row.status,
         done   <- IF row = None THEN {} ELSE row.completed

\* What a single caller gets of it, whatever order it calls the methods in: the
\* execution starts once, gains stages only while it runs, ends once and then
\* never changes (the status tests of complete_stage and abort_execution, and
\* advance_to_next_stage, which has none).  That it ends completed only with all
\* its stages is not among it.
LifecycleSpec == ADR!ForwardSpec
===============================================================================
