---------------------------- MODULE TelemetryProofs ----------------------------
(***************************************************************************)
(* Proofs about ExecutionServer, and about Telemetry for every workflow,   *)
(* any capacity of the channel and any length of the log, with operators,  *)
(* aborts and failing stages.                                              *)
(*                                                                         *)
(* What is told of the progress is proved for one orchestrator: what it    *)
(* knows completed is then what the row says until it reports, and the log *)
(* lags behind the row by the one insight it has still to send.  That a    *)
(* subscriber gets to know the progress is proved for any number: a write  *)
(* that changes it owes an event, an event that is owed gets into the      *)
(* channel, and whatever leaves the channel makes the subscriber ask.  So  *)
(* is it that the analytics of the stages are those of the execution, as   *)
(* each insight names a stage, and is counted once.                        *)
(***************************************************************************)
EXTENDS Telemetry, ExecutionRepositoryProofs, RecursionLemmas

-------------------------------------------------------------------------------
\* What the handlers write.

LEMMA SynchronizeType ==
  ASSUME NEW st \in State, NEW u \in UpdateParams
  PROVE  /\ Synchronize(st, u) \in State
         /\ Synchronize(st, u).current = OrElse(u.current, st.current)
         /\ Synchronize(st, u).completed = OrElse(u.completed, st.completed)
<1> DEFINE new == [st EXCEPT !.status    = OrElse(u.status, @),
                             !.current   = OrElse(u.current, @),
                             !.completed = OrElse(u.completed, @),
                             !.started   = @ \/ u.status = "running",
                             !.finished  = IF @ = "never" /\ IsTerminal(u.status)
                                           THEN "once" ELSE @]
           statuses == [s \in StageId |-> IF new.current = s THEN "running"
                                          ELSE IF s \in new.completed THEN "completed" ELSE None]
           outputs == IF u.outputs = None THEN new.outputs ELSE OutputsOf(u.outputs, new)
<1>1. /\ OrElse(u.status, st.status) \in ExecutionStatus
      /\ OrElse(u.current, st.current) \in StageId \cup {None}
      /\ OrElse(u.completed, st.completed) \in SUBSET StageId
  BY DEF OrElse, UpdateParams, State
<1>2. (IF st.finished = "never" /\ IsTerminal(u.status) THEN "once" ELSE st.finished)
        \in {"never", "once", "again"}
      /\ (st.started \/ u.status = "running") \in BOOLEAN
  BY DEF State, IsTerminal
<1>3. /\ new \in State /\ new.current = OrElse(u.current, st.current)
      /\ new.completed = OrElse(u.completed, st.completed)
  BY <1>1, <1>2 DEF State
<1> HIDE DEF new
<1>4. statuses \in [StageId -> StageStatus \cup {None}]
  BY DEF StageStatus
<1>5. outputs \in [StageId -> StageStatus \cup {None}]
  BY <1>3 DEF OutputsOf, InferStatus, StageStatus, State
<1>6. Synchronize(st, u) = [new EXCEPT !.outputs = outputs, !.statuses = statuses]
  BY Zenon DEF Synchronize, new
<1> HIDE DEF statuses, outputs
<1> QED
  BY <1>3, <1>4, <1>5, <1>6 DEF State

\* UPDATE leaves completed_at alone, and so do pause and resume.
LEMMA FinishedStays ==
  ASSUME NEW st \in State, NEW old \in State
  PROVE  /\ Update(old, st).finished = old.finished
         /\ Pause(old).finished = old.finished
         /\ Resume(old).finished = old.finished
<1>1. FromDomain(st) \in State
  BY RowTypes
<1> QED
  BY <1>1, ServerAssumption DEF Update, Pause, Resume, State

LEMMA StatementTypes ==
  ASSUME NEW st \in State
  PROVE  Abort(st) \in State /\ Pause(st) \in State /\ Resume(st) \in State
BY AbortType DEF Pause, Resume, State, ExecutionStatus

LEMMA CreateType ==
  ASSUME CreateExecution
  PROVE  row' \in State
<1>1. PICK first \in FindFirstExecutable(New) : row' = Save(Start(New, first))
  BY DEF CreateExecution
<1>2. first \in Stages
  BY <1>1, FirstExecutable
<1>3. Start(New, first) \in State
  BY <1>2, NewType, StartType
<1> QED
  BY <1>1, <1>3, SaveType

-------------------------------------------------------------------------------
\* An update in progress has read a record, and the row is never removed.
HandlerInv ==
  \A c \in Clients :
    /\ pc[c] # "idle" => row # None
    /\ pc[c] = "update" => read[c] # None /\ params[c] # None

ServerInv == TypeOK /\ HandlerInv

\* A step of one handler, which keeps the others'.
LEMMA HandlerStep ==
  ASSUME ServerInv, NEW c \in Clients, row # None, row' \in State,
         NEW step \in {"idle", "update", "abort", "answer"}, NEW st \in State \cup {None},
         NEW u \in UpdateParams \cup {None}, step = "update" => st # None /\ u # None,
         pc' = [pc EXCEPT ![c] = step], read' = [read EXCEPT ![c] = st],
         params' = [params EXCEPT ![c] = u]
  PROVE  ServerInv'
<1>1. /\ row' # None
      /\ pc \in [Clients -> {"idle", "update", "abort", "answer"}]
      /\ read \in [Clients -> State \cup {None}]
      /\ params \in [Clients -> UpdateParams \cup {None}]
  BY ServerAssumption DEF ServerInv, TypeOK
<1>2. TypeOK'
  BY <1>1 DEF TypeOK
<1>3. HandlerInv'
  BY <1>1 DEF ServerInv, HandlerInv
<1> QED
  BY <1>2, <1>3 DEF ServerInv

\* A statement of its own.
LEMMA StatementStep ==
  ASSUME ServerInv, row' \in State, UNCHANGED <<pc, read, params>>
  PROVE  ServerInv'
BY ServerAssumption DEF ServerInv, TypeOK, HandlerInv

LEMMA ServerTypes ==
  ASSUME ServerInv
  PROVE  /\ row \in State \cup {None} /\ None \notin State
         /\ pc \in [Clients -> {"idle", "update", "abort", "answer"}]
         /\ read \in [Clients -> State \cup {None}]
         /\ params \in [Clients -> UpdateParams \cup {None}]
BY ServerAssumption DEF ServerInv, TypeOK

LEMMA FindStep ==
  ASSUME ServerInv, NEW c \in Clients, NEW u \in UpdateParams, FindForUpdate(c, u)
  PROVE  ServerInv'
<1>1. /\ row \in State /\ row' = row /\ FindByArn(row) \in State /\ FindByArn(row) # None
      /\ u # None
  BY ServerTypes, FindByArnType, ServerAssumption DEF FindForUpdate
<1> QED
  BY <1>1, ServerTypes, HandlerStep DEF FindForUpdate

LEMMA WriteStep ==
  ASSUME ServerInv, NEW c \in Clients, WriteUpdate(c)
  PROVE  /\ row \in State /\ read[c] \in State /\ params[c] \in UpdateParams
         /\ row' = Update(row, Synchronize(read[c], params[c]))
         /\ row' \in State
         /\ ServerInv'
<1>1. /\ row \in State /\ read[c] \in State /\ params[c] \in UpdateParams
      /\ row' = Update(row, Synchronize(read[c], params[c]))
  BY ServerTypes DEF WriteUpdate, ServerInv, HandlerInv
<1>2. row' \in State
  BY <1>1, SynchronizeType, UpdateType
<1>3. ServerInv'
  BY <1>1, <1>2, ServerTypes, HandlerStep DEF WriteUpdate, Return
<1> QED
  BY <1>1, <1>2, <1>3

LEMMA AbortionStep ==
  ASSUME ServerInv, NEW c \in Clients, Abortion(c)
  PROVE  /\ row \in State /\ row' \in {row, Abort(row)}
         /\ \A d \in Clients \ {c} : pc'[d] = pc[d]
         /\ pc'[c] # "update"
         /\ ServerInv'
<1>1. CASE CheckAbort(c)
  <2>1. /\ row \in State /\ row' = row /\ pc[c] = "idle"
        /\ pc' = [pc EXCEPT ![c] = "abort"] /\ read' = read /\ params' = params
    BY <1>1, ServerTypes DEF CheckAbort
  <2> QED
    BY <2>1, ServerTypes, ServerAssumption DEF ServerInv, TypeOK, HandlerInv
<1>2. CASE WriteAbort(c)
  <2>1. /\ row \in State /\ row' = Abort(row) /\ pc[c] = "abort"
        /\ pc' = [pc EXCEPT ![c] = "answer"] /\ read' = read /\ params' = params
    BY <1>2, ServerTypes DEF WriteAbort, ServerInv, HandlerInv
  <2>2. row' \in State
    BY <2>1, StatementTypes
  <2> QED
    BY <2>1, <2>2, ServerTypes, ServerAssumption DEF ServerInv, TypeOK, HandlerInv
<1>3. CASE AnswerAbort(c)
  <2>1. row \in State /\ row' = row /\ pc' = [pc EXCEPT ![c] = "idle"]
    BY <1>3, ServerTypes DEF AnswerAbort, Return, ServerInv, HandlerInv
  <2>2. ServerInv'
    BY <1>3, <2>1, ServerTypes, HandlerStep DEF AnswerAbort, Return
  <2> QED
    BY <2>1, <2>2, ServerTypes
<1> QED
  BY <1>1, <1>2, <1>3 DEF Abortion

LEMMA OperateStep ==
  ASSUME ServerInv, Operate
  PROVE  /\ row \in State /\ row' \in {Pause(row), Resume(row), Abort(row)}
         /\ UNCHANGED <<pc, read, params>>
         /\ ServerInv'
<1>1. /\ row \in State /\ UNCHANGED <<pc, read, params>>
      /\ row' \in {Pause(row), Resume(row), Abort(row)}
  BY ServerTypes DEF Operate, PauseExecution, ResumeExecution, AbortExecution, Press
<1> QED
  BY <1>1, StatementTypes, StatementStep

LEMMA ServerStep ==
  ASSUME ServerInv, [Next]_server
  PROVE  ServerInv'
<1>1. CASE CreateExecution
  BY <1>1, CreateType, StatementStep DEF CreateExecution
<1>2. ASSUME NEW c \in Clients, NEW u \in Updates, FindForUpdate(c, u)
      PROVE  ServerInv'
  BY <1>2, FindStep, ServerAssumption
<1>3. ASSUME NEW c \in Clients, WriteUpdate(c)
      PROVE  ServerInv'
  BY <1>3, WriteStep
<1>4. ASSUME NEW c \in Clients, Abortion(c)
      PROVE  ServerInv'
  BY <1>4, AbortionStep
<1>5. CASE Operate
  BY <1>5, OperateStep
<1>6. CASE UNCHANGED server
  BY <1>6 DEF server, ServerInv, TypeOK, HandlerInv
<1> QED
  BY <1>1, <1>2, <1>3, <1>4, <1>5, <1>6 DEF Next

LEMMA ServerInvariant == Spec => []ServerInv
<1>1. Init => ServerInv
  BY DEF Init, ServerInv, TypeOK, HandlerInv
<1> QED
  BY <1>1, ServerStep, PTL DEF Spec

\* Whatever the tools and the routes do, the row is one that the server reads back:
\* its status is known, and its stages are names (execution_store.rs).
THEOREM ServerTypeCorrect == Spec => []TypeOK
<1>1. ServerInv => TypeOK
  BY DEF ServerInv
<1> QED
  BY <1>1, ServerInvariant, PTL

\* Only another abort sets the time at which an execution ended again: no update
\* clears it or writes its own (UPDATE in execution_repository_adapter.rs).
THEOREM AbortTimeStays == Spec => AbortTimeKept
<1> DEFINE Aborted == AbortExecution \/ \E c \in Clients : WriteAbort(c)
<1>1. ASSUME ServerInv, [Next]_server, row # None, row.finished # "never", ~Aborted
      PROVE  row'.finished = row.finished
  <2>1. row \in State
    BY <1>1, ServerTypes
  <2>2. ASSUME NEW c \in Clients, WriteUpdate(c)
        PROVE  row'.finished = row.finished
    BY <1>1, <2>1, <2>2, WriteStep, SynchronizeType, FinishedStays
  <2>3. ASSUME NEW c \in Clients, Abortion(c)
        PROVE  row' = row
    BY <1>1, <2>3 DEF Abortion, CheckAbort, AnswerAbort
  <2>4. CASE PauseExecution \/ ResumeExecution
    BY <2>1, <2>4, FinishedStays DEF PauseExecution, ResumeExecution, Press
  <2>5. CASE UNCHANGED row
    BY <2>5
  <2> QED
    BY <1>1, <2>2, <2>3, <2>4, <2>5
      DEF Next, Operate, CreateExecution, FindForUpdate, server
<1>2. ServerInv /\ [Next]_server =>
        [row # None /\ row.finished # "never" => row'.finished = row.finished \/ Aborted]_server
  BY <1>1
<1> QED
  BY <1>2, ServerInvariant, PTL DEF Spec, AbortTimeKept

-------------------------------------------------------------------------------
\* The steps of the loop.

Abandon(c) ==
  /\ known[c] # None /\ pc[c] = "idle"
  /\ work' = [work EXCEPT ![c] = None] /\ known' = [known EXCEPT ![c] = None]
  /\ UNCHANGED server

Act(c) == Loop(c) \/ GiveUp(c) \/ Abandon(c)

LEMMA Acts ==
  ASSUME TelemetryNext
  PROVE  Execute \/ (\E c \in Clients : Act(c)) \/ Operator \/ UNCHANGED loop
<1>1. ASSUME NEW c \in Clients, Orchestrator(c)
      PROVE  Act(c) \/ UNCHANGED loop
  BY <1>1 DEF Orchestrator, AskTool, GetStateTool, ReportTool, ReportedTool, StageFails,
     AbortTool, InsightsLog, CallTool, Act, Loop, Abandon
<1>2. CASE Subscriber
  BY <1>2 DEF Subscriber, Subscribe, Disconnect, Hear, Refresh, RefreshByTool
<1> QED
  BY <1>1, <1>2 DEF TelemetryNext, ExecuteTool

LoopInv ==
  /\ ServerInv
  /\ work \in [Clients -> StageId \cup {None}]
  /\ known \in [Clients -> (SUBSET StageId) \cup {None}]
  /\ \A c \in Clients : /\ work[c] # None => row # None
                        /\ known[c] # None => work[c] # None

LEMMA NoneApart == None \notin StageId /\ \A S \in SUBSET StageId : S # None
BY NoneAssumption, ServerAssumption

\* What an orchestrator reports.
LEMMA ReportParams ==
  ASSUME LoopInv, NEW c \in Clients, Report(c)
  PROVE  \E u \in UpdateParams :
           /\ FindForUpdate(c, u)
           /\ u.completed = known[c] \cup {work[c]} /\ u.current \in {work[c], None}
<1> DEFINE done == known[c] \cup {work[c]}
           U(current) == [status |-> None, current |-> current,
                          completed |-> done, outputs |-> done]
<1>1. PICK current \in {work[c], None} : FindForUpdate(c, U(current))
  BY DEF Report
<1>2. work[c] \in StageId /\ known[c] \in SUBSET StageId
  BY DEF LoopInv, Report
<1>3. U(current) \in UpdateParams
  BY <1>2 DEF UpdateParams, ExecutionStatus
<1>4. U(current).completed = done /\ U(current).current = current
  OBVIOUS
<1> QED
  BY <1>1, <1>3, <1>4

LEMMA SuggestionType ==
  ASSUME NEW st \in State
  PROVE  Suggestions(st) \subseteq StageId \ {None}
BY WorkflowAssumption, NoneAssumption DEF Suggestions, ListExecutable, State

\* What each act does to the row and to what the orchestrators know.
LEMMA ActStep ==
  ASSUME LoopInv, NEW c \in Clients, Act(c)
  PROVE  LoopInv'
<1>0. /\ ServerInv /\ row \in State \cup {None} /\ None \notin State
      /\ work \in [Clients -> StageId \cup {None}]
      /\ known \in [Clients -> (SUBSET StageId) \cup {None}]
      /\ \A d \in Clients : /\ work[d] # None => row # None
                            /\ known[d] # None => work[d] # None
  BY ServerTypes DEF LoopInv
<1>1. CASE AskNextStage(c)
  <2>1. /\ row # None /\ UNCHANGED <<row, pc, read, params, known>> /\ known[c] = None
        /\ \E s \in Suggestions(FindByArn(row)) : work' = [work EXCEPT ![c] = s]
    BY <1>0, <1>1 DEF AskNextStage, server
  <2>2. PICK s \in StageId \ {None} : work' = [work EXCEPT ![c] = s]
    BY <1>0, <2>1, FindByArnType, SuggestionType
  <2>3. ServerInv'
    BY <1>0, <2>1 DEF ServerInv, TypeOK, HandlerInv
  <2> QED
    BY <1>0, <2>1, <2>2, <2>3 DEF LoopInv
<1>2. CASE GetState(c)
  <2>1. /\ row \in State /\ UNCHANGED <<row, pc, read, params, work>> /\ work[c] # None
        /\ known' = [known EXCEPT ![c] = row.completed]
    BY <1>0, <1>2 DEF GetState, server
  <2>2. row.completed \in SUBSET StageId
    BY <2>1 DEF State
  <2>3. ServerInv'
    BY <1>0, <2>1 DEF ServerInv, TypeOK, HandlerInv
  <2> QED
    BY <1>0, <2>1, <2>2, <2>3 DEF LoopInv
<1>3. CASE Report(c)
  <2>1. ServerInv' /\ UNCHANGED <<row, work, known>>
    BY <1>0, <1>3, ReportParams, FindStep DEF Report, FindForUpdate
  <2> QED
    BY <1>0, <2>1 DEF LoopInv
<1>4. CASE Reported(c)
  <2>1. /\ ServerInv' /\ row' \in State
        /\ work' = [work EXCEPT ![c] = None] /\ known' = [known EXCEPT ![c] = None]
    BY <1>0, <1>4, WriteStep DEF Reported
  <2> QED
    BY <1>0, <2>1 DEF LoopInv
<1>5. CASE GiveUp(c)
  <2>1. ServerInv' /\ row' # None /\ UNCHANGED <<work, known>>
    <3>1. Abortion(c) /\ UNCHANGED <<work, known>>
      BY <1>5 DEF GiveUp
    <3>2. row \in State /\ row' \in {row, Abort(row)} /\ ServerInv'
      BY <1>0, <3>1, AbortionStep
    <3> QED
      BY <1>0, <3>1, <3>2, StatementTypes
  <2> QED
    BY <1>0, <2>1 DEF LoopInv
<1>6. CASE Abandon(c)
  <2>1. /\ UNCHANGED <<row, pc, read, params>>
        /\ work' = [work EXCEPT ![c] = None] /\ known' = [known EXCEPT ![c] = None]
    BY <1>6 DEF Abandon, server
  <2>2. ServerInv'
    BY <1>0, <2>1 DEF ServerInv, TypeOK, HandlerInv
  <2> QED
    BY <1>0, <2>1, <2>2 DEF LoopInv
<1> QED
  BY <1>1, <1>2, <1>3, <1>4, <1>5, <1>6 DEF Act, Loop

LEMMA LoopStep ==
  ASSUME LoopInv, [TelemetryNext]_telemetry
  PROVE  LoopInv'
<1>0. ServerInv /\ None \notin State
  BY ServerTypes DEF LoopInv
<1>1. CASE Execute
  <2>1. CreateExecution /\ UNCHANGED <<pc, read, params, work, known>> /\ row = None
    BY <1>1 DEF Execute, CreateExecution
  <2>2. ServerInv' /\ row' \in State
    BY <1>0, <2>1, CreateType, StatementStep
  <2> QED
    BY <1>0, <2>1, <2>2 DEF LoopInv
<1>2. CASE Operator
  <2>1. ServerInv' /\ row' \in State /\ UNCHANGED <<work, known>>
    BY <1>0, <1>2, OperateStep, StatementTypes DEF Operator
  <2> QED
    BY <1>0, <2>1 DEF LoopInv
<1>3. CASE UNCHANGED loop
  BY <1>3 DEF loop, LoopInv, ServerInv, TypeOK, HandlerInv
<1>4. CASE UNCHANGED telemetry
  BY <1>3, <1>4 DEF telemetry, loop
<1> QED
  BY <1>1, <1>2, <1>3, <1>4, Acts, ActStep
LEMMA LoopInitial == TelemetryInit => LoopInv
BY DEF TelemetryInit, LoopInit, Init, LoopInv, ServerInv, TypeOK, HandlerInv

-------------------------------------------------------------------------------
\* Progress under one orchestrator.

Met(s, done) == s \in Stages => Deps[s] \subseteq done

\* What the orchestrator knows completed is what the row says, until it has reported;
\* every stage that is named anywhere has its dependencies completed.
ProgressInv(o) ==
  /\ row # None => /\ \A s \in Stages \cap row.completed : Deps[s] \subseteq row.completed
                   /\ Met(row.current, row.completed)
  /\ work[o] # None => Met(work[o], row.completed)
  /\ known[o] # None => known[o] = row.completed
  /\ pc[o] = "update" => /\ known[o] # None
                         /\ params[o].completed = known[o] \cup {work[o]}
                         /\ params[o].current \in {work[o], None}
                         /\ Met(read[o].current, row.completed)

\* The statements about the status leave the progress alone.
LEMMA StatementFields ==
  ASSUME NEW st \in State, NEW new \in {st, Abort(st), Pause(st), Resume(st)}
  PROVE  new.completed = st.completed /\ new.current = st.current
BY DEF Abort, Pause, Resume, State

LEMMA SuggestionsMet ==
  ASSUME NEW st \in State, Met(st.current, st.completed)
  PROVE  \A s \in Suggestions(st) : Met(s, st.completed)
BY DEF Suggestions, ListExecutable, CanExecute, Met

LEMMA CreatedFields ==
  ASSUME CreateExecution
  PROVE  row'.completed = {} /\ Met(row'.current, {})
<1>1. PICK first \in FindFirstExecutable(New) : row' = Save(Start(New, first))
  BY DEF CreateExecution
<1>2. first \in Stages /\ Deps[first] = {}
  BY <1>1, FirstExecutable
<1>3. /\ New \in State /\ Start(New, first) \in State /\ New.completed = {}
  BY <1>2, NewType, StartType DEF New
<1>4. Start(New, first).completed = {} /\ Start(New, first).current = first
  BY <1>3 DEF Start, State
<1> QED
  BY <1>1, <1>2, <1>3, <1>4, SaveFields DEF Met

\* A step that changes neither the progress of the row nor an update under way.
LEMMA ProgressStays ==
  ASSUME NEW o \in Clients, ProgressInv(o), row # None, row' # None,
         row'.completed = row.completed, row'.current = row.current,
         work'[o] = work[o] \/ work'[o] = None \/ Met(work'[o], row.completed),
         \/ known'[o] = known[o] \/ known'[o] = None
         \/ known'[o] = row.completed /\ pc'[o] # "update",
         \/ pc'[o] # "update"
         \/ /\ pc'[o] = pc[o] /\ work'[o] = work[o] /\ known'[o] = known[o]
            /\ read'[o] = read[o] /\ params'[o] = params[o]
  PROVE  ProgressInv(o)'
BY DEF ProgressInv, Met

LEMMA ReportedProgress ==
  ASSUME NEW o \in Clients, LoopInv, ProgressInv(o), Reported(o)
  PROVE  /\ ProgressInv(o)' /\ row # None /\ work[o] # None
         /\ row'.completed = row.completed \cup {work[o]}
<1>1. /\ row \in State /\ read[o] \in State /\ params[o] \in UpdateParams
      /\ row' = Update(row, Synchronize(read[o], params[o])) /\ row' \in State
      /\ pc[o] = "update" /\ pc' = [pc EXCEPT ![o] = "idle"]
      /\ work' = [work EXCEPT ![o] = None] /\ known' = [known EXCEPT ![o] = None]
  BY WriteStep DEF LoopInv, Reported, WriteUpdate, Return
<1>2. /\ known[o] # None /\ known[o] = row.completed /\ work[o] # None
      /\ params[o].completed = row.completed \cup {work[o]}
      /\ params[o].current \in {work[o], None}
      /\ Met(read[o].current, row.completed) /\ Met(work[o], row.completed)
      /\ \A s \in Stages \cap row.completed : Deps[s] \subseteq row.completed
      /\ row # None
  BY <1>1, ServerAssumption DEF ProgressInv, LoopInv
<1>3. /\ row'.completed = OrElse(params[o].completed, read[o].completed)
      /\ row'.current = OrElse(params[o].current, read[o].current)
  BY <1>1, SynchronizeType, UpdateFields
<1>4. params[o].completed # None
  <2>1. row.completed \in SUBSET StageId /\ work[o] \in StageId
    BY <1>1, <1>2 DEF State, LoopInv
  <2>2. params[o].completed \in SUBSET StageId
    BY <2>1, <1>2
  <2> QED
    BY <2>2, NoneApart
<1>5. row'.completed = row.completed \cup {work[o]}
  BY <1>2, <1>3, <1>4 DEF OrElse
<1>6. Met(row'.current, row'.completed)
  BY <1>2, <1>3, <1>5 DEF OrElse, Met
<1>7. \A s \in Stages \cap row'.completed : Deps[s] \subseteq row'.completed
  BY <1>2, <1>5 DEF Met
<1>8. pc'[o] = "idle" /\ work'[o] = None /\ known'[o] = None
  BY <1>1 DEF LoopInv, ServerInv, TypeOK
<1> QED
  BY <1>2, <1>5, <1>6, <1>7, <1>8 DEF ProgressInv

LEMMA ActProgress ==
  ASSUME NEW o \in Clients, LoopInv, ProgressInv(o), Act(o), ~Reported(o)
  PROVE  /\ ProgressInv(o)'
         /\ row # None /\ row'.completed = row.completed /\ row'.current = row.current
<1>0. /\ ServerInv /\ row \in State \cup {None} /\ None \notin State
      /\ pc \in [Clients -> {"idle", "update", "abort", "answer"}]
      /\ work \in [Clients -> StageId \cup {None}]
      /\ known \in [Clients -> (SUBSET StageId) \cup {None}]
      /\ \A c \in Clients : /\ work[c] # None => row # None
                            /\ known[c] # None => work[c] # None
  BY ServerTypes DEF LoopInv
<1>1. CASE AskNextStage(o)
  <2>1. /\ row \in State /\ UNCHANGED <<row, pc, read, params, known>> /\ pc[o] = "idle"
        /\ \E s \in Suggestions(FindByArn(row)) : work' = [work EXCEPT ![o] = s]
    BY <1>0, <1>1 DEF AskNextStage, server
  <2>2. /\ FindByArn(row) \in State /\ FindByArn(row).current = row.current
        /\ FindByArn(row).completed = row.completed
    BY <2>1, FindByArnType, ReadOrAbortedFields
  <2>3. Met(row.current, row.completed)
    BY <1>0, <2>1 DEF ProgressInv
  <2>4. Met(work'[o], row.completed)
    BY <1>0, <2>1, <2>2, <2>3, SuggestionsMet
  <2> QED
    BY <1>0, <2>1, <2>4, ProgressStays
<1>2. CASE GetState(o)
  <2>1. /\ row \in State /\ UNCHANGED <<row, pc, read, params, work>> /\ known[o] = None
        /\ known'[o] = row.completed
    BY <1>0, <1>2 DEF GetState, server
  <2>2. pc'[o] # "update"
    BY <2>1 DEF ProgressInv
  <2> QED
    BY <1>0, <2>1, <2>2, ProgressStays
<1>3. CASE Report(o)
  <2>1. PICK u \in UpdateParams : /\ FindForUpdate(o, u)
                                  /\ u.completed = known[o] \cup {work[o]}
                                  /\ u.current \in {work[o], None}
    BY <1>3, ReportParams
  <2>2. /\ row \in State /\ row' = row /\ known[o] # None
        /\ params' = [params EXCEPT ![o] = u] /\ read' = [read EXCEPT ![o] = FindByArn(row)]
        /\ work' = work /\ known' = known
    BY <1>0, <1>3, <2>1 DEF Report, FindForUpdate
  <2>3. FindByArn(row).current = row.current
    BY <2>2, ReadOrAbortedFields
  <2>4. params'[o] = u /\ read'[o].current = row.current
    BY <2>2, <2>3, ServerTypes, <1>0
  <2> QED
    BY <1>0, <2>1, <2>2, <2>4 DEF ProgressInv
<1>4. CASE GiveUp(o)
  <2>1. /\ row \in State /\ row' \in {row, Abort(row)} /\ pc'[o] # "update"
        /\ row' \in State /\ UNCHANGED <<work, known>>
    BY <1>0, <1>4, AbortionStep, StatementTypes DEF GiveUp
  <2>2. row'.completed = row.completed /\ row'.current = row.current
    BY <2>1, StatementFields
  <2> QED
    BY <1>0, <2>1, <2>2, ProgressStays
<1>5. CASE Abandon(o)
  <2>1. /\ row # None /\ UNCHANGED row /\ pc'[o] = "idle"
        /\ work'[o] = None /\ known'[o] = None
    BY <1>0, <1>5 DEF Abandon, server
  <2> QED
    BY <2>1, ProgressStays
<1> QED
  BY <1>1, <1>2, <1>3, <1>4, <1>5 DEF Act, Loop

LEMMA ProgressStep ==
  ASSUME NEW o, Clients = {o}, LoopInv, ProgressInv(o), [TelemetryNext]_telemetry
  PROVE  /\ ProgressInv(o)'
         /\ row # None => /\ row' # None
                          /\ \/ row'.completed = row.completed
                             \/ /\ Reported(o)
                                /\ row'.completed = row.completed \cup {work[o]}
<1>0. ServerInv /\ row \in State \cup {None} /\ None \notin State /\ LoopInv'
  BY ServerTypes, LoopStep DEF LoopInv
<1>1. CASE Execute
  <2>1. CreateExecution /\ UNCHANGED <<pc, work, known>> /\ row = None
    BY <1>1 DEF Execute, CreateExecution
  <2>2. row'.completed = {} /\ Met(row'.current, {})
    BY <2>1, CreatedFields
  <2>3. work'[o] = None /\ known'[o] = None /\ pc'[o] # "update"
    BY <2>1 DEF LoopInv, ServerInv, HandlerInv
  <2> QED
    BY <2>1, <2>2, <2>3 DEF ProgressInv
<1>2. CASE Operator
  <2>1. /\ row \in State /\ row' \in {Pause(row), Resume(row), Abort(row)} /\ row' \in State
        /\ UNCHANGED <<pc, read, params, work, known>>
    BY <1>0, <1>2, OperateStep, StatementTypes DEF Operator
  <2>2. row'.completed = row.completed /\ row'.current = row.current
    BY <2>1, StatementFields
  <2> QED
    BY <1>0, <2>1, <2>2, ProgressStays
<1>3. CASE Act(o)
  <2>1. row' # None
    <3>1. CASE Reported(o)
      BY <1>0, <3>1, WriteStep DEF Reported
    <3>2. CASE ~Reported(o)
      BY <1>0, <1>3, <3>2, AbortionStep, StatementTypes, ActProgress
         DEF Act, Loop, AskNextStage, GetState, Report, GiveUp, Abandon, FindForUpdate, server
    <3> QED
      BY <3>1, <3>2
  <2> QED
    BY <1>3, <2>1, ReportedProgress, ActProgress
<1>4. CASE UNCHANGED loop
  BY <1>4 DEF loop, ProgressInv, Met
<1>5. CASE UNCHANGED telemetry
  BY <1>4, <1>5 DEF telemetry, loop
<1> QED
  BY <1>1, <1>2, <1>3, <1>4, <1>5, Acts

LEMMA ProgressInvariant ==
  ASSUME NEW o, Clients = {o}
  PROVE  TelemetrySpec => [](LoopInv /\ ProgressInv(o))
<1>1. TelemetryInit => LoopInv /\ ProgressInv(o)
  BY LoopInitial DEF TelemetryInit, LoopInit, Init, ProgressInv
<1>2. LoopInv /\ ProgressInv(o) /\ [TelemetryNext]_telemetry => LoopInv' /\ ProgressInv(o)'
  BY LoopStep, ProgressStep
<1> QED
  BY <1>1, <1>2, PTL DEF TelemetrySpec

\* With one orchestrator the completed stages are closed under dependencies, although
\* the server stores whatever list it is sent (workflow_update_state).
THEOREM ProgressSound ==
  ASSUME NEW o, Clients = {o}
  PROVE  TelemetrySpec => []ProgressRespectsDeps
<1>1. ProgressInv(o) => ProgressRespectsDeps
  BY DEF ProgressInv, ProgressRespectsDeps
<1> QED
  BY <1>1, ProgressInvariant, PTL

\* And the work it was handed out is ready (workflow_get_next_stage).
THEOREM WorkStaysReady ==
  ASSUME NEW o, Clients = {o}
  PROVE  TelemetrySpec => []WorkIsReady
<1>1. LoopInv /\ ProgressInv(o) => WorkIsReady
  BY NoneApart, WorkflowAssumption DEF ProgressInv, WorkIsReady, Met
<1> QED
  BY <1>1, ProgressInvariant, PTL

\* And no recorded progress is lost, whatever fails or is aborted.
THEOREM ProgressStaysRecorded ==
  ASSUME NEW o, Clients = {o}
  PROVE  TelemetrySpec => ProgressKept
<1>1. LoopInv /\ ProgressInv(o) /\ [TelemetryNext]_telemetry =>
        [row # None => row.completed \subseteq row'.completed]_vars
  BY ProgressStep
<1> QED
  BY <1>1, ProgressInvariant, PTL DEF TelemetrySpec, ProgressKept

-------------------------------------------------------------------------------
\* What a subscriber knows, for any number of orchestrators.

Event == {"*", "execution"}

Views(execution) == {GetMetrics(execution), MetricsQuery(execution)}

\* Who does not know the progress has something left to read, or a call has still
\* to broadcast it.
ViewInv ==
  /\ filter \in Event \cup {None} /\ stale \in BOOLEAN /\ feed \in Seq(Event)
  /\ owed \in [Clients -> Seq(Event)]
  /\ \/ filter = None \/ row = None
     \/ stale \/ feed # <<>> \/ \E o \in Clients : owed[o] # <<>>
     \/ view \in Views(row)

LEMMA BroadcastHeard ==
  ASSUME ViewInv, NEW event \in Event, Broadcast(event)
  PROVE  feed' \in Seq(Event) /\ (filter = None \/ feed' # <<>>)
<1>1. CASE filter = None
  BY <1>1 DEF Broadcast, ViewInv
<1>2. CASE filter # None
  <2> DEFINE kept == IF Len(feed) < Capacity THEN feed ELSE Tail(feed)
  <2>1. kept \in Seq(Event)
    BY TelemetryAssumption DEF ViewInv
  <2>2. feed' = Append(kept, event)
    BY <1>2 DEF Broadcast
  <2> HIDE DEF kept
  <2> QED
    BY <2>1, <2>2
<1> QED
  BY <1>1, <1>2

\* A call that ends owes its event.
LEMMA OweKept ==
  ASSUME ViewInv, NEW o \in Clients, NEW events \in {ToolCall, Started}, Owe(o, events),
         UNCHANGED <<filter, stale, feed>>
  PROVE  ViewInv'
<1>1. events \in Seq(Event) /\ events # <<>>
  <2>1. CASE events = <<"*">>
    BY <2>1 DEF Event
  <2>2. CASE events = <<"execution", "*">>
    BY <2>2 DEF Event
  <2> QED
    BY <2>1, <2>2 DEF ToolCall, Started
<1>2. owed' \in [Clients -> Seq(Event)] /\ owed'[o] # <<>>
  BY <1>1 DEF Owe, ViewInv
<1> QED
  BY <1>2 DEF ViewInv

\* A step that does not change the progress, nor what the subscriber has to read.
LEMMA ViewStays ==
  ASSUME ViewInv, UNCHANGED <<owed, reader>>,
         \/ row' = row
         \/ row # None /\ row' # None /\ row'.completed = row.completed
            /\ row'.current = row.current
  PROVE  ViewInv'
BY DEF ViewInv, reader, Views, GetMetrics, MetricsQuery

LEMMA ViewStep ==
  ASSUME LoopInv, ViewInv, [TelemetryNext]_telemetry
  PROVE  ViewInv'
<1>0. ServerInv /\ row \in State \cup {None} /\ None \notin State
  BY ServerTypes DEF LoopInv
<1>1. CASE ExecuteTool
  BY <1>1, OweKept DEF ExecuteTool, reader
<1>2. ASSUME NEW o \in Clients, Orchestrator(o)
      PROVE  ViewInv'
  <2>1. CASE AskTool(o) \/ GetStateTool(o)
    BY <2>1, OweKept DEF AskTool, GetStateTool, reader
  <2>2. CASE ReportTool(o) \/ StageFails(o)
    BY <2>2, ViewStays DEF ReportTool, Report, FindForUpdate, StageFails, server
  <2>3. CASE ReportedTool(o)
    BY <2>3, OweKept DEF ReportedTool, reader
  <2>4. CASE AbortTool(o)
    <3>1. CASE pc[o] = "answer"
      BY <2>4, <3>1, OweKept DEF AbortTool, reader
    <3>2. CASE pc[o] # "answer"
      <4>1. row \in State /\ row' \in {row, Abort(row)} /\ row' \in State
        BY <1>0, <2>4, AbortionStep, StatementTypes DEF AbortTool, GiveUp
      <4>2. row'.completed = row.completed /\ row'.current = row.current
        BY <4>1, StatementFields
      <4> QED
        BY <1>0, <2>4, <3>2, <4>1, <4>2, ViewStays DEF AbortTool
    <3> QED
      BY <3>1, <3>2
  <2>5. CASE InsightsLog(o)
    BY <2>5, OweKept DEF InsightsLog, reader
  <2>6. CASE CallTool(o)
    <3>1. Head(owed[o]) \in Event /\ Tail(owed[o]) \in Seq(Event)
      BY <2>6 DEF CallTool, ViewInv
    <3>2. feed' \in Seq(Event) /\ (filter = None \/ feed' # <<>>)
      BY <2>6, <3>1, BroadcastHeard DEF CallTool
    <3>3. owed' \in [Clients -> Seq(Event)]
      BY <2>6, <3>1 DEF CallTool, Owe, ViewInv
    <3> QED
      BY <2>6, <3>2, <3>3 DEF CallTool, ViewInv
  <2> QED
    BY <1>2, <2>1, <2>2, <2>3, <2>4, <2>5, <2>6 DEF Orchestrator
<1>3. CASE Operator /\ UNCHANGED <<insights, due, owed, reader>>
  <2>1. /\ row \in State /\ row' \in {Pause(row), Resume(row), Abort(row)} /\ row' \in State
    BY <1>0, <1>3, OperateStep, StatementTypes DEF Operator
  <2>2. row'.completed = row.completed /\ row'.current = row.current
    BY <2>1, StatementFields
  <2> QED
    BY <1>0, <1>3, <2>1, <2>2, ViewStays
<1>4. CASE Subscriber
  <2>1. CASE \E execution \in {"*", "execution"} : Subscribe(execution)
    BY <2>1 DEF Subscribe, loop, ViewInv, Event
  <2>2. CASE Disconnect
    <3>1. <<>> \in Seq(Event)
      OBVIOUS
    <3> QED
      BY <2>2, <3>1 DEF Disconnect, loop, ViewInv
  <2>3. CASE Hear
    <3>1. \A event \in Event : Message(event) # None
      BY TelemetryAssumption DEF Message, Event
    <3>2. Head(feed) \in Event /\ Tail(feed) \in Seq(Event)
      BY <2>3 DEF Hear, ViewInv
    <3>3. stale' = TRUE /\ feed' \in Seq(Event)
      BY <2>3, <3>1, <3>2 DEF Hear, ViewInv
    <3> QED
      BY <2>3, <3>3 DEF Hear, loop, ViewInv
  <2>4. CASE Refresh
    BY <2>4 DEF Refresh, loop, ViewInv, Views
  <2>5. CASE RefreshByTool
    <3>1. feed' \in Seq(Event)
      BY <2>5, BroadcastHeard DEF RefreshByTool, Event
    <3> QED
      BY <2>5, <3>1 DEF RefreshByTool, loop, ViewInv, Views
  <2> QED
    BY <1>4, <2>1, <2>2, <2>3, <2>4, <2>5 DEF Subscriber
<1>5. CASE UNCHANGED telemetry
  BY <1>5, ViewStays DEF telemetry, loop
<1> QED
  BY <1>1, <1>2, <1>3, <1>4, <1>5 DEF TelemetryNext

\* A subscriber that has read everything knows the progress, whatever its filter, the
\* capacity of the channel and the number of orchestrators (metrics_sse_handler).
THEOREM ViewStaysCurrent == TelemetrySpec => []ViewIsCurrent
<1>1. TelemetryInit => LoopInv /\ ViewInv
  <2>1. <<>> \in Seq(Event)
    OBVIOUS
  <2> QED
    BY <2>1, LoopInitial DEF TelemetryInit, ViewInv
<1>2. LoopInv /\ ViewInv /\ [TelemetryNext]_telemetry => LoopInv' /\ ViewInv'
  BY LoopStep, ViewStep
<1>3. ViewInv => ViewIsCurrent
  BY DEF ViewInv, ViewIsCurrent, Views
<1> QED
  BY <1>1, <1>2, <1>3, PTL DEF TelemetrySpec

-------------------------------------------------------------------------------
\* The log of one orchestrator.

FailedTypes == {spelling["failed"] : spelling \in Spellings}

StageInsight == [stage : StageId, type : CompletedTypes \cup FailedTypes, tokens : {1, None}]

LoggedDone == {insights[i].stage : i \in {j \in DOMAIN insights : insights[j].type \in CompletedTypes}}

\* The row is ahead of the log by the insight that is due.
LogInv(o) ==
  /\ insights \in Seq(StageInsight) /\ due \in [Clients -> StageInsight \cup {None}]
  /\ row = None => insights = <<>> /\ due[o] = None
  /\ pc[o] = "update" => due[o] = None
  /\ row # None =>
       row.completed = LoggedDone \cup (IF due[o] # None /\ due[o].type \in CompletedTypes
                                        THEN {due[o].stage} ELSE {})

LEMMA InsightTypes ==
  ASSUME NEW s \in StageId, NEW tokens \in {1, None}
  PROVE  /\ \A i \in Insights(s, "completed", tokens) :
              i \in StageInsight /\ i.type \in CompletedTypes /\ i.stage = s
         /\ \A i \in Insights(s, "failed", tokens) :
              i \in StageInsight /\ i.type \notin CompletedTypes
         /\ \A i \in StageInsight : i # None
<1>1. \A i \in StageInsight : i # None
  <2>1. CompletedTypes \cup FailedTypes \subseteq STRING
    BY TelemetryAssumption DEF CompletedTypes, FailedTypes
  <2>2. StageInsight \subseteq [stage : StageId, type : STRING, tokens : {1, None}]
    BY <2>1 DEF StageInsight
  <2> QED
    BY <2>2, TelemetryAssumption
<1>2. \A spelling \in Spellings : /\ spelling["completed"] \in CompletedTypes
                                  /\ spelling["failed"] \in FailedTypes \ CompletedTypes
  BY TelemetryAssumption DEF CompletedTypes, FailedTypes
<1> QED
  BY <1>1, <1>2 DEF Insights, StageInsight

LEMMA LoggedOne ==
  ASSUME NEW i \in StageInsight, insights \in Seq(StageInsight),
         insights' = Append(insights, i)
  PROVE  /\ insights' \in Seq(StageInsight)
         /\ LoggedDone' = LoggedDone \cup (IF i.type \in CompletedTypes THEN {i.stage} ELSE {})
<1> DEFINE n == Len(insights)
<1>1. /\ n \in Nat /\ DOMAIN insights = 1 .. n /\ DOMAIN insights' = 1 .. (n + 1)
      /\ insights' \in Seq(StageInsight)
      /\ \A j \in 1 .. n : insights'[j] = insights[j]
      /\ insights'[n + 1] = i
  OBVIOUS
<1> HIDE DEF n
<1>2. ASSUME NEW s \in LoggedDone'
      PROVE  s \in LoggedDone \cup (IF i.type \in CompletedTypes THEN {i.stage} ELSE {})
  BY <1>1, <1>2 DEF LoggedDone
<1>3. ASSUME NEW s \in LoggedDone
      PROVE  s \in LoggedDone'
  <2>1. PICK j \in 1 .. n : insights[j].type \in CompletedTypes /\ s = insights[j].stage
    BY <1>1 DEF LoggedDone
  <2>2. j \in 1 .. (n + 1) /\ insights'[j] = insights[j]
    BY <1>1
  <2> QED
    BY <1>1, <2>1, <2>2 DEF LoggedDone
<1>4. i.type \in CompletedTypes => i.stage \in LoggedDone'
  <2>1. n + 1 \in 1 .. (n + 1)
    BY <1>1
  <2> QED
    BY <1>1, <2>1 DEF LoggedDone
<1> QED
  BY <1>1, <1>2, <1>3, <1>4

LEMMA LogStays ==
  ASSUME NEW o \in Clients, LogInv(o), UNCHANGED <<insights, due>>, row' # None,
         \/ row = None /\ row'.completed = {}
         \/ row # None /\ row'.completed = row.completed,
         pc'[o] = "update" => pc[o] = "update" \/ due[o] = None
  PROVE  LogInv(o)'
<1>1. LoggedDone' = LoggedDone
  BY DEF LoggedDone
<1>2. row = None => LoggedDone = {}
  BY DEF LogInv, LoggedDone
<1> QED
  BY <1>1, <1>2 DEF LogInv

LEMMA LogStep ==
  ASSUME NEW o, Clients = {o}, LoopInv, ProgressInv(o), LogInv(o),
         [TelemetryNext]_telemetry
  PROVE  LogInv(o)'
<1>0. ServerInv /\ row \in State \cup {None} /\ None \notin State
  BY ServerTypes DEF LoopInv
<1>1. CASE ExecuteTool
  <2>1. CreateExecution /\ UNCHANGED <<pc, work, known, insights, due>> /\ row = None
    BY <1>1 DEF ExecuteTool, Execute, CreateExecution
  <2>2. row'.completed = {} /\ row' # None
    BY <1>0, <2>1, CreatedFields, CreateType
  <2> QED
    BY <2>1, <2>2, LogStays
<1>2. CASE Orchestrator(o)
  <2>1. CASE AskTool(o) \/ GetStateTool(o) \/ ReportTool(o) \/ AbortTool(o)
    <3>1. Act(o) /\ UNCHANGED <<insights, due>>
      BY <2>1 DEF AskTool, GetStateTool, ReportTool, AbortTool, Act, Loop
    <3>2. pc[o] # "update"
      BY <2>1 DEF AskTool, GetStateTool, ReportTool, AbortTool, AskNextStage, GetState, Report,
         FindForUpdate, GiveUp, Abortion, CheckAbort, WriteAbort, AnswerAbort, ProgressInv
    <3>3. pc'[o] = "update" => due[o] = None
      <4>1. CASE ReportTool(o)
        BY <4>1 DEF ReportTool, Ready
      <4>2. CASE AskTool(o) \/ GetStateTool(o)
        BY <3>2, <4>2 DEF AskTool, GetStateTool, AskNextStage, GetState, server
      <4>3. CASE AbortTool(o)
        BY <1>0, <4>3, AbortionStep DEF AbortTool, GiveUp
      <4> QED
        BY <2>1, <4>1, <4>2, <4>3
    <3>4. row # None /\ row'.completed = row.completed
      BY <3>1, <3>2, ActProgress DEF Reported, WriteUpdate
    <3> QED
      BY <3>1, <3>3, <3>4, ProgressStep, LogStays
  <2>2. CASE ReportedTool(o)
    <3>0. PICK new \in Insights(work[o], "completed", 1) : due' = [due EXCEPT ![o] = new]
      BY <2>2 DEF ReportedTool, Due
    <3>1. /\ row # None /\ work[o] # None /\ row'.completed = row.completed \cup {work[o]}
          /\ insights' = insights /\ due' = [due EXCEPT ![o] = new]
          /\ pc[o] = "update" /\ pc' = [pc EXCEPT ![o] = "idle"]
      BY <2>2, <3>0, ReportedProgress DEF ReportedTool, Reported, WriteUpdate, Return
    <3>2. /\ new \in StageInsight /\ new.type \in CompletedTypes /\ new.stage = work[o]
          /\ new # None
      BY <3>0, <3>1, InsightTypes DEF LoopInv
    <3>3. due[o] = None /\ row' # None /\ LoggedDone' = LoggedDone
      BY <3>1, ProgressStep DEF LogInv, LoggedDone
    <3>4. /\ due' \in [Clients -> StageInsight \cup {None}] /\ due'[o] = new
          /\ pc'[o] # "update"
      BY <1>0, <3>1, <3>2, ServerTypes DEF LogInv
    <3> QED
      BY <3>1, <3>2, <3>3, <3>4 DEF LogInv
  <2>3. CASE StageFails(o)
    <3>0. PICK new \in Insights(work[o], "failed", None) : due' = [due EXCEPT ![o] = new]
      BY <2>3 DEF StageFails, Due
    <3>1. /\ known[o] # None /\ UNCHANGED <<row, pc, insights>> /\ pc[o] = "idle"
          /\ due[o] = None /\ due' = [due EXCEPT ![o] = new]
      BY <2>3, <3>0 DEF StageFails, Ready, server
    <3>2. work[o] # None /\ row # None
      BY <3>1 DEF LoopInv
    <3>3. new \in StageInsight /\ new.type \notin CompletedTypes /\ new # None
      BY <3>0, <3>2, InsightTypes DEF LoopInv
    <3>4. due' \in [Clients -> StageInsight \cup {None}] /\ due'[o] = new
      BY <3>1, <3>3 DEF LogInv
    <3> QED
      BY <3>1, <3>2, <3>3, <3>4 DEF LogInv, LoggedDone
  <2>4. CASE InsightsLog(o)
    <3>1. /\ due[o] # None /\ insights' = Append(insights, due[o])
          /\ due' = [due EXCEPT ![o] = None] /\ UNCHANGED <<row, pc>>
      BY <2>4 DEF InsightsLog, loop
    <3>2. due[o] \in StageInsight /\ row # None
      BY <3>1 DEF LogInv
    <3>3. /\ insights' \in Seq(StageInsight)
          /\ LoggedDone' = LoggedDone \cup (IF due[o].type \in CompletedTypes
                                            THEN {due[o].stage} ELSE {})
      BY <3>1, <3>2, LoggedOne DEF LogInv
    <3>4. due' \in [Clients -> StageInsight \cup {None}] /\ due'[o] = None
      BY <3>1 DEF LogInv
    <3> QED
      BY <3>1, <3>2, <3>3, <3>4 DEF LogInv
  <2>5. CASE CallTool(o)
    BY <2>5 DEF CallTool, loop, LogInv, LoggedDone
  <2> QED
    BY <1>2, <2>1, <2>2, <2>3, <2>4, <2>5 DEF Orchestrator
<1>3. CASE Operator /\ UNCHANGED <<insights, due, owed, reader>>
  <2>1. /\ row \in State /\ row' \in {Pause(row), Resume(row), Abort(row)} /\ row' \in State
        /\ UNCHANGED pc
    BY <1>0, <1>3, OperateStep, StatementTypes DEF Operator
  <2>2. row'.completed = row.completed
    BY <2>1, StatementFields
  <2> QED
    BY <1>0, <1>3, <2>1, <2>2, LogStays
<1>4. CASE Subscriber
  BY <1>4 DEF Subscriber, Subscribe, Disconnect, Hear, Refresh, RefreshByTool, loop,
     LogInv, LoggedDone
<1>5. CASE UNCHANGED telemetry
  BY <1>5 DEF telemetry, loop, LogInv, LoggedDone
<1> QED
  BY <1>1, <1>2, <1>3, <1>4, <1>5 DEF TelemetryNext

\* What insights_aggregate names as completed is completed, and of the stages that
\* workflow_get_state names it leaves out only those that are not yet logged, or were
\* in a spelling the server does not know, however the orchestrator spells
\* (ExecutionSummary).
THEOREM SummaryStaysTrue ==
  ASSUME NEW o, Clients = {o}
  PROVE  TelemetrySpec => []SummaryAgrees
<1>1. TelemetryInit => LogInv(o)
  BY DEF TelemetryInit, LoopInit, Init, LogInv
<1>2. LoopInv /\ ProgressInv(o) /\ LogInv(o) /\ [TelemetryNext]_telemetry => LogInv(o)'
  BY LogStep
<1>3. LogInv(o) => SummaryAgrees
  <2> SUFFICES ASSUME LogInv(o), row # None
               PROVE  /\ ExecutionSummary(Logged).completed \subseteq row.completed
                      /\ row.completed \subseteq
                           ExecutionSummary(Logged).completed \cup Ahead \cup Misread
    BY DEF SummaryAgrees
  <2> DEFINE told == ExecutionSummary(Logged).completed
  <2>1. /\ DOMAIN Logged = DOMAIN insights
        /\ \A i \in DOMAIN insights :
             /\ Logged[i].stage = insights[i].stage
             /\ Logged[i].type = "stage_completed" <=> insights[i].type = "stage_completed"
    <3>1. ASSUME NEW i \in DOMAIN insights
          PROVE  insights[i] \in StageInsight
      BY DEF LogInv
    <3>2. \A type : FromStr(type) = "stage_completed" <=> type = "stage_completed"
      BY DEF FromStr, InsightType
    <3>3. ASSUME NEW i \in DOMAIN insights
          PROVE  /\ Logged[i].stage = insights[i].stage
                 /\ Logged[i].type = FromStr(insights[i].type)
      BY <3>1 DEF Logged, StageInsight
    <3>4. DOMAIN Logged = DOMAIN insights
      BY DEF Logged
    <3>5. ASSUME NEW i \in DOMAIN insights
          PROVE  Logged[i].type = "stage_completed" <=> insights[i].type = "stage_completed"
      <4>1. FromStr(insights[i].type) = "stage_completed"
              <=> insights[i].type = "stage_completed"
        BY <3>2
      <4> QED
        BY <3>3, <4>1
    <3> QED
      BY <3>3, <3>4, <3>5
  <2>2. told = {insights[i].stage : i \in {j \in DOMAIN insights :
                                             insights[j].type = "stage_completed"}}
    BY <2>1 DEF ExecutionSummary, StagesOf
  <2>3. \A i \in DOMAIN insights :
          insights[i].type = "stage_completed" => insights[i].type \in CompletedTypes
    <3>1. ASSUME NEW i \in DOMAIN insights
          PROVE  insights[i].type \in CompletedTypes \cup FailedTypes
      <4>1. insights[i] \in StageInsight
        BY DEF LogInv
      <4> QED
        BY <4>1 DEF StageInsight
    <3>2. "stage_completed" \notin FailedTypes
      BY TelemetryAssumption DEF FailedTypes
    <3> QED
      BY <3>1, <3>2
  <2> HIDE DEF told
  <2>4. told \subseteq LoggedDone
    BY <2>2, <2>3 DEF LoggedDone
  <2>5. LoggedDone \subseteq told \cup Misread
    BY <2>2 DEF LoggedDone, Misread
  <2>6. row.completed \subseteq LoggedDone \cup Ahead
    BY DEF LogInv, Ahead
  <2>7. LoggedDone \subseteq row.completed
    BY DEF LogInv
  <2> QED
    BY <2>4, <2>5, <2>6, <2>7 DEF told
<1> QED
  BY <1>1, <1>2, <1>3, ProgressInvariant, PTL DEF TelemetrySpec

-------------------------------------------------------------------------------
\* The analytics of a log.

Entry(T) == [stage : Stages, type : T, tokens : {1, None}]

\* How many elements of a sequence are in P.
Count(seq, P) == Cardinality({j \in DOMAIN seq : seq[j] \in P})

\* One position more.
LEMMA CountTo ==
  ASSUME NEW X, NEW n \in Nat
  PROVE  /\ Cardinality({i \in 1 .. n : i \in X}) \in Nat
         /\ n # 0 => Cardinality({i \in 1 .. n : i \in X})
                       = Cardinality({i \in 1 .. (n-1) : i \in X}) + (IF n \in X THEN 1 ELSE 0)
<1> DEFINE Upto(k) == {i \in 1 .. k : i \in X}
<1>1. \A k \in Nat : IsFiniteSet(Upto(k)) /\ Cardinality(Upto(k)) \in Nat
  <2>1. \A k \in Nat : IsFiniteSet(1 .. k) /\ Upto(k) \subseteq 1 .. k
    BY FS_Interval
  <2> HIDE DEF Upto
  <2> QED
    BY <2>1, FS_Subset, FS_CardinalityType
<1>2. ASSUME n # 0
      PROVE  Cardinality(Upto(n)) = Cardinality(Upto(n-1)) + (IF n \in X THEN 1 ELSE 0)
  <2>1. n - 1 \in Nat /\ 1 .. n = (1 .. (n-1)) \cup {n} /\ n \notin 1 .. (n-1)
    BY <1>2
  <2>2. CASE n \in X
    <3>1. Upto(n) = Upto(n-1) \cup {n} /\ n \notin Upto(n-1)
      BY <2>1, <2>2
    <3> HIDE DEF Upto
    <3> QED
      BY <1>1, <2>1, <2>2, <3>1, FS_AddElement
  <2>3. CASE n \notin X
    <3>1. Upto(n) = Upto(n-1)
      BY <2>1, <2>3
    <3> HIDE DEF Upto
    <3> QED
      BY <1>1, <2>1, <2>3, <3>1
  <2> QED
    BY <2>2, <2>3
<1> QED
  <2> HIDE DEF Upto
  <2>1. Cardinality(Upto(n)) \in Nat
    BY <1>1
  <2> QED
    BY <1>2, <2>1 DEF Upto

LEMMA CountAppend ==
  ASSUME NEW E, NEW seq \in Seq(E), NEW e \in E, NEW P
  PROVE  /\ Count(seq, P) \in Nat
         /\ Count(Append(seq, e), P) = Count(seq, P) + (IF e \in P THEN 1 ELSE 0)
<1> DEFINE n == Len(seq)
           new == Append(seq, e)
           X == {j \in DOMAIN new : new[j] \in P}
<1>1. /\ n \in Nat /\ n + 1 \in Nat /\ n + 1 # 0 /\ (n + 1) - 1 = n
      /\ DOMAIN seq = 1 .. n /\ DOMAIN new = 1 .. (n + 1)
      /\ \A j \in 1 .. n : new[j] = seq[j]
      /\ new[n + 1] = e
  OBVIOUS
<1> HIDE DEF n, new
<1>2. \A j \in 1 .. n : j \in 1 .. (n + 1)
  BY <1>1
<1>3. /\ {j \in DOMAIN seq : seq[j] \in P} = {i \in 1 .. n : i \in X}
      /\ {j \in DOMAIN new : new[j] \in P} = {i \in 1 .. (n + 1) : i \in X}
  BY <1>1, <1>2
<1>4. n + 1 \in X <=> e \in P
  BY <1>1
<1> HIDE DEF X
<1>5. /\ Cardinality({i \in 1 .. n : i \in X}) \in Nat
      /\ Cardinality({i \in 1 .. (n + 1) : i \in X})
           = Cardinality({i \in 1 .. n : i \in X}) + (IF n + 1 \in X THEN 1 ELSE 0)
  <2>1. \A m \in Nat : m # 0 => Cardinality({i \in 1 .. m : i \in X})
                       = Cardinality({i \in 1 .. (m-1) : i \in X}) + (IF m \in X THEN 1 ELSE 0)
    BY CountTo
  <2>2. Cardinality({i \in 1 .. n : i \in X}) \in Nat
    BY <1>1, CountTo
  <2> QED
    BY <1>1, <2>1, <2>2
<1> QED
  BY <1>3, <1>4, <1>5 DEF Count, new

\* The total of the tokens counts the insights that have some, if there are any.
LEMMA TokensCounted ==
  ASSUME NEW T, NEW log \in Seq(Entry(T))
  PROVE  LET n == Count(log, {e \in Entry(T) : e.tokens # None})
         IN n \in Nat /\ Tokens(log) = IF n = 0 THEN None ELSE n
<1> DEFINE len == Len(log)
           X == {i \in DOMAIN log : log[i].tokens # None}
           count(n) == Cardinality({i \in 1 .. n : i \in X})
           got(n) == IF count(n) = 0 THEN None ELSE count(n)
           turn(g, n) == IF n = 0 THEN None
                         ELSE IF log[n].tokens = None THEN g[n-1]
                         ELSE IF g[n-1] = None THEN log[n].tokens
                         ELSE g[n-1] + log[n].tokens
           total[n \in 0 .. Len(log)] ==
             IF n = 0 THEN None
             ELSE IF log[n].tokens = None THEN total[n-1]
             ELSE IF total[n-1] = None THEN log[n].tokens
             ELSE total[n-1] + log[n].tokens
           all == [n \in 0 .. Len(log) |-> got(n)]
<1>1. /\ len \in Nat /\ DOMAIN log = 1 .. len
      /\ \A i \in 1 .. len : log[i] \in Entry(T) /\ log[i].tokens \in {1, None}
      /\ None \notin Nat
  <2>1. \A e \in Entry(T) : e.tokens \in {1, None}
    BY DEF Entry
  <2> QED
    BY <2>1, TelemetryAssumption
<1>2. total = CHOOSE g : g = [n \in 0 .. Len(log) |-> turn(g, n)]
  OBVIOUS
<1>3. \A n \in 0 .. len : /\ count(n) \in Nat
                          /\ n # 0 => /\ n \in 1 .. len /\ n - 1 \in 0 .. len
                                      /\ count(n) = count(n-1) + (IF n \in X THEN 1 ELSE 0)
  <2>1. \A n \in 0 .. len : n \in Nat /\ (n # 0 => n \in 1 .. len /\ n - 1 \in 0 .. len)
    BY <1>1
  <2> HIDE DEF X
  <2> QED
    BY <2>1, CountTo
<1>4. count(0) = 0
  <2>1. {i \in 1 .. 0 : i \in X} = {}
    OBVIOUS
  <2> QED
    BY <2>1, FS_EmptySet
<1>5. \A n \in 1 .. len : n \in X <=> log[n].tokens # None
  BY <1>1
<1> HIDE DEF count, X
<1>6. \A n \in 0 .. len : n # 0 => /\ log[n].tokens = None => got(n) = got(n-1)
                                   /\ log[n].tokens # None =>
                                        got(n) = IF got(n-1) = None THEN 1 ELSE got(n-1) + 1
  BY <1>1, <1>3, <1>5
<1>7. \A n \in 0 .. len : got(n) = turn(all, n)
  BY <1>1, <1>3, <1>4, <1>6
<1>8. all = [n \in 0 .. Len(log) |-> turn(all, n)]
  <2> HIDE DEF turn, got
  <2> QED
    BY <1>7
<1>9. total = [n \in 0 .. Len(log) |-> turn(total, n)]
  <2> HIDE DEF turn, all, total
  <2> QED
    BY <1>2, <1>8
<1>10. \A n \in 0 .. len : total[n] = turn(total, n)
  <2> HIDE DEF turn, total
  <2> QED
    BY <1>9
<1>11. Tokens(log) = total[len]
  BY DEF Tokens
<1> HIDE DEF total
<1> DEFINE Bad == {n \in 0 .. len : total[n] # got(n)}
<1>12. ASSUME Bad # {}
       PROVE  FALSE
  <2>1. PICK n \in Bad : \A m \in Bad : n <= m
    <3>1. Bad \subseteq Nat
      OBVIOUS
    <3> HIDE DEF Bad
    <3> QED
      BY <1>12, <3>1, LeastNat
  <2>2. n # 0
    BY <1>4, <1>10, <2>1
  <2>3. n - 1 \in 0 .. len /\ total[n-1] = got(n-1)
    BY <1>3, <2>1, <2>2
  <2> HIDE DEF got
  <2>4. total[n] = turn(total, n) /\ n \in 1 .. len /\ got(n) = turn(all, n)
    BY <1>3, <1>7, <1>10, <2>1, <2>2
  <2>5. all[n-1] = got(n-1)
    BY <2>3
  <2> QED
    BY <2>1, <2>2, <2>3, <2>4, <2>5
<1>13. len \in 0 .. len /\ len \notin Bad
  BY <1>1, <1>12
<1>14. count(len) = Count(log, {e \in Entry(T) : e.tokens # None})
  <2>1. {i \in 1 .. len : i \in X} = {j \in DOMAIN log : log[j] \in {e \in Entry(T) : e.tokens # None}}
    BY <1>1 DEF X
  <2> QED
    BY <2>1 DEF count, Count
<1> QED
  BY <1>3, <1>11, <1>13, <1>14

\* The insights of a stage are those of the log that name it, in a sequence of their own.
LEMMA OfStageCounts ==
  ASSUME NEW T, NEW log \in Seq(Entry(T)), NEW stage \in Stages
  PROVE  /\ OfStage(log, stage) \in Seq(Entry(T))
         /\ \A P : Count(OfStage(log, stage), P)
                  = Cardinality({j \in DOMAIN log : log[j].stage = stage /\ log[j] \in P})
<1> DEFINE len == Len(log)
           S == Seq(Entry(T))
           step == [p \in S \X Nat |-> IF p[2] \in 1 .. len /\ log[p[2]].stage = stage
                                      THEN Append(p[1], log[p[2]]) ELSE p[1]]
           turn(g, n) == IF n = 0 THEN <<>>
                         ELSE IF log[n].stage = stage THEN Append(g[n-1], log[n]) ELSE g[n-1]
           its[n \in 0 .. Len(log)] ==
             IF n = 0 THEN <<>>
             ELSE IF log[n].stage = stage THEN Append(its[n-1], log[n]) ELSE its[n-1]
<1>1. len \in Nat /\ DOMAIN log = 1 .. len /\ \A i \in 1 .. len : log[i] \in Entry(T)
  OBVIOUS
<1>2. its = CHOOSE g : g = [n \in 0 .. Len(log) |-> turn(g, n)]
  OBVIOUS
<1>3. OfStage(log, stage) = its[len]
  BY DEF OfStage
<1>4. /\ <<>> \in S
      /\ \A q \in S, i \in 1 .. len : Append(q, log[i]) \in S
  BY <1>1
<1> HIDE DEF S
<1>5. step \in [S \X Nat -> S]
  <2> SUFFICES ASSUME NEW p \in S \X Nat
               PROVE  (IF p[2] \in 1 .. len /\ log[p[2]].stage = stage
                       THEN Append(p[1], log[p[2]]) ELSE p[1]) \in S
    OBVIOUS
  <2>1. p[1] \in S
    OBVIOUS
  <2> QED
    BY <1>4, <2>1
<1>6. \A q \in S, i \in 1 .. len : step[<<q, i>>] = IF log[i].stage = stage THEN Append(q, log[i]) ELSE q
  <2> SUFFICES ASSUME NEW q \in S, NEW i \in 1 .. len
               PROVE  step[<<q, i>>] = IF log[i].stage = stage THEN Append(q, log[i]) ELSE q
    OBVIOUS
  <2>1. <<q, i>> \in S \X Nat /\ <<q, i>>[1] = q /\ <<q, i>>[2] = i
    OBVIOUS
  <2> QED
    BY <2>1
<1> HIDE DEF step, its
<1>7. PICK g \in [0 .. len -> S] : Turns(g, S, <<>>, step, len)
  BY <1>1, <1>4, <1>5, Recursion
<1>8. \A i \in 1 .. len : i \in 0 .. len /\ i - 1 \in 0 .. len /\ i # 0
  BY <1>1
<1>9. g = [n \in 0 .. len |-> turn(g, n)]
  <2> SUFFICES ASSUME NEW n \in 0 .. len
               PROVE  g[n] = turn(g, n)
    BY <1>7
  <2>1. CASE n = 0
    BY <1>7, <2>1 DEF Turns
  <2>2. CASE n # 0
    <3>1. n \in 1 .. len
      BY <1>1, <2>2
    <3>2. g[n-1] \in S /\ g[n] = step[<<g[n-1], n>>]
      BY <1>7, <1>8, <3>1 DEF Turns
    <3> QED
      BY <1>6, <2>2, <3>1, <3>2
  <2> QED
    BY <2>1, <2>2
<1>10. its = [n \in 0 .. len |-> turn(its, n)]
  <2> HIDE DEF turn
  <2> QED
    BY <1>2, <1>9
<1>11. its[0] = <<>> /\ \A n \in 1 .. len : its[n] = turn(its, n) /\ n # 0
  <2>1. \A n \in 0 .. len : its[n] = turn(its, n)
    <3> HIDE DEF turn
    <3> QED
      BY <1>10
  <2>2. 0 \in 0 .. len
    BY <1>1
  <2> QED
    BY <1>8, <2>1, <2>2
<1>12. Turns(its, S, <<>>, step, len)
  BY <1>6, <1>11 DEF Turns
<1>13. \A n \in 0 .. len : its[n] \in S
  BY <1>1, <1>4, <1>5, <1>12, TurnsStay
<1>14. len \in 0 .. len
  BY <1>1
<1>15. ASSUME NEW P
       PROVE  Count(its[len], P) = Cardinality({j \in DOMAIN log : log[j].stage = stage /\ log[j] \in P})
  <2> DEFINE X == {j \in DOMAIN log : log[j].stage = stage /\ log[j] \in P}
             count(n) == Cardinality({i \in 1 .. n : i \in X})
             Bad == {n \in 0 .. len : Count(its[n], P) # count(n)}
  <2>1. \A n \in 0 .. len : /\ count(n) \in Nat
                            /\ n # 0 => count(n) = count(n-1) + (IF n \in X THEN 1 ELSE 0)
    <3> HIDE DEF X
    <3> QED
      BY <1>1, CountTo
  <2>2. count(0) = 0
    <3>1. {i \in 1 .. 0 : i \in X} = {}
      OBVIOUS
    <3> QED
      BY <3>1, FS_EmptySet
  <2>3. \A n \in 1 .. len : n \in X <=> log[n].stage = stage /\ log[n] \in P
    BY <1>1
  <2>4. count(len) = Cardinality(X)
    <3>1. {i \in 1 .. len : i \in X} = X
      BY <1>1
    <3> QED
      BY <3>1
  <2>5. Count(<<>>, P) = 0
    <3>1. {j \in DOMAIN <<>> : <<>>[j] \in P} = {}
      OBVIOUS
    <3> QED
      BY <3>1, FS_EmptySet DEF Count
  <2> HIDE DEF X, count
  <2>6. ASSUME Bad # {}
        PROVE  FALSE
    <3>1. PICK n \in Bad : \A m \in Bad : n <= m
      <4>1. Bad \subseteq Nat
        OBVIOUS
      <4> HIDE DEF Bad
      <4> QED
        BY <2>6, <4>1, LeastNat
    <3>2. n # 0
      BY <1>11, <2>2, <2>5, <3>1
    <3>3. n \in 1 .. len /\ n - 1 \in 0 .. len
      BY <1>1, <3>1, <3>2
    <3>4. Count(its[n-1], P) = count(n-1)
      BY <3>1, <3>3
    <3> DEFINE q == its[n-1]
    <3>5. q \in Seq(Entry(T)) /\ log[n] \in Entry(T)
      BY <1>1, <1>13, <3>3 DEF S
    <3>6. its[n] = IF log[n].stage = stage THEN Append(q, log[n]) ELSE q
      BY <1>11, <3>3
    <3> HIDE DEF q
    <3>7. Count(Append(q, log[n]), P) = Count(q, P) + (IF log[n] \in P THEN 1 ELSE 0)
      <4>1. \A r \in Seq(Entry(T)), e \in Entry(T) :
              Count(Append(r, e), P) = Count(r, P) + (IF e \in P THEN 1 ELSE 0)
        BY CountAppend
      <4> HIDE DEF Bad
      <4> QED
        BY <3>5, <4>1
    <3>8. Count(its[n], P) # count(n)
      BY <3>1
    <3>9. count(n) = count(n-1) + (IF n \in X THEN 1 ELSE 0) /\ count(n-1) \in Nat
      BY <2>1, <3>2, <3>3, <1>8
    <3>10. CASE log[n].stage = stage
      BY <2>3, <3>3, <3>4, <3>6, <3>7, <3>8, <3>9, <3>10 DEF q
    <3>11. CASE log[n].stage # stage
      BY <2>3, <3>3, <3>4, <3>6, <3>8, <3>9, <3>11 DEF q
    <3> QED
      BY <3>10, <3>11
  <2>7. len \notin Bad
    BY <2>6
  <2>8. Count(its[len], P) = count(len)
    BY <1>14, <2>7
  <2> QED
    BY <2>4, <2>8 DEF X
<1> QED
  BY <1>3, <1>13, <1>14, <1>15 DEF S

\* The number of a type is that of the insights of that type.
LEMMA TypesCounted ==
  ASSUME NEW T, NEW seq \in Seq(Entry(T)), NEW t
  PROVE  (IF t \in DOMAIN Types(seq) THEN Types(seq)[t] ELSE 0)
           = Count(seq, {e \in Entry(T) : e.type = t})
<1> DEFINE its == {i \in DOMAIN seq : seq[i].type = t}
<1>1. its = {j \in DOMAIN seq : seq[j] \in {e \in Entry(T) : e.type = t}}
  OBVIOUS
<1>2. DOMAIN Types(seq) = {seq[i].type : i \in DOMAIN seq}
  BY DEF Types
<1>3. CASE t \in DOMAIN Types(seq)
  <2>1. Types(seq)[t] = Cardinality(its)
    BY <1>2, <1>3 DEF Types
  <2> QED
    BY <1>1, <1>3, <2>1 DEF Count
<1>4. CASE t \notin DOMAIN Types(seq)
  <2>1. its = {}
    BY <1>2, <1>4
  <2> QED
    BY <1>1, <1>4, <2>1, FS_EmptySet DEF Count
<1> QED
  BY <1>3, <1>4

\* What the stages have together is what the log has.
LEMMA StagesTogether ==
  ASSUME IsFiniteSet(Stages), NEW T, NEW log \in Seq(Entry(T)), NEW P,
         NEW f \in [Stages -> Nat], \A s \in Stages : f[s] = Count(OfStage(log, s), P)
  PROVE  SumFunction(f) = Count(log, P)
<1> DEFINE X == {j \in DOMAIN log : log[j] \in P}
           h == [j \in X |-> log[j].stage]
<1>1. IsFiniteSet(X)
  <2>1. DOMAIN log = 1 .. Len(log) /\ Len(log) \in Nat
    OBVIOUS
  <2>2. IsFiniteSet(1 .. Len(log))
    BY <2>1, FS_Interval
  <2> QED
    BY <2>1, <2>2, FS_Subset
<1>2. h \in [X -> Stages]
  <2>1. \A j \in X : log[j] \in Entry(T)
    OBVIOUS
  <2> QED
    BY <2>1 DEF Entry
<1>3. ASSUME NEW s \in Stages
      PROVE  f[s] = Cardinality({x \in X : h[x] = s})
  <2>1. {x \in X : h[x] = s} = {j \in DOMAIN log : log[j].stage = s /\ log[j] \in P}
    OBVIOUS
  <2> QED
    <3>1. Count(OfStage(log, s), P) = Cardinality({j \in DOMAIN log : log[j].stage = s /\ log[j] \in P})
      BY OfStageCounts
    <3> HIDE DEF X, h
    <3> QED
      BY <2>1, <3>1
<1>4. Count(log, P) = Cardinality(X)
  BY DEF Count
<1> HIDE DEF X, h
<1> QED
  BY <1>1, <1>2, <1>3, <1>4, SumOfParts

\* So the two ways to aggregate agree, whatever the log is.
LEMMA LogAddsUp ==
  ASSUME IsFiniteSet(Stages), NEW T, NEW log \in Seq(Entry(T))
  PROVE  AddUp(log)
<1> DEFINE whole == AggregateExecution(log)
           part == [s \in Stages |-> AggregateStage(log, s)]
           tokens == [s \in Stages |-> OrElse(part[s].tokens, 0)]
           Counts(t) == [s \in Stages |-> LET types == part[s].types
                                           IN IF t \in DOMAIN types THEN types[t] ELSE 0]
           Have == {e \in Entry(T) : e.tokens # None}
           Of(t) == {e \in Entry(T) : e.type = t}
<1>1. \A s \in Stages : OfStage(log, s) \in Seq(Entry(T))
  BY OfStageCounts
<1>2. \A s \in Stages : /\ part[s].total = Len(OfStage(log, s))
                        /\ part[s].tokens = Tokens(OfStage(log, s))
                        /\ part[s].types = Types(OfStage(log, s))
  BY DEF AggregateStage
<1>3. /\ whole.tokens = Tokens(log)
      /\ whole.types = Types(log)
      /\ \A s \in Stages : whole.stages[s] = Cardinality({i \in DOMAIN log : log[i].stage = s})
  BY DEF AggregateExecution
<1>4. \A seq \in Seq(Entry(T)) : \A P : Count(seq, P) \in Nat
  <2> SUFFICES ASSUME NEW seq \in Seq(Entry(T)), NEW P
               PROVE  Count(seq, P) \in Nat
    OBVIOUS
  <2>1. DOMAIN seq = 1 .. Len(seq) /\ Len(seq) \in Nat
    OBVIOUS
  <2>2. IsFiniteSet(DOMAIN seq)
    BY <2>1, FS_Interval
  <2> QED
    BY <2>2, FS_Subset, FS_CardinalityType DEF Count
<1> HIDE DEF whole, part
<1>5. ASSUME NEW s \in Stages
      PROVE  part[s].total = whole.stages[s]
  <2> DEFINE its == OfStage(log, s)
  <2>1. /\ its \in Seq(Entry(T))
        /\ Count(its, Entry(T)) = Cardinality({j \in DOMAIN log : log[j].stage = s /\ log[j] \in Entry(T)})
    BY OfStageCounts
  <2>2. {j \in DOMAIN log : log[j].stage = s /\ log[j] \in Entry(T)} = {i \in DOMAIN log : log[i].stage = s}
    OBVIOUS
  <2> HIDE DEF its
  <2>3. Count(its, Entry(T)) = Len(its)
    <3>1. Len(its) \in Nat /\ DOMAIN its = 1 .. Len(its) /\ \A j \in DOMAIN its : its[j] \in Entry(T)
      BY <2>1
    <3>2. {j \in DOMAIN its : its[j] \in Entry(T)} = 1 .. Len(its)
      BY <3>1
    <3>3. \A n \in Nat : Cardinality(1 .. n) = n
      BY FS_Interval
    <3> QED
      BY <3>1, <3>2, <3>3 DEF Count
  <2> QED
    BY <1>2, <1>3, <2>1, <2>2, <2>3 DEF its
<1>6. ASSUME whole.tokens # None
      PROVE  whole.tokens = SumFunction(tokens)
  <2>1. whole.tokens = Count(log, Have)
    BY <1>3, <1>6, TokensCounted
  <2>2. ASSUME NEW s \in Stages
        PROVE  tokens[s] = Count(OfStage(log, s), Have)
    <3> DEFINE n == Count(OfStage(log, s), Have)
    <3>1. n \in Nat /\ Tokens(OfStage(log, s)) = IF n = 0 THEN None ELSE n
      BY <1>1, TokensCounted
    <3>2. None \notin Nat
      BY TelemetryAssumption
    <3> HIDE DEF n
    <3>3. tokens[s] = IF Tokens(OfStage(log, s)) = None THEN 0 ELSE Tokens(OfStage(log, s))
      BY <1>2 DEF OrElse
    <3>4. tokens[s] = n
      BY <3>1, <3>2, <3>3
    <3> QED
      BY <3>4 DEF n
  <2>3. tokens = [s \in Stages |-> tokens[s]]
    OBVIOUS
  <2> HIDE DEF tokens, Have
  <2>4. tokens \in [Stages -> Nat]
    <3>1. \A s \in Stages : tokens[s] \in Nat
      BY <1>1, <1>4, <2>2
    <3> QED
      BY <2>3, <3>1
  <2> QED
    BY <2>1, <2>2, <2>4, StagesTogether
<1>7. ASSUME NEW t \in DOMAIN whole.types
      PROVE  whole.types[t] = SumFunction(Counts(t))
  <2>1. whole.types[t] = Count(log, Of(t))
    BY <1>3, TypesCounted
  <2>2. ASSUME NEW s \in Stages
        PROVE  Counts(t)[s] = Count(OfStage(log, s), Of(t))
    <3>1. /\ OfStage(log, s) \in Seq(Entry(T))
          /\ part[s].types = Types(OfStage(log, s))
      BY <1>1, <1>2
    <3>2. Counts(t)[s] = IF t \in DOMAIN Types(OfStage(log, s)) THEN Types(OfStage(log, s))[t] ELSE 0
      BY <3>1
    <3>3. \A seq \in Seq(Entry(T)) :
            (IF t \in DOMAIN Types(seq) THEN Types(seq)[t] ELSE 0) = Count(seq, Of(t))
      BY TypesCounted
    <3> HIDE DEF Counts, Of
    <3> QED
      BY <3>1, <3>2, <3>3
  <2> DEFINE f == Counts(t)
  <2>3. f = [s \in Stages |-> f[s]] /\ \A s \in Stages : f[s] = Count(OfStage(log, s), Of(t))
    BY <2>2
  <2> HIDE DEF f, Of
  <2>4. f \in [Stages -> Nat]
    <3>1. \A s \in Stages : f[s] \in Nat
      BY <1>1, <1>4, <2>3
    <3> QED
      BY <2>3, <3>1
  <2>5. SumFunction(f) = Count(log, Of(t))
    BY <2>3, <2>4, StagesTogether
  <2> QED
    BY <2>1, <2>5 DEF f
<1> QED
  BY <1>5, <1>6, <1>7 DEF AddUp, whole, part

\* Stages are named everywhere, never any other StageId.
Named == Stages \cup {None}

NamedInv ==
  /\ row # None => row.current \in Named
  /\ \A c \in Clients :
       /\ work[c] \in Named
       /\ pc[c] = "update" => /\ read[c].current \in Named /\ params[c].current \in Named
                             /\ work[c] # None

LEMMA ClientNamed ==
  ASSUME NamedInv, NEW c \in Clients, row' # None => row'.current \in Named, work'[c] \in Named,
         pc'[c] = "update" => /\ read'[c].current \in Named /\ params'[c].current \in Named
                              /\ work'[c] # None,
         \A d \in Clients \ {c} : /\ work'[d] = work[d] /\ pc'[d] = pc[d]
                                  /\ read'[d] = read[d] /\ params'[d] = params[d]
  PROVE  NamedInv'
BY DEF NamedInv

LEMMA AbortionNamed ==
  ASSUME ServerInv, NEW c \in Clients, Abortion(c)
  PROVE  \A d \in Clients \ {c} : pc'[d] = pc[d] /\ read'[d] = read[d] /\ params'[d] = params[d]
BY ServerTypes DEF Abortion, CheckAbort, WriteAbort, AnswerAbort, Return

LEMMA ActNamed ==
  ASSUME LoopInv, NamedInv, NEW c \in Clients, Act(c)
  PROVE  NamedInv'
<1>0. /\ ServerInv /\ row \in State \cup {None} /\ None \notin State
      /\ pc \in [Clients -> {"idle", "update", "abort", "answer"}]
      /\ read \in [Clients -> State \cup {None}]
      /\ params \in [Clients -> UpdateParams \cup {None}]
      /\ work \in [Clients -> StageId \cup {None}]
      /\ known \in [Clients -> (SUBSET StageId) \cup {None}]
      /\ \A d \in Clients : /\ work[d] # None => row # None
                            /\ known[d] # None => work[d] # None
      /\ row # None => row.current \in Named
      /\ work[c] \in Named
  BY ServerTypes DEF LoopInv, NamedInv
<1>1. CASE AskNextStage(c)
  <2>1. /\ row \in State /\ UNCHANGED <<row, pc, read, params, known>> /\ pc[c] = "idle"
        /\ \E s \in Suggestions(FindByArn(row)) : work' = [work EXCEPT ![c] = s]
    BY <1>0, <1>1 DEF AskNextStage, server
  <2>2. FindByArn(row).current = row.current
    BY <2>1, ReadOrAbortedFields
  <2>3. Suggestions(FindByArn(row)) \subseteq Named
    BY <1>0, <2>1, <2>2 DEF Suggestions, ListExecutable, Named
  <2> QED
    BY <1>0, <2>1, <2>3, ClientNamed
<1>2. CASE GetState(c)
  BY <1>2 DEF GetState, server, NamedInv
<1>3. CASE Report(c)
  <2>1. PICK u \in UpdateParams : FindForUpdate(c, u) /\ u.current \in {work[c], None}
    BY <1>3, ReportParams
  <2>2. /\ row \in State /\ row' = row /\ known[c] # None /\ work' = work
        /\ params' = [params EXCEPT ![c] = u] /\ read' = [read EXCEPT ![c] = FindByArn(row)]
        /\ pc' = [pc EXCEPT ![c] = "update"]
    BY <1>0, <1>3, <2>1 DEF Report, FindForUpdate
  <2>3. FindByArn(row).current = row.current
    BY <2>2, ReadOrAbortedFields
  <2>4. params'[c].current \in Named /\ read'[c].current \in Named
    BY <1>0, <2>1, <2>2, <2>3 DEF Named
  <2> QED
    BY <1>0, <2>2, <2>4, ClientNamed
<1>4. CASE Reported(c)
  <2>1. /\ read[c] \in State /\ params[c] \in UpdateParams /\ pc[c] = "update"
        /\ row' = Update(row, Synchronize(read[c], params[c]))
        /\ pc' = [pc EXCEPT ![c] = "idle"] /\ work' = [work EXCEPT ![c] = None]
        /\ read' = [read EXCEPT ![c] = None] /\ params' = [params EXCEPT ![c] = None]
    BY <1>0, <1>4, WriteStep DEF Reported, WriteUpdate, Return
  <2>2. row'.current = OrElse(params[c].current, read[c].current)
    BY <2>1, SynchronizeType, UpdateFields
  <2>3. row'.current \in Named
    BY <2>1, <2>2 DEF OrElse, NamedInv
  <2>4. work'[c] \in Named /\ pc'[c] # "update"
    BY <1>0, <2>1 DEF Named
  <2> QED
    BY <1>0, <2>1, <2>3, <2>4, ClientNamed
<1>5. CASE GiveUp(c)
  <2>1. Abortion(c) /\ UNCHANGED <<work, known>>
    BY <1>5 DEF GiveUp
  <2>2. row \in State /\ row' \in {row, Abort(row)} /\ pc'[c] # "update"
    BY <1>0, <2>1, AbortionStep
  <2>3. row'.current = row.current
    BY <2>2, StatementFields
  <2> QED
    BY <1>0, <2>1, <2>2, <2>3, AbortionNamed, ClientNamed
<1>6. CASE Abandon(c)
  <2>1. /\ UNCHANGED <<row, pc, read, params>> /\ pc[c] = "idle"
        /\ work' = [work EXCEPT ![c] = None]
    BY <1>6 DEF Abandon, server
  <2> QED
    BY <1>0, <2>1, ClientNamed DEF Named
<1> QED
  BY <1>1, <1>2, <1>3, <1>4, <1>5, <1>6 DEF Act, Loop

LEMMA NamedStep ==
  ASSUME LoopInv, NamedInv, [TelemetryNext]_telemetry
  PROVE  NamedInv'
<1>0. ServerInv /\ row \in State \cup {None} /\ None \notin State
  BY ServerTypes DEF LoopInv
<1>1. CASE Execute
  <2>1. CreateExecution /\ UNCHANGED <<pc, read, params, work>>
    BY <1>1 DEF Execute, CreateExecution
  <2>2. PICK first \in FindFirstExecutable(New) : row' = Save(Start(New, first))
    BY <2>1 DEF CreateExecution
  <2>3. first \in Stages
    BY <2>2, FirstExecutable
  <2>4. New \in State /\ Start(New, first) \in State
    BY <2>3, NewType, StartType
  <2>5. Start(New, first).current = first
    BY <2>4 DEF Start, State
  <2>6. row'.current \in Named
    BY <2>2, <2>3, <2>4, <2>5, SaveFields DEF Named
  <2> QED
    BY <2>1, <2>6 DEF NamedInv
<1>2. CASE Operator
  <2>1. /\ row \in State /\ row' \in {Pause(row), Resume(row), Abort(row)}
        /\ UNCHANGED <<pc, read, params, work, known>>
    BY <1>0, <1>2, OperateStep DEF Operator
  <2>2. row'.current = row.current
    BY <2>1, StatementFields
  <2> QED
    BY <1>0, <2>1, <2>2 DEF NamedInv
<1>3. CASE UNCHANGED loop
  BY <1>3 DEF loop, NamedInv
<1>4. CASE UNCHANGED telemetry
  BY <1>3, <1>4 DEF telemetry, loop
<1> QED
  BY <1>1, <1>2, <1>3, <1>4, Acts, ActNamed

EntryInv ==
  /\ insights \in Seq(Entry(STRING))
  /\ due \in [Clients -> Entry(STRING) \cup {None}]

LEMMA EntryStep ==
  ASSUME LoopInv, NamedInv, EntryInv, [TelemetryNext]_telemetry
  PROVE  EntryInv'
<1>1. ASSUME NEW c \in Clients, Orchestrator(c)
      PROVE  EntryInv'
  <2>1. CASE AskTool(c) \/ GetStateTool(c) \/ ReportTool(c) \/ AbortTool(c) \/ CallTool(c)
    BY <2>1 DEF AskTool, GetStateTool, ReportTool, AbortTool, CallTool, EntryInv
  <2>2. CASE ReportedTool(c)
    <3>1. work[c] \in Stages
      BY <2>2 DEF ReportedTool, Reported, WriteUpdate, NamedInv, Named
    <3>2. \A new \in Insights(work[c], "completed", 1) : new \in Entry(STRING)
      BY <3>1, TelemetryAssumption DEF Insights, Entry
    <3> QED
      BY <2>2, <3>2 DEF ReportedTool, Due, EntryInv
  <2>3. CASE StageFails(c)
    <3>1. work[c] \in Stages
      BY <2>3 DEF StageFails, LoopInv, NamedInv, Named
    <3>2. \A new \in Insights(work[c], "failed", None) : new \in Entry(STRING)
      BY <3>1, TelemetryAssumption DEF Insights, Entry
    <3> QED
      BY <2>3, <3>2 DEF StageFails, Due, EntryInv
  <2>4. CASE InsightsLog(c)
    <3>1. due[c] \in Entry(STRING)
      BY <2>4 DEF InsightsLog, EntryInv
    <3> QED
      BY <2>4, <3>1 DEF InsightsLog, EntryInv
  <2> QED
    BY <1>1, <2>1, <2>2, <2>3, <2>4 DEF Orchestrator
<1>2. CASE ExecuteTool
  BY <1>2 DEF ExecuteTool, EntryInv
<1>3. CASE Subscriber
  BY <1>3 DEF Subscriber, Subscribe, Disconnect, Hear, Refresh, RefreshByTool, EntryInv
<1>4. CASE UNCHANGED telemetry
  BY <1>4 DEF telemetry, EntryInv
<1> QED
  BY <1>1, <1>2, <1>3, <1>4 DEF TelemetryNext, EntryInv

\* For any number of orchestrators, whatever they log in whatever order, the analytics of
\* the execution are those of its stages together (aggregate_execution, aggregate_stage).
THEOREM AnalyticsStayTrue ==
  ASSUME IsFiniteSet(Stages)
  PROVE  TelemetrySpec => []AnalyticsAddUp
<1>1. TelemetryInit => LoopInv /\ NamedInv /\ EntryInv
  BY LoopInitial DEF TelemetryInit, LoopInit, Init, NamedInv, Named, EntryInv
<1>2. LoopInv /\ NamedInv /\ EntryInv /\ [TelemetryNext]_telemetry
        => LoopInv' /\ NamedInv' /\ EntryInv'
  BY LoopStep, NamedStep, EntryStep
<1>3. LoopInv /\ NamedInv /\ EntryInv => AnalyticsAddUp
  <2> SUFFICES ASSUME EntryInv
               PROVE  AnalyticsAddUp
    OBVIOUS
  <2>1. Logged \in Seq(Entry(InsightType))
    <3>1. \A i \in DOMAIN insights : Logged[i] \in Entry(InsightType)
      <4>1. "agent_output" \in InsightType
        BY DEF InsightType
      <4>2. \A i \in DOMAIN insights : /\ insights[i] \in Entry(STRING)
                                      /\ Logged[i] = [insights[i] EXCEPT !.type = FromStr(@)]
                                      /\ FromStr(insights[i].type) \in InsightType
        BY <4>1 DEF EntryInv, Logged, FromStr
      <4> QED
        BY <4>2 DEF Entry
    <3>2. /\ Len(insights) \in Nat /\ DOMAIN insights = 1 .. Len(insights)
          /\ Logged = [i \in 1 .. Len(insights) |-> Logged[i]]
      BY DEF EntryInv, Logged
    <3> QED
      BY <3>1, <3>2
  <2> QED
    BY <2>1, LogAddsUp DEF AnalyticsAddUp
<1> QED
  BY <1>1, <1>2, <1>3, PTL DEF TelemetrySpec
===============================================================================
