------------------------ MODULE ExecutionServiceProofs ------------------------
(***************************************************************************)
(* Proofs about ExecutionService for every workflow, every set of callers  *)
(* and every interleaving of their calls.                                  *)
(*                                                                         *)
(* The argument behind each invariant is the same.  A caller's copy of the *)
(* record may be stale when it is written back, so nothing relates the     *)
(* copy to the row; but every record ever written is computed from one     *)
(* record that was read.  An invariant of single records is therefore      *)
(* proved of the row and of all copies together (Records).                 *)
(***************************************************************************)
EXTENDS ExecutionService, ExecutionRepositoryProofs

-------------------------------------------------------------------------------
\* Types: what each operator of the state machine returns.

LEMMA CompleteStageType ==
  ASSUME NEW st \in State, NEW s \in StageId, NEW output \in StageStatus
  PROVE  CompleteStage(st, s, output) \in State
BY DEF CompleteStage, State

LEMMA CheckCompletionType ==
  ASSUME NEW st \in State
  PROVE  CheckCompletion(st) \in State
BY StampType DEF CheckCompletion, State, ExecutionStatus

LEMMA MoveToType ==
  ASSUME NEW st \in State, NEW next \in Stages
  PROVE  MoveTo(st, next) \in State
<1>1. next \in StageId
  BY WorkflowAssumption
<1> QED
  BY <1>1 DEF MoveTo, State, StageStatus

-------------------------------------------------------------------------------
\* Fields: what each operator does to the fields the invariants are about.

LEMMA MoveToFields ==
  ASSUME NEW st \in State, NEW next
  PROVE  LET new == MoveTo(st, next) IN
         /\ new.status = st.status /\ new.current = next
         /\ new.completed = st.completed
         /\ new.pending = st.pending \ {next}
         /\ new.statuses = [st.statuses EXCEPT ![next] = "running"]
BY DEF MoveTo, State

LEMMA CheckCompletionFields ==
  ASSUME NEW st \in State
  PROVE  LET new == CheckCompletion(st) IN
         /\ new.status = (IF IsComplete(st) THEN "completed" ELSE st.status)
         /\ new.current = st.current /\ new.completed = st.completed
         /\ new.pending = st.pending /\ new.statuses = st.statuses
BY DEF CheckCompletion, State

-------------------------------------------------------------------------------
\* The invariant that types rest on: a method works on a record it has read,
\* and an execution is never removed.
InFlight ==
  \A c \in Callers :
    /\ pc[c] # "idle" => row # None
    /\ pc[c] \in {"complete", "advance"} => snap[c] # None

TypeInv == TypeOK /\ InFlight

LEMMA TypeInvInductive == TypeInv /\ [Next]_vars => TypeInv'
<1> SUFFICES ASSUME TypeInv, [Next]_vars PROVE TypeInv'
  OBVIOUS
<1> USE DEF TypeInv, TypeOK, InFlight
<1>1. CASE CreateAndStartExecution
  <2>1. PICK first \in Stages : row' = Save(Start(New, first))
    BY <1>1, FirstExecutable DEF CreateAndStartExecution
  <2>2. row' \in State
    BY <2>1, NewType, StartType, SaveType
  <2> QED
    BY <1>1, <2>2, CallerAssumption DEF CreateAndStartExecution
<1>2. ASSUME NEW c \in Callers, NEW method \in {"complete", "advance"}, Load(c, method)
      PROVE  TypeInv'
  <2>1. FindByArn(row) \in State
    BY <1>2, FindByArnType DEF Load
  <2> QED
    BY <1>2, <2>1, CallerAssumption DEF Load
<1>3. ASSUME NEW c \in Callers, NEW s \in StageId, NEW o \in OutputStatus,
             CompleteStageCall(c, s, o)
      PROVE  TypeInv'
  <2>1. snap[c] \in State /\ row \in State /\ o \in StageStatus
    BY <1>3, CallerAssumption DEF CompleteStageCall
  <2>2. row' \in State
    BY <1>3, <2>1, CompleteStageType, CheckCompletionType, UpdateType
      DEF CompleteStageCall
  <2> QED
    BY <1>3, <2>2, CallerAssumption DEF CompleteStageCall, Return
<1>4. ASSUME NEW c \in Callers, AdvanceToNextStage(c)
      PROVE  TypeInv'
  <2>1. snap[c] \in State /\ row \in State
    BY <1>4 DEF AdvanceToNextStage
  <2>2. row' \in State
    BY <1>4, <2>1, FirstExecutable, MoveToType, CheckCompletionType, UpdateType
      DEF AdvanceToNextStage
  <2> QED
    BY <1>4, <2>2, CallerAssumption DEF AdvanceToNextStage, Return
<1>6. ASSUME NEW c \in Callers, CheckAbort(c)
      PROVE  TypeInv'
  BY <1>6 DEF CheckAbort
<1>7. ASSUME NEW c \in Callers, AbortExecution(c)
      PROVE  TypeInv'
  <2>1. row' \in State
    BY <1>7, AbortType DEF AbortExecution
  <2> QED
    BY <1>7, <2>1, CallerAssumption DEF AbortExecution, Return
<1>8. CASE UNCHANGED vars
  BY <1>8 DEF vars
<1> QED
  BY <1>1, <1>2, <1>3, <1>4, <1>6, <1>7, <1>8 DEF Next

\* Every record the service stores, or holds while it works on it, is a
\* well-formed execution (ExecutionState in domain/execution_state.rs).
THEOREM TypeCorrect == Spec => []TypeOK
<1>1. Init => TypeInv
  BY DEF Init, TypeInv, TypeOK, InFlight
<1>2. TypeInv => TypeOK
  BY DEF TypeInv
<1> QED
  BY <1>1, <1>2, TypeInvInductive, PTL DEF Spec

-------------------------------------------------------------------------------
\* Where records come from: each record after a step was there before it, or
\* is computed from one that was.

Created(st) ==
  \E first \in Stages : Deps[first] = {} /\ st = Save(Start(New, first))

Completes(st, r, old) ==
  \E s \in StageId, o \in OutputStatus :
    CanComplete(r, s) /\ st = Update(old, CheckCompletion(CompleteStage(r, s, o)))

Advances(st, r, old) ==
  \/ \E next \in ListExecutable(r) : st = Update(old, MoveTo(r, next))
  \/ st = Update(old, CheckCompletion(r))

Derived(st, r, old) ==
  st \in {r, FindByArn(r), Abort(r)} \/ Completes(st, r, old) \/ Advances(st, r, old)

LEMMA RecordsTyped == TypeInv => Records \subseteq State
BY DEF TypeInv, TypeOK, Records

LEMMA StepRecords ==
  ASSUME TypeInv, [Next]_vars, NEW st \in Records'
  PROVE  Created(st) \/ \E r, old \in Records : Derived(st, r, old)
<1>1. CASE st \in Records
  BY <1>1 DEF Derived
<1> SUFFICES ASSUME st \notin Records
             PROVE  Created(st) \/ \E r, old \in Records : Derived(st, r, old)
  BY <1>1
<1>a. st # None /\ (st = row' \/ \E c \in Callers : st = snap'[c])
  BY DEF Records
<1>b. \A c \in Callers : pc[c] \in {"complete", "advance"} => snap[c] \in Records
  BY DEF TypeInv, TypeOK, InFlight, Records
<1>c. \A c \in Callers : pc[c] # "idle" => row \in Records
  BY DEF TypeInv, InFlight, Records
<1>d. ASSUME NEW c \in Callers, Return(c)
      PROVE  st = row'
  <2>1. \A p \in Callers : snap'[p] \in {snap[p], None}
    BY <1>d DEF Return, TypeInv, TypeOK
  <2> QED
    BY <2>1, <1>a DEF Records
<1>2. CASE CreateAndStartExecution
  <2>1. PICK first \in FindFirstExecutable(New) : row' = Save(Start(New, first))
    BY <1>2 DEF CreateAndStartExecution
  <2>2. st = row'
    BY <1>2, <1>a DEF CreateAndStartExecution, Records
  <2> QED
    BY <2>1, <2>2, FirstExecutable DEF Created
<1>3. ASSUME NEW c \in Callers, NEW method \in {"complete", "advance"}, Load(c, method)
      PROVE  \E r, old \in Records : Derived(st, r, old)
  <2>1. st = FindByArn(row) /\ row \in Records
    BY <1>3, <1>a DEF Load, Records, TypeInv, TypeOK
  <2> QED
    BY <2>1 DEF Derived
<1>4. ASSUME NEW c \in Callers, NEW s \in StageId, NEW o \in OutputStatus,
             CompleteStageCall(c, s, o)
      PROVE  \E r, old \in Records : Derived(st, r, old)
  <2>1. st = row' /\ snap[c] \in Records /\ row \in Records
    BY <1>4, <1>b, <1>c, <1>d DEF CompleteStageCall
  <2>2. Completes(st, snap[c], row)
    BY <1>4, <2>1 DEF CompleteStageCall, Completes
  <2> QED
    BY <2>1, <2>2 DEF Derived
<1>5. ASSUME NEW c \in Callers, AdvanceToNextStage(c)
      PROVE  \E r, old \in Records : Derived(st, r, old)
  <2>1. st = row' /\ snap[c] \in Records /\ row \in Records
    BY <1>5, <1>b, <1>c, <1>d DEF AdvanceToNextStage
  <2>2. Advances(st, snap[c], row)
    BY <1>5, <2>1, FirstExecutable DEF AdvanceToNextStage, Advances
  <2> QED
    BY <2>1, <2>2 DEF Derived
<1>7. ASSUME NEW c \in Callers, CheckAbort(c)
      PROVE  FALSE
  BY <1>7, <1>a DEF CheckAbort, Records
<1>8. ASSUME NEW c \in Callers, AbortExecution(c)
      PROVE  \E r, old \in Records : Derived(st, r, old)
  <2>1. st = Abort(row) /\ row \in Records
    BY <1>8, <1>c, <1>d DEF AbortExecution
  <2> QED
    BY <2>1 DEF Derived
<1>9. CASE UNCHANGED vars
  BY <1>9, <1>a DEF vars, Records
<1> QED
  BY <1>2, <1>3, <1>4, <1>5, <1>7, <1>8, <1>9 DEF Next

-------------------------------------------------------------------------------
\* Dependencies.

DepsHold(st) ==
  \A s \in Stages : s \in st.completed \cup {st.current} => Deps[s] \subseteq st.completed

LEMMA CreatedDeps == ASSUME NEW st, Created(st) PROVE DepsHold(st)
<1>1. PICK first \in Stages : Deps[first] = {} /\ st = Save(Start(New, first))
  BY DEF Created
<1>2. Start(New, first).completed = {} /\ Start(New, first).current = first
  BY DEF Start, New
<1>3. st.completed = {} /\ st.current = first
  BY <1>1, <1>2, NewType, StartType, SaveFields
<1> QED
  BY <1>1, <1>3 DEF DepsHold

LEMMA DerivedDeps ==
  ASSUME NEW r \in State, NEW old \in State, DepsHold(r),
         NEW st, Derived(st, r, old)
  PROVE  DepsHold(st)
<1>1. CASE st \in {r, FindByArn(r), Abort(r)}
  <2>1. st.completed = r.completed /\ st.current = r.current
    BY <1>1, ReadOrAbortedFields
  <2> QED
    BY <2>1 DEF DepsHold
<1>2. ASSUME NEW s \in StageId, NEW o \in OutputStatus, CanComplete(r, s),
             st = Update(old, CheckCompletion(CompleteStage(r, s, o)))
      PROVE  DepsHold(st)
  <2>1. CompleteStage(r, s, o) \in State /\ CheckCompletion(CompleteStage(r, s, o)) \in State
    BY CallerAssumption, CompleteStageType, CheckCompletionType
  <2> DEFINE done == CompleteStage(r, s, o)
  <2> HIDE DEF done
  <2>2. done.completed = r.completed \cup {s} /\ done.current \in {r.current, None}
    BY DEF done, CompleteStage, State
  <2>3. st.completed = done.completed /\ st.current = done.current
    BY <1>2, <2>1, CheckCompletionFields, UpdateFields DEF done
  <2>4. s \in r.completed \cup {r.current}
    BY <1>2 DEF CanComplete
  <2> QED
    BY <2>2, <2>3, <2>4, NoneAssumption, WorkflowAssumption DEF DepsHold
<1>3. CASE st = Update(old, CheckCompletion(r))
  <2>1. st.completed = r.completed /\ st.current = r.current
    BY <1>3, CheckCompletionType, CheckCompletionFields, UpdateFields
  <2> QED
    BY <2>1 DEF DepsHold
<1>4. ASSUME NEW next \in ListExecutable(r), st = Update(old, MoveTo(r, next))
      PROVE  DepsHold(st)
  <2>1. next \in Stages /\ Deps[next] \subseteq r.completed
    BY DEF ListExecutable, CanExecute
  <2>2. MoveTo(r, next) \in State
    BY <2>1, MoveToType
  <2>3. MoveTo(r, next).completed = r.completed /\ MoveTo(r, next).current = next
    BY MoveToFields
  <2>4. st.completed = r.completed /\ st.current = next
    BY <1>4, <2>2, <2>3, UpdateFields
  <2> QED
    BY <2>1, <2>4 DEF DepsHold
<1> QED
  BY <1>1, <1>2, <1>3, <1>4 DEF Derived, Completes, Advances

\* No stage completes, or runs, before everything it depends on is recorded as
\* completed: for every workflow, with either repository, whatever calls
\* interleave (the dependency test of check_stage_executable).
THEOREM DependenciesRespected == Spec => []DependenciesHold
<1>1. DependenciesHold <=> \A st \in Records : DepsHold(st)
  BY DEF DependenciesHold, DepsHold
<1>2. Init => TypeInv /\ DependenciesHold
  BY <1>1 DEF Init, TypeInv, TypeOK, InFlight, Records
<1>3. TypeInv /\ DependenciesHold /\ [Next]_vars => TypeInv' /\ DependenciesHold'
  <2> SUFFICES ASSUME TypeInv, DependenciesHold, [Next]_vars, NEW st \in Records'
               PROVE  DepsHold(st)
    BY TypeInvInductive DEF DependenciesHold, DepsHold
  <2>1. CASE Created(st)
    BY <2>1, CreatedDeps
  <2>2. ASSUME NEW r \in Records, NEW old \in Records, Derived(st, r, old)
        PROVE  DepsHold(st)
    BY <2>2, <1>1, RecordsTyped, DerivedDeps
  <2> QED
    BY <2>1, <2>2, StepRecords
<1> QED
  BY <1>2, <1>3, PTL DEF Spec

-------------------------------------------------------------------------------
\* The pending stages, in the repository that stores them.

Accounted(st) ==
  /\ \A s \in Stages :
       s \in st.pending <=> ~(s \in st.completed \/ st.statuses[s] = "running")
  /\ st.current \notin st.pending

LEMMA CreatedAccounted ==
  ASSUME ~Adapter, NEW st, Created(st) PROVE Accounted(st)
<1>1. PICK first \in Stages : st = Start(New, first)
  BY DEF Created, Save
<1>2. /\ st.completed = {} /\ st.current = first /\ st.pending = Stages \ {first}
      /\ st.statuses = [NoEntries EXCEPT ![first] = "running"]
  BY <1>1 DEF Start, New
<1>3. \A s \in Stages : s \in StageId /\ NoEntries[s] = None /\ None # "running"
  BY NoneAssumption, WorkflowAssumption DEF NoEntries, StageStatus
<1>4. ASSUME NEW s \in Stages PROVE st.statuses[s] = "running" <=> s = first
  BY <1>2, <1>3 DEF NoEntries
<1> QED
  BY <1>2, <1>4 DEF Accounted

LEMMA DerivedAccounted ==
  ASSUME ~Adapter, NEW r \in State, NEW old \in State, Accounted(r),
         NEW st, Derived(st, r, old)
  PROVE  Accounted(st)
<1>0. None \notin StageId /\ Stages \subseteq StageId /\ None \notin r.pending
  BY NoneAssumption, WorkflowAssumption DEF State
<1>1. CASE st \in {r, FindByArn(r), Abort(r)}
  <2>1. /\ st.current = r.current /\ st.completed = r.completed
        /\ st.pending = r.pending /\ st.statuses = r.statuses
    BY <1>1, ReadOrAbortedFields
  <2> QED
    BY <2>1 DEF Accounted
<1>2. ASSUME NEW s \in StageId, NEW o \in OutputStatus, CanComplete(r, s),
             st = Update(old, CheckCompletion(CompleteStage(r, s, o)))
      PROVE  Accounted(st)
  <2> DEFINE done == CompleteStage(r, s, o)
  <2>1. done \in State
    BY CallerAssumption, CompleteStageType
  <2>2. /\ done.completed = r.completed \cup {s} /\ done.pending = r.pending
        /\ done.current = (IF r.current = s THEN None ELSE r.current)
        /\ done.statuses = [r.statuses EXCEPT ![s] = o]
    BY DEF CompleteStage, State
  <2> HIDE DEF done
  <2>3. /\ st.completed = done.completed /\ st.pending = done.pending
        /\ st.current = done.current /\ st.statuses = done.statuses
    BY <1>2, <2>1, CheckCompletionType, CheckCompletionFields, UpdateFields DEF done
  <2>4. s \in r.completed \/ s = r.current
    BY <1>2 DEF CanComplete
  <2>5. ASSUME NEW t \in Stages
        PROVE  t \in st.pending <=> ~(t \in st.completed \/ st.statuses[t] = "running")
    <3>1. CASE t = s
      BY <2>2, <2>3, <2>4, <3>1 DEF Accounted
    <3>2. CASE t # s
      BY <1>0, <2>2, <2>3, <3>2 DEF Accounted, State
    <3> QED
      BY <3>1, <3>2
  <2>6. st.current \notin st.pending
    BY <1>0, <2>2, <2>3 DEF Accounted
  <2> QED
    BY <2>5, <2>6 DEF Accounted
<1>3. CASE st = Update(old, CheckCompletion(r))
  <2>1. /\ st.current = r.current /\ st.completed = r.completed
        /\ st.pending = r.pending /\ st.statuses = r.statuses
    BY <1>3, CheckCompletionType, CheckCompletionFields, UpdateFields
  <2> QED
    BY <2>1 DEF Accounted
<1>4. ASSUME NEW next \in ListExecutable(r), st = Update(old, MoveTo(r, next))
      PROVE  Accounted(st)
  <2>1. next \in Stages
    BY DEF ListExecutable
  <2> DEFINE moved == MoveTo(r, next)
  <2>2. /\ moved \in State /\ moved.completed = r.completed /\ moved.current = next
        /\ moved.pending = r.pending \ {next}
        /\ moved.statuses = [r.statuses EXCEPT ![next] = "running"]
    BY <2>1, MoveToType, MoveToFields
  <2> HIDE DEF moved
  <2>3. /\ st.completed = moved.completed /\ st.current = moved.current
        /\ st.pending = moved.pending /\ st.statuses = moved.statuses
    BY <1>4, <2>2, UpdateFields DEF moved
  <2>4. ASSUME NEW t \in Stages
        PROVE  t \in st.pending <=> ~(t \in st.completed \/ st.statuses[t] = "running")
    BY <1>0, <2>1, <2>2, <2>3 DEF Accounted, State
  <2> QED
    BY <2>2, <2>3, <2>4 DEF Accounted
<1> QED
  BY <1>1, <1>2, <1>3, <1>4 DEF Derived, Completes, Advances

\* The pending stages are those that were neither handed out nor completed, for
\* any callers, calls in any order and however stale the records written back
\* are (start, complete_stage and advance_to_next_stage).
THEOREM NoStageLost ==
  ASSUME ~Adapter
  PROVE  Spec => []StagesAccountedFor
<1> DEFINE Inv == TypeInv /\ \A st \in Records : Accounted(st)
<1>1. Init => Inv
  BY DEF Init, TypeInv, TypeOK, InFlight, Records
<1>2. Inv /\ [Next]_vars => Inv'
  <2> SUFFICES ASSUME TypeInv, \A r \in Records : Accounted(r), [Next]_vars,
                      NEW st \in Records'
               PROVE  Accounted(st)
    BY TypeInvInductive DEF Accounted
  <2>1. CASE Created(st)
    BY <2>1, CreatedAccounted
  <2>2. ASSUME NEW r \in Records, NEW old \in Records, Derived(st, r, old)
        PROVE  Accounted(st)
    BY <2>2, RecordsTyped, DerivedAccounted
  <2> QED
    BY <2>1, <2>2, StepRecords
<1>3. Inv => StagesAccountedFor
  BY DEF Accounted, StagesAccountedFor
<1> QED
  BY <1>1, <1>2, <1>3, PTL DEF Spec

-------------------------------------------------------------------------------
\* One caller.  Nobody writes between its read and its write, so what it holds is
\* what is stored; now the records of one execution can be compared over time.

HeldIsStored ==
  \A c \in Callers : pc[c] \in {"complete", "advance"} => snap[c] = FindByArn(row)

LEMMA HeldIsStoredInductive ==
  ASSUME NEW p, Callers = {p}
  PROVE  TypeInv /\ HeldIsStored /\ [Next]_vars => HeldIsStored'
<1> SUFFICES ASSUME TypeInv, HeldIsStored, [Next]_vars
             PROVE  pc'[p] \in {"complete", "advance"} => snap'[p] = FindByArn(row')
  BY DEF HeldIsStored, FindByArn, ToDomain
<1> USE DEF TypeInv, TypeOK, InFlight, HeldIsStored
<1>1. CASE CreateAndStartExecution
  BY <1>1 DEF CreateAndStartExecution
<1>2. ASSUME NEW method \in {"complete", "advance"}, Load(p, method)
      PROVE  snap'[p] = FindByArn(row')
  BY <1>2 DEF Load
<1>3. ASSUME Return(p)
      PROVE  pc'[p] = "idle"
  BY <1>3 DEF Return
<1>4. CASE CheckAbort(p)
  BY <1>4 DEF CheckAbort
<1>5. CASE UNCHANGED vars
  BY <1>5 DEF vars
<1> QED
  BY <1>1, <1>2, <1>3, <1>4, <1>5
    DEF Next, CompleteStageCall, AdvanceToNextStage, AbortExecution

\* A recorded stage is lost only to a caller that had read the record before: for any
\* callers and either repository (complete_stage and advance_to_next_stage write back
\* what they have read, and more stages, never fewer).
THEOREM StagesKept == Spec => CompletedStagesKept
<1> DEFINE Kept ==
      row # None =>
        \A s \in row.completed \ row'.completed :
          \E c \in Callers : /\ pc[c] \in {"complete", "advance"} /\ pc'[c] = "idle"
                            /\ s \notin snap[c].completed
<1>1. Init => TypeInv
  BY DEF Init, TypeInv, TypeOK, InFlight
<1>2. TypeInv /\ [Next]_vars => Kept
  <2> SUFFICES ASSUME TypeInv, [Next]_vars, row # None PROVE Kept
    OBVIOUS
  <2>0. row \in State
    BY DEF TypeInv, TypeOK
  <2>1. ASSUME NEW c \in Callers, pc[c] \in {"complete", "advance"}, Return(c),
               row' # row, snap[c].completed \subseteq row'.completed
        PROVE  Kept
    <3>1. pc'[c] = "idle"
      BY <2>1 DEF Return, TypeInv, TypeOK
    <3> QED
      BY <2>1, <3>1
  <2>2. \A c \in Callers : pc[c] \in {"complete", "advance"} => snap[c] \in State
    BY DEF TypeInv, TypeOK, InFlight
  <2>3. ASSUME NEW c \in Callers, NEW s \in StageId, NEW o \in OutputStatus,
               CompleteStageCall(c, s, o)
        PROVE  Kept
    <3> DEFINE held == snap[c]
               done == CompleteStage(held, s, o)
    <3>1. held \in State
      BY <2>2, <2>3 DEF CompleteStageCall
    <3> HIDE DEF held
    <3>2. done \in State
      BY <3>1, CallerAssumption, CompleteStageType
    <3>3. held.completed \subseteq done.completed
      BY <3>1 DEF CompleteStage, State
    <3>4. row' \in {row, Update(row, CheckCompletion(done))}
      BY <2>3 DEF CompleteStageCall, held
    <3> HIDE DEF done
    <3>5. Update(row, CheckCompletion(done)).completed = done.completed
      BY <3>2, CheckCompletionType, CheckCompletionFields, UpdateFields
    <3>6. CASE row' = row
      BY <3>6
    <3>7. CASE row' # row
      <4>1. pc[c] \in {"complete", "advance"} /\ Return(c)
        BY <2>3 DEF CompleteStageCall
      <4>2. snap[c].completed \subseteq row'.completed
        BY <3>3, <3>4, <3>5, <3>7 DEF held
      <4> QED
        BY <2>1, <3>7, <4>1, <4>2
    <3> QED
      BY <3>6, <3>7
  <2>4. ASSUME NEW c \in Callers, AdvanceToNextStage(c)
        PROVE  Kept
    <3> DEFINE held == snap[c]
    <3>1. held \in State
      BY <2>2, <2>4 DEF AdvanceToNextStage
    <3>2. \/ row' = Update(row, CheckCompletion(held))
          \/ \E next \in FindNextStage(held) : row' = Update(row, MoveTo(held, next))
      BY <2>4 DEF AdvanceToNextStage
    <3> HIDE DEF held
    <3>3. Update(row, CheckCompletion(held)).completed = held.completed
      BY <3>1, CheckCompletionType, CheckCompletionFields, UpdateFields
    <3>4. ASSUME NEW next \in FindNextStage(held)
          PROVE  Update(row, MoveTo(held, next)).completed = held.completed
      <4>1. next \in Stages
        BY FirstExecutable
      <4>2. MoveTo(held, next) \in State /\ MoveTo(held, next).completed = held.completed
        BY <4>1, <3>1, MoveToType, MoveToFields
      <4> QED
        BY <4>2, UpdateFields
    <3>5. held.completed = row'.completed
      BY <3>2, <3>3, <3>4
    <3>6. CASE row' = row
      BY <3>6
    <3>7. CASE row' # row
      <4>1. pc[c] \in {"complete", "advance"} /\ Return(c)
        BY <2>4 DEF AdvanceToNextStage
      <4>2. snap[c].completed \subseteq row'.completed
        BY <3>5 DEF held
      <4> QED
        BY <2>1, <3>7, <4>1, <4>2
    <3> QED
      BY <3>6, <3>7
  <2>5. ASSUME NEW c \in Callers, AbortExecution(c)
        PROVE  Kept
    BY <2>0, <2>5 DEF AbortExecution, Abort, State
  <2>6. CASE row' = row
    BY <2>6
  <2> QED
    BY <2>3, <2>4, <2>5, <2>6
      DEF Next, CreateAndStartExecution, Load, CheckAbort, vars
<1>3. TypeInv /\ [Next]_vars => [Kept]_vars
  BY <1>2
<1> QED
  BY <1>1, <1>3, TypeInvInductive, PTL DEF Spec, CompletedStagesKept

\* What the one caller does to an execution that is there.
LEMMA SingleStep ==
  ASSUME NEW p, Callers = {p}, TypeInv, HeldIsStored, [Next]_vars, row # None
  PROVE  LET held == FindByArn(row) IN
         \/ row' = row
         \/ \E s \in StageId, o \in OutputStatus :
              /\ CanComplete(held, s)
              /\ row' = Update(row, CheckCompletion(CompleteStage(held, s, o)))
         \/ \E next \in Stages : row' = Update(row, MoveTo(held, next))
         \/ row' = Update(row, CheckCompletion(held))
         \/ pc[p] = "abort" /\ row' = Abort(row)
<1> DEFINE held == FindByArn(row)
           Completing == \E s \in StageId, o \in OutputStatus :
                           /\ CanComplete(held, s)
                           /\ row' = Update(row, CheckCompletion(CompleteStage(held, s, o)))
           Advancing == \/ \E next \in Stages : row' = Update(row, MoveTo(held, next))
                        \/ row' = Update(row, CheckCompletion(held))
<1> SUFFICES ASSUME Next, row' # row
             PROVE  Completing \/ Advancing \/ (pc[p] = "abort" /\ row' = Abort(row))
  BY DEF vars
<1>1. ASSUME NEW s \in StageId, NEW o \in OutputStatus, CompleteStageCall(p, s, o)
      PROVE  Completing
  <2>1. snap[p] = held
    BY <1>1 DEF CompleteStageCall, HeldIsStored
  <2> HIDE DEF held
  <2> QED
    BY <1>1, <2>1 DEF CompleteStageCall
<1>2. ASSUME AdvanceToNextStage(p)
      PROVE  Advancing
  <2>1. snap[p] = held
    BY <1>2 DEF AdvanceToNextStage, HeldIsStored
  <2> HIDE DEF held
  <2> QED
    BY <1>2, <2>1, FirstExecutable DEF AdvanceToNextStage
<1>3. CASE AbortExecution(p)
  BY <1>3 DEF AbortExecution
<1> HIDE DEF Completing, Advancing
<1> QED
  BY <1>1, <1>2, <1>3 DEF Next, CreateAndStartExecution, Load, CheckAbort

\* A stored execution is running, completed or aborted; and one that a method would
\* find complete is completed already.
Lives(st) ==
  /\ st.status \in {"running", "completed", "aborted"}
  /\ st.current \in Stages \cup {None}
  /\ IsComplete(FindByArn(st)) => st.status = "completed"

\* The execution still runs when the one caller comes to abort it.
LifeInv ==
  /\ row # None => Lives(row)
  /\ \A c \in Callers : pc[c] = "abort" => row.status = "running"

SingleInv == TypeInv /\ HeldIsStored /\ LifeInv

LEMMA HeldFields ==
  ASSUME NEW st \in State
  PROVE  LET held == FindByArn(st) IN
         /\ held \in State
         /\ held.status = st.status /\ held.current = st.current
         /\ held.completed = st.completed
         /\ Adapter => held.pending = {}
<1>1. FindByArn(st) \in State
  BY FindByArnType
<1> QED
  BY <1>1 DEF FindByArn, ToDomain, State

LEMMA StoredCompletion ==
  ASSUME NEW st \in State, NEW old \in State, Adapter => st.pending = {}
  PROVE  IsComplete(FindByArn(Update(old, st))) <=> IsComplete(st)
<1> DEFINE new == Update(old, st)
<1>1. new \in State /\ new.current = st.current /\ (~Adapter => new.pending = st.pending)
  BY UpdateType, UpdateFields
<1> HIDE DEF new
<1> DEFINE held == FindByArn(new)
<1>2. held.current = new.current /\ (Adapter => held.pending = {})
  BY <1>1, HeldFields
<1>3. ~Adapter => held = new
  BY DEF FindByArn
<1> HIDE DEF held
<1>4. IsComplete(held) <=> IsComplete(st)
  BY <1>1, <1>2, <1>3 DEF IsComplete
<1> QED
  BY <1>4 DEF held, new

\* check_completion of what was read, written back.
LEMMA CheckedLives ==
  ASSUME NEW st \in State, NEW old \in State, Adapter => st.pending = {},
         st.status \in {"running", "completed", "aborted"},
         st.current \in Stages \cup {None}
  PROVE  LET new == Update(old, CheckCompletion(st)) IN
         /\ Lives(new) /\ new.completed = st.completed
         /\ new.status = (IF IsComplete(st) THEN "completed" ELSE st.status)
<1> DEFINE checked == CheckCompletion(st)
<1>1. /\ checked \in State /\ checked.current = st.current
      /\ checked.completed = st.completed /\ checked.pending = st.pending
      /\ checked.status = (IF IsComplete(st) THEN "completed" ELSE st.status)
  BY CheckCompletionType, CheckCompletionFields
<1> HIDE DEF checked
<1> DEFINE new == Update(old, checked)
<1>2. /\ new.status = checked.status /\ new.current = checked.current
      /\ new.completed = checked.completed
  BY <1>1, UpdateFields
<1>3. IsComplete(FindByArn(new)) <=> IsComplete(checked)
  BY <1>1, StoredCompletion
<1>4. IsComplete(checked) <=> IsComplete(st)
  BY <1>1 DEF IsComplete
<1> HIDE DEF new
<1>5. Lives(new)
  BY <1>1, <1>2, <1>3, <1>4 DEF Lives
<1> QED
  BY <1>1, <1>2, <1>5 DEF new, checked

LEMMA CompleteStageLives ==
  ASSUME NEW st \in State, Lives(st), NEW s \in StageId, NEW o \in OutputStatus,
         CanComplete(FindByArn(st), s)
  PROVE  LET new == Update(st, CheckCompletion(CompleteStage(FindByArn(st), s, o))) IN
         /\ Lives(new) /\ st.status = "running" /\ new.status \in {"running", "completed"}
         /\ new.completed \in {st.completed} \cup {st.completed \cup {t} : t \in Stages}
<1> DEFINE held == FindByArn(st)
<1>1. /\ held \in State /\ held.status = st.status /\ held.current = st.current
      /\ held.completed = st.completed /\ (Adapter => held.pending = {})
  BY HeldFields
<1>2. CanComplete(held, s)
  OBVIOUS
<1> HIDE DEF held
<1> DEFINE done == CompleteStage(held, s, o)
<1>3. done \in State
  BY <1>1, CallerAssumption, CompleteStageType
<1>4. /\ done.completed = held.completed \cup {s} /\ done.status = held.status
      /\ done.current \in {held.current, None} /\ done.pending = held.pending
  BY <1>1 DEF CompleteStage, State
<1>5. st.status = "running" /\ (s \in st.completed \/ s \in Stages)
  BY <1>1, <1>2, NoneAssumption DEF CanComplete, Lives
<1> HIDE DEF done
<1> DEFINE new == Update(st, CheckCompletion(done))
<1>6. /\ Lives(new) /\ new.completed = done.completed
      /\ new.status = (IF IsComplete(done) THEN "completed" ELSE done.status)
  BY <1>1, <1>3, <1>4, <1>5, CheckedLives DEF Lives
<1> HIDE DEF new
<1>7. /\ new.status \in {"running", "completed"}
      /\ new.completed \in {st.completed} \cup {st.completed \cup {t} : t \in Stages}
  BY <1>1, <1>4, <1>5, <1>6
<1> QED
  BY <1>5, <1>6, <1>7 DEF new, done, held

LEMMA AdvanceLives ==
  ASSUME NEW st \in State, Lives(st), NEW new,
         \/ \E next \in Stages : new = Update(st, MoveTo(FindByArn(st), next))
         \/ new = Update(st, CheckCompletion(FindByArn(st)))
  PROVE  Lives(new) /\ new.status = st.status /\ new.completed = st.completed
<1> DEFINE held == FindByArn(st)
<1>1. /\ held \in State /\ held.status = st.status /\ held.current = st.current
      /\ held.completed = st.completed /\ (Adapter => held.pending = {})
  BY HeldFields
<1>2. IsComplete(held) => st.status = "completed"
  BY DEF Lives
<1>3. \/ \E next \in Stages : new = Update(st, MoveTo(held, next))
      \/ new = Update(st, CheckCompletion(held))
  OBVIOUS
<1> HIDE DEF held
<1>4. ASSUME NEW next \in Stages, new = Update(st, MoveTo(held, next))
      PROVE  Lives(new) /\ new.status = st.status /\ new.completed = st.completed
  <2> DEFINE moved == MoveTo(held, next)
  <2>1. /\ moved \in State /\ moved.status = st.status
        /\ moved.current = next /\ moved.completed = st.completed
        /\ moved.pending = held.pending \ {next}
    BY <1>1, MoveToType, MoveToFields
  <2>2. new = Update(st, moved)
    BY <1>4
  <2> HIDE DEF moved
  <2>3. /\ new.status = st.status /\ new.current = next
        /\ new.completed = st.completed
    BY <2>1, <2>2, UpdateFields
  <2>4. Adapter => moved.pending = {}
    BY <1>1, <2>1
  <2>5. IsComplete(FindByArn(new)) <=> IsComplete(moved)
    BY <2>1, <2>2, <2>4, StoredCompletion
  <2>6. ~IsComplete(moved)
    BY <2>1, NoneAssumption, WorkflowAssumption DEF IsComplete
  <2> QED
    BY <2>3, <2>5, <2>6 DEF Lives
<1>5. ASSUME new = Update(st, CheckCompletion(held))
      PROVE  Lives(new) /\ new.status = st.status /\ new.completed = st.completed
  <2>1. /\ Lives(new) /\ new.completed = held.completed
        /\ new.status = (IF IsComplete(held) THEN "completed" ELSE held.status)
    BY <1>1, <1>5, CheckedLives DEF Lives
  <2> QED
    BY <1>1, <1>2, <2>1
<1> QED
  BY <1>3, <1>4, <1>5

LEMMA AbortLives ==
  ASSUME NEW st \in State, Lives(st), st.status = "running"
  PROVE  /\ Lives(Abort(st)) /\ Abort(st).completed = st.completed
         /\ Abort(st).status \in {"running", "aborted"}
<1>1. CASE ~Adapter
  BY <1>1 DEF Abort
<1>2. CASE Adapter
  <2> DEFINE new == Abort(st)
  <2>1. /\ new \in State /\ new.status = "aborted" /\ new.current = st.current
        /\ new.completed = st.completed
    BY <1>2, AbortType DEF Abort, State
  <2> HIDE DEF new
  <2>2. /\ FindByArn(new).current = st.current /\ FindByArn(st).current = st.current
        /\ FindByArn(new).pending = {} /\ FindByArn(st).pending = {}
    BY <1>2, <2>1, HeldFields
  <2>3. ~IsComplete(FindByArn(new))
    BY <2>2 DEF Lives, IsComplete
  <2>4. Lives(new)
    BY <2>1, <2>3 DEF Lives
  <2> QED
    BY <2>1, <2>4 DEF new
<1> QED
  BY <1>1, <1>2

LEMMA CreatedLives ==
  ASSUME NEW first \in Stages
  PROVE  LET new == Save(Start(New, first)) IN
         Lives(new) /\ new.status = "running" /\ new.completed = {}
<1> DEFINE begun == Start(New, first)
           new == Save(begun)
<1>1. begun.status = "running" /\ begun.completed = {} /\ begun.current = first
  BY DEF Start, New
<1>2. begun \in State
  BY NewType, StartType
<1> HIDE DEF begun
<1>3. /\ new \in State /\ new.status = "running" /\ new.completed = {}
      /\ new.current = first
  BY <1>1, <1>2, SaveType, SaveFields
<1> HIDE DEF new
<1>4. FindByArn(new).current = first /\ first # None
  BY <1>3, HeldFields, NoneAssumption, WorkflowAssumption
<1>5. Lives(new)
  BY <1>3, <1>4 DEF Lives, IsComplete
<1> QED
  BY <1>3, <1>5 DEF new, begun

\* Only create_and_start_execution brings an execution about.
LEMMA CreationStep ==
  ASSUME TypeInv, [Next]_vars, row = None, row' # None
  PROVE  \E first \in Stages : row' = Save(Start(New, first))
BY FirstExecutable
  DEF Next, CreateAndStartExecution, Load, CompleteStageCall, AdvanceToNextStage,
      CheckAbort, AbortExecution, vars, TypeInv, InFlight

LEMMA SingleInvInductive ==
  ASSUME NEW p, Callers = {p}
  PROVE  /\ Init => SingleInv
         /\ SingleInv /\ [Next]_vars => SingleInv'
<1>1. Init => SingleInv
  BY DEF Init, SingleInv, TypeInv, TypeOK, InFlight, HeldIsStored, LifeInv
<1>2. ASSUME SingleInv, [Next]_vars
      PROVE  SingleInv'
  <2>1. TypeInv' /\ HeldIsStored' /\ TypeInv
    BY <1>2, TypeInvInductive, HeldIsStoredInductive DEF SingleInv
  <2>2. row # None => row \in State /\ Lives(row)
    BY <1>2, <2>1 DEF SingleInv, LifeInv, TypeInv, TypeOK
  <2>3. row' # None => Lives(row')
    <3>1. CASE row = None /\ row' # None
      BY <1>2, <2>1, <3>1, CreationStep, CreatedLives
    <3>2. CASE row # None
      <4>1. pc[p] = "abort" => Lives(Abort(row))
        BY <1>2, <2>2, <3>2, AbortLives DEF SingleInv, LifeInv
      <4>2. \A s \in StageId, o \in OutputStatus : CanComplete(FindByArn(row), s) =>
              Lives(Update(row, CheckCompletion(CompleteStage(FindByArn(row), s, o))))
        BY <2>2, <3>2, CompleteStageLives
      <4>3. \A next \in Stages : Lives(Update(row, MoveTo(FindByArn(row), next)))
        BY <2>2, <3>2, AdvanceLives
      <4>4. Lives(Update(row, CheckCompletion(FindByArn(row))))
        BY <2>2, <3>2, AdvanceLives
      <4> QED
        BY <1>2, <2>1, <2>2, <3>2, <4>1, <4>2, <4>3, <4>4, SingleStep DEF SingleInv
    <3> QED
      BY <3>1, <3>2
  <2>4. pc'[p] = "abort" => row'.status = "running"
    <3>1. CASE CheckAbort(p)
      BY <2>2, <3>1 DEF CheckAbort, Lives
    <3>2. CASE UNCHANGED vars
      BY <1>2, <3>2 DEF vars, SingleInv, LifeInv
    <3>3. CASE CreateAndStartExecution
      BY <1>2, <2>1, <3>3 DEF CreateAndStartExecution, TypeInv, InFlight
    <3>4. ASSUME NEW method \in {"complete", "advance"}, Load(p, method)
          PROVE  pc'[p] = method
      BY <2>1, <3>4 DEF Load, TypeInv, TypeOK
    <3>5. ASSUME Return(p)
          PROVE  pc'[p] = "idle"
      BY <2>1, <3>5 DEF Return, TypeInv, TypeOK
    <3> QED
      BY <1>2, <3>1, <3>2, <3>3, <3>4, <3>5
        DEF Next, CompleteStageCall, AdvanceToNextStage, AbortExecution
  <2> QED
    BY <2>1, <2>3, <2>4 DEF SingleInv, LifeInv, Lives
<1> QED
  BY <1>1, <1>2

\* For one caller, any workflow, either repository and the methods in any order, each
\* step of the service is a step of the lifecycle, without its promise that all stages
\* are done at the end, or changes neither status nor completed stages.
THEOREM ServiceImplementsLifecycle ==
  ASSUME NEW p, Callers = {p}
  PROVE  Spec => LifecycleSpec
<1> DEFINE status == IF row = None THEN "none" ELSE row.status
           done == IF row = None THEN {} ELSE row.completed
<1>1. Init => SingleInv
  BY SingleInvInductive
<1>2. SingleInv /\ [Next]_vars => SingleInv'
  BY SingleInvInductive
<1>3. Init => ADR!Init
  BY DEF Init, ADR!Init
<1>4. SingleInv /\ SingleInv' /\ [Next]_vars => [ADR!Next \/ ADR!Ends]_<<status, done>>
  <2> SUFFICES ASSUME SingleInv, SingleInv', [Next]_vars
               PROVE  ADR!Next \/ ADR!Ends \/ UNCHANGED <<status, done>>
    OBVIOUS
  <2>1. /\ TypeInv /\ HeldIsStored
        /\ row # None => row \in State /\ Lives(row)
    BY DEF SingleInv, LifeInv, TypeInv, TypeOK
  <2>2. CASE row = None
    <3>1. CASE row' = None
      BY <2>2, <3>1
    <3>2. CASE row' # None
      <4>1. row'.status = "running" /\ row'.completed = {}
        BY <2>1, <2>2, <3>2, CreationStep, CreatedLives
      <4> QED
        BY <2>2, <3>2, <4>1 DEF ADR!Next, ADR!Execute
    <3> QED
      BY <3>1, <3>2
  <2>3. CASE row # None
    <3> DEFINE held == FindByArn(row)
    <3>0. row' # None
      <4>1. held \in State
        BY <2>1, <2>3, FindByArnType
      <4> HIDE DEF held
      <4>2. \A s \in StageId, o \in OutputStatus :
              Update(row, CheckCompletion(CompleteStage(held, s, o))) \in State
        BY <2>1, <2>3, <4>1, CompleteStageType, CheckCompletionType, UpdateType,
           CallerAssumption
      <4>3. \A next \in Stages : Update(row, MoveTo(held, next)) \in State
        BY <2>1, <2>3, <4>1, MoveToType, UpdateType
      <4>4. Update(row, CheckCompletion(held)) \in State /\ Abort(row) \in State
        BY <2>1, <2>3, <4>1, CheckCompletionType, UpdateType, AbortType
      <4> QED
        BY <2>1, <2>3, <4>2, <4>3, <4>4, SingleStep, CallerAssumption DEF held
    <3>1. ASSUME NEW s \in StageId, NEW o \in OutputStatus, CanComplete(held, s),
                 row' = Update(row, CheckCompletion(CompleteStage(held, s, o)))
          PROVE  ADR!Next \/ ADR!Ends \/ UNCHANGED <<status, done>>
      <4>1. /\ row.status = "running" /\ row'.status \in {"running", "completed"}
            /\ row'.completed \in {row.completed} \cup {row.completed \cup {t} : t \in Stages}
        BY <2>1, <2>3, <3>1, CompleteStageLives
      <4> QED
        BY <2>3, <3>0, <4>1 DEF ADR!Next, ADR!StageCompletes, ADR!Ends
    <3>2. ASSUME \/ \E next \in Stages : row' = Update(row, MoveTo(held, next))
                 \/ row' = Update(row, CheckCompletion(held))
          PROVE  UNCHANGED <<status, done>>
      <4>1. row'.status = row.status /\ row'.completed = row.completed
        BY <2>1, <2>3, <3>2, AdvanceLives
      <4> QED
        BY <2>3, <3>0, <4>1
    <3>3. ASSUME pc[p] = "abort", row' = Abort(row)
          PROVE  ADR!Next \/ UNCHANGED <<status, done>>
      <4>1. row.status = "running"
        BY <3>3 DEF SingleInv, LifeInv
      <4>2. row'.status \in {"running", "aborted"} /\ row'.completed = row.completed
        BY <2>1, <2>3, <3>3, <4>1, AbortLives
      <4> QED
        BY <2>3, <3>0, <4>1, <4>2 DEF ADR!Next, ADR!Aborts
    <3>4. CASE row' = row
      BY <3>4
    <3> HIDE DEF status, done
    <3> QED
      BY <2>1, <2>3, <3>1, <3>2, <3>3, <3>4, SingleStep
  <2> QED
    BY <2>2, <2>3
<1> QED
  BY <1>1, <1>2, <1>3, <1>4, PTL DEF Spec, LifecycleSpec, ADR!ForwardSpec
===============================================================================
