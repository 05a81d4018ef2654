----------------------- MODULE ExecutionRepositoryProofs -----------------------
(***************************************************************************)
(* What the operators of the execution record and of its repository        *)
(* return: the lemmas that the proofs about the service, the server and    *)
(* the agents have in common.                                              *)
(***************************************************************************)
EXTENDS ExecutionRepository, TLAPS

-------------------------------------------------------------------------------
\* Types.

LEMMA NewType == New \in State
BY WorkflowAssumption DEF New, State, NoEntries, ExecutionStatus

LEMMA StartType ==
  ASSUME NEW st \in State, NEW first \in Stages
  PROVE  Start(st, first) \in State
<1>1. first \in StageId
  BY WorkflowAssumption
<1> QED
  BY <1>1 DEF Start, State, ExecutionStatus, StageStatus

LEMMA RowTypes ==
  ASSUME NEW st \in State
  PROVE  FromDomain(st) \in State /\ ToDomain(st) \in State
<1>1. \A S : OutputsOf(S, st) \in [StageId -> StageStatus \cup {None}]
  BY DEF OutputsOf, InferStatus, StageStatus
<1>2. [s \in StageId |-> IF st.outputs[s] = None THEN None ELSE "pending"]
        \in [StageId -> StageStatus \cup {None}]
  BY DEF StageStatus
<1>3. NoEntries \in [StageId -> StageStatus \cup {None}]
  BY DEF NoEntries
<1>4. FromDomain(st) \in State
  BY <1>2, <1>3 DEF FromDomain, State
<1>5. ToDomain(st) \in State
  BY <1>1, <1>3 DEF ToDomain, State
<1> QED
  BY <1>4, <1>5

LEMMA FindByArnType ==
  ASSUME NEW st \in State
  PROVE  FindByArn(st) \in State
BY RowTypes DEF FindByArn

LEMMA SaveType ==
  ASSUME NEW st \in State
  PROVE  Save(st) \in State
BY RowTypes DEF Save

LEMMA UpdateType ==
  ASSUME NEW st \in State, NEW old \in State
  PROVE  Update(old, st) \in State
<1>1. FromDomain(st) \in State
  BY RowTypes
<1>2. [FromDomain(st) EXCEPT !.started = old.started, !.finished = old.finished] \in State
  BY <1>1 DEF State
<1> QED
  BY <1>2 DEF Update

LEMMA StampType == \A time : Stamp(time) \in {"never", "once", "again"}
BY DEF Stamp

LEMMA AbortType ==
  ASSUME NEW st \in State
  PROVE  Abort(st) \in State
BY StampType DEF Abort, State, ExecutionStatus

-------------------------------------------------------------------------------
\* Fields.

LEMMA UpdateFields ==
  ASSUME NEW st \in State, NEW old
  PROVE  LET new == Update(old, st) IN
         /\ new.status = st.status /\ new.current = st.current
         /\ new.completed = st.completed
         /\ ~Adapter => new.pending = st.pending /\ new.statuses = st.statuses
<1>1. /\ FromDomain(st).status = st.status /\ FromDomain(st).current = st.current
      /\ FromDomain(st).completed = st.completed
  BY DEF FromDomain, State
<1> QED
  BY <1>1 DEF Update, FromDomain, State

LEMMA SaveFields ==
  ASSUME NEW st \in State
  PROVE  /\ Save(st).status = st.status /\ Save(st).current = st.current
         /\ Save(st).completed = st.completed
         /\ ~Adapter => Save(st).pending = st.pending /\ Save(st).statuses = st.statuses
BY DEF Save, FromDomain, State

LEMMA ReadOrAbortedFields ==
  ASSUME NEW r \in State, NEW st \in {r, FindByArn(r), Abort(r)}
  PROVE  /\ st.current = r.current /\ st.completed = r.completed
         /\ st.status \in {r.status, "aborted"}
         /\ ~Adapter => st.pending = r.pending /\ st.statuses = r.statuses
BY DEF FindByArn, ToDomain, Abort, State

LEMMA FirstExecutable ==
  /\ \A st : FindNextStage(st) \subseteq ListExecutable(st)
  /\ \A st : FindFirstExecutable(st) \subseteq {s \in Stages : Deps[s] = {}}
  /\ \A st : ListExecutable(st) \subseteq Stages
BY DEF FindNextStage, FindFirstExecutable, First, ListExecutable
===============================================================================
