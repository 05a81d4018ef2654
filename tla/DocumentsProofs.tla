---------------------------- MODULE DocumentsProofs ----------------------------
(***************************************************************************)
(* Proofs that a workflow's text and the plan made of it tell the same     *)
(* story: for every workflow and every set of well-formed texts.           *)
(*                                                                         *)
(* A stage of the planner has a seat in the text, and whichever parser     *)
(* filled the seats, its dependencies are those of the text (Seated).  So  *)
(* what the planner decides about its graph can be said of the text, and   *)
(* compared with what the validator and the DAG tool say of it.            *)
(***************************************************************************)
EXTENDS Documents, PlannerProofs

-------------------------------------------------------------------------------
\* Texts.

Unique(st) == \A i, j \in DOMAIN st : st[i].id = st[j].id => i = j

AllDefined(st) == \A i \in DOMAIN st : st[i].deps \subseteq Ids(st)

\* The graph is that of the text st, each stage at its seat.
Seated(st, names, graph) ==
  \E seat \in Bijection(Stages, DOMAIN st) :
    /\ names = [s \in Stages |-> st[seat[s]].id]
    /\ graph = [s \in Stages |->
                  {t \in Stages : st[seat[t]].id \in st[seat[s]].deps}
                  \cup IF st[seat[s]].deps \subseteq Ids(st) THEN {} ELSE Names \ Stages]

Defined == \A s \in Stages : deps[s] \subseteq Stages

LEMMA SeatedGraph ==
  ASSUME NEW st, Seated(st, ids, deps)
  PROVE  /\ Distinct <=> Unique(st)
         /\ Defined <=> AllDefined(st)
         /\ Defined => (Cyclic <=> Knot(st))
<1> PICK seat \in Bijection(Stages, DOMAIN st) :
       /\ ids = [s \in Stages |-> st[seat[s]].id]
       /\ deps = [s \in Stages |->
                    {t \in Stages : st[seat[t]].id \in st[seat[s]].deps}
                    \cup IF st[seat[s]].deps \subseteq Ids(st) THEN {} ELSE Names \ Stages]
  BY DEF Seated
<1>1. /\ seat \in [Stages -> DOMAIN st]
      /\ \A s, t \in Stages : seat[s] = seat[t] => s = t
      /\ \A i \in DOMAIN st : \E s \in Stages : seat[s] = i
  BY DEF Bijection, Injection, IsInjective, Surjection
<1>2. \A s \in Stages : ids[s] = st[seat[s]].id
  OBVIOUS
<1>3. \A s \in Stages :
        deps[s] = {t \in Stages : st[seat[t]].id \in st[seat[s]].deps}
                  \cup IF st[seat[s]].deps \subseteq Ids(st) THEN {} ELSE Names \ Stages
  OBVIOUS
<1>4. Distinct <=> Unique(st)
  BY <1>1, <1>2 DEF Distinct, Unique
<1>5. Defined <=> AllDefined(st)
  <2>1. \A s \in Stages : deps[s] \subseteq Stages <=> st[seat[s]].deps \subseteq Ids(st)
    BY <1>3, DocumentsAssumption
  <2> QED
    BY <1>1, <2>1 DEF Defined, AllDefined
<1>6. ASSUME Defined
      PROVE  Cyclic <=> Knot(st)
  <2>1. ASSUME NEW s \in Stages, NEW t \in Stages
        PROVE  t \in deps[s] <=> st[seat[t]].id \in st[seat[s]].deps
    BY <1>3, <1>6 DEF Defined
  <2>2. ASSUME Cyclic
        PROVE  Knot(st)
    <3>1. PICK S \in SUBSET Stages : S # {} /\ \A s \in S : deps[s] \cap S # {}
      BY <2>2 DEF Cyclic
    <3> DEFINE T == {seat[s] : s \in S}
    <3>2. T \in SUBSET DOMAIN st /\ T # {}
      BY <1>1, <3>1
    <3>3. \A i \in T : \E j \in T : st[j].id \in st[i].deps
      BY <2>1, <3>1
    <3> HIDE DEF T
    <3> QED
      BY <3>2, <3>3 DEF Knot
  <2>3. ASSUME Knot(st)
        PROVE  Cyclic
    <3>1. PICK T \in SUBSET DOMAIN st : T # {} /\ \A i \in T : \E j \in T : st[j].id \in st[i].deps
      BY <2>3 DEF Knot
    <3> DEFINE S == {s \in Stages : seat[s] \in T}
    <3>2. S \in SUBSET Stages /\ S # {}
      BY <1>1, <3>1
    <3>3. ASSUME NEW s \in S
          PROVE  deps[s] \cap S # {}
      <4>1. PICK j \in T : st[j].id \in st[seat[s]].deps
        BY <3>1
      <4>2. PICK t \in Stages : seat[t] = j
        BY <1>1, <4>1
      <4> QED
        BY <2>1, <4>1, <4>2
    <3> HIDE DEF S
    <3> QED
      BY <3>2, <3>3 DEF Cyclic
  <2> QED
    BY <2>2, <2>3
<1> QED
  BY <1>4, <1>5, <1>6

\* The stages of a workflow in the order of its positions.
LEMMA PositionSeats ==
  LET at == [s \in Stages |-> Position[s] + 1]
  IN at \in Bijection(Stages, 1 .. N)
<1> DEFINE at == [s \in Stages |-> Position[s] + 1]
<1>1. N \in Nat /\ Position \in [Stages -> 0 .. N - 1]
      /\ \A s, t \in Stages : Position[s] = Position[t] => s = t
  BY DocumentsAssumption, PlannerAssumption, FS_CardinalityType DEF N
<1>2. at \in [Stages -> 1 .. N] /\ \A s, t \in Stages : at[s] = at[t] => s = t
  BY <1>1
<1>3. at \in Injection(Stages, 1 .. N)
  BY <1>2 DEF Injection, IsInjective
<1> HIDE DEF at
<1>4. IsFiniteSet(1 .. N) /\ Cardinality(1 .. N) = Cardinality(Stages)
  <2>1. \A n \in Nat : IsFiniteSet(1 .. n) /\ Cardinality(1 .. n) = n
    BY FS_Interval
  <2> QED
    BY <1>1, <2>1 DEF N
<1>5. at \in Surjection(Stages, 1 .. N)
  BY <1>3, <1>4, FS_Injection
<1> QED
  BY <1>3, <1>5 DEF Bijection, at

\* What the parser of stored workflows loads.
LEMMA LoadStored ==
  ASSUME NEW d \in Docs, Load(ParseRegistryWorkflow(d))
  PROVE  Seated(ParseRegistryWorkflow(d), ids', deps')
<1> DEFINE st == ParseRegistryWorkflow(d)
           at == [s \in Stages |-> Position[s] + 1]
<1>1. DOMAIN st = 1 .. N
  <2>1. Container(d) \in Seq(Stage)
    BY DocumentsAssumption DEF WellFormed, Container
  <2>2. DOMAIN st = 1 .. Len(Container(d)) /\ Len(Container(d)) \in Nat
    BY <2>1 DEF ParseRegistryWorkflow
  <2>3. Len(st) = Len(Container(d))
    BY <2>2
  <2> QED
    BY <2>2, <2>3 DEF Load, N
<1> HIDE DEF st
<1>2. at \in Bijection(Stages, DOMAIN st)
  BY <1>1, PositionSeats
<1>3. Seated(st, ids', deps')
  BY <1>2 DEF Seated, Load, st
<1> QED
  BY <1>3 DEF st

\* The text of a workflow file, in its own order.
FileText(d) == ParseWorkflow(d, [i \in DOMAIN d.stages |-> i])

\* What the parser of workflow files loads, whatever turn the map takes.
LEMMA LoadFile ==
  ASSUME NEW d \in Docs, NEW turn \in SetToSeqs(DOMAIN d.stages), Load(ParseWorkflow(d, turn))
  PROVE  Seated(FileText(d), ids', deps')
<1> DEFINE n == Len(d.stages)
           st == ParseWorkflow(d, turn)
           text == FileText(d)
           at == [s \in Stages |-> Position[s] + 1]
           seat == [s \in Stages |-> turn[Position[s] + 1]]
<1>1. n \in Nat /\ DOMAIN d.stages = 1 .. n
  <2>1. d.stages \in Seq(Stage)
    BY DocumentsAssumption DEF WellFormed
  <2> QED
    BY <2>1
<1>2. IsFiniteSet(1 .. n) /\ Cardinality(1 .. n) = n
  <2>1. \A k \in Nat : IsFiniteSet(1 .. k) /\ Cardinality(1 .. k) = k
    BY FS_Interval
  <2> QED
    BY <1>1, <2>1
<1>3. turn \in [1 .. n -> 1 .. n]
  BY <1>1, <1>2 DEF SetToSeqs
<1>4. turn \in Bijection(1 .. n, 1 .. n)
  <2>1. ToSet(turn) = 1 .. n /\ NoRepeats(turn)
    BY <1>1, <1>2, Listing
  <2> QED
    BY <1>3, <2>1 DEF ToSet, NoRepeats, Bijection, Injection, IsInjective, Surjection
<1>5. /\ DOMAIN st = 1 .. n /\ DOMAIN text = 1 .. n
      /\ \A i \in 1 .. n : st[i] = text[turn[i]]
  BY <1>1, <1>3 DEF ParseWorkflow, FileText
<1>6. n = N
  <2>1. Len(st) = n
    BY <1>1, <1>5
  <2> QED
    BY <2>1 DEF Load, N
<1>7. at \in Bijection(Stages, 1 .. n) /\ \A s \in Stages : seat[s] = turn[at[s]]
  BY <1>6, PositionSeats
<1>8. /\ deps' = [s \in Stages |->
                   {t \in Stages : st[at[t]].id \in st[at[s]].deps}
                   \cup IF st[at[s]].deps \subseteq Ids(st) THEN {} ELSE Names \ Stages]
      /\ ids' = [s \in Stages |-> st[at[s]].id]
  BY DEF Load
<1>9. seat \in [Stages -> 1 .. n]
  <2> HIDE DEF at
  <2>1. \A s \in Stages : at[s] \in 1 .. n
    BY <1>7 DEF Bijection, Injection
  <2>2. \A s \in Stages : seat[s] \in 1 .. n
    BY <1>3, <1>7, <2>1
  <2> QED
    BY <2>2
<1> HIDE DEF n, st, text, at, seat
<1>10. seat \in Bijection(Stages, 1 .. n)
  <2>1. /\ at \in [Stages -> 1 .. n]
        /\ \A s, t \in Stages : at[s] = at[t] => s = t
        /\ \A i \in 1 .. n : \E s \in Stages : at[s] = i
    BY <1>7 DEF Bijection, Injection, IsInjective, Surjection
  <2>2. /\ \A i, j \in 1 .. n : turn[i] = turn[j] => i = j
        /\ \A k \in 1 .. n : \E i \in 1 .. n : turn[i] = k
    BY <1>4 DEF Bijection, Injection, IsInjective, Surjection
  <2>3. ASSUME NEW s \in Stages, NEW t \in Stages, seat[s] = seat[t]
        PROVE  s = t
    <3>1. at[s] \in 1 .. n /\ at[t] \in 1 .. n /\ turn[at[s]] = turn[at[t]]
      BY <1>7, <2>1, <2>3
    <3> QED
      BY <2>1, <2>2, <3>1
  <2>4. \A k \in 1 .. n : \E s \in Stages : seat[s] = k
    BY <1>7, <2>1, <2>2
  <2> QED
    BY <1>9, <2>3, <2>4 DEF Bijection, Injection, IsInjective, Surjection
<1>11. \A s \in Stages : st[at[s]] = text[seat[s]]
  BY <1>5, <1>7 DEF Bijection, Injection
<1>12. Ids(st) = Ids(text)
  <2>1. \A k \in 1 .. n : \E i \in 1 .. n : st[i] = text[k]
    BY <1>4, <1>5 DEF Bijection, Surjection
  <2>2. \A i \in 1 .. n : \E k \in 1 .. n : st[i] = text[k]
    BY <1>3, <1>5
  <2>3. Ids(st) = {st[i].id : i \in 1 .. n} /\ Ids(text) = {text[i].id : i \in 1 .. n}
    BY <1>5 DEF Ids
  <2>4. Ids(st) \subseteq Ids(text)
    BY <2>2, <2>3
  <2>5. Ids(text) \subseteq Ids(st)
    BY <2>1, <2>3
  <2> QED
    BY <2>4, <2>5
<1>13. Seated(text, ids', deps')
  <2>1. ids' = [s \in Stages |-> text[seat[s]].id]
    BY <1>8, <1>11
  <2>2. deps' = [s \in Stages |->
                   {t \in Stages : text[seat[t]].id \in text[seat[s]].deps}
                   \cup IF text[seat[s]].deps \subseteq Ids(text) THEN {} ELSE Names \ Stages]
    BY <1>8, <1>11, <1>12
  <2>3. seat \in Bijection(Stages, DOMAIN text)
    BY <1>5, <1>10
  <2> QED
    BY <2>1, <2>2, <2>3 DEF Seated
<1> QED
  BY <1>13 DEF text

-------------------------------------------------------------------------------
\* The invariant.

Valid(d) == IsValid(ValidateResource(d.arn, "workflow", d, Arn))

\* Why the planner refuses a workflow, and what it knows when it does not.
VerdictInv ==
  /\ pc = "rejected" => \/ visited = {} /\ ~(Distinct /\ Defined)
                        \/ visited = Stages /\ Distinct /\ Defined /\ ~agents /\ ~Cyclic
  /\ pc \notin {"validate", "rejected"} => Distinct /\ Defined
  /\ pc = "agents" => visited = Stages
  /\ pc \in {"sort", "group", "planned"} => agents

DocInv ==
  /\ agents \in BOOLEAN
  /\ phase \in {"built", "submitted", "refused", "stored", "registry", "file"}
  /\ phase \in {"submitted", "refused", "stored"} => pc = "validate"
  /\ phase # "built" => doc \in Docs
  /\ phase \in {"stored", "registry"} => Valid(doc)
  /\ phase = "registry" => agents = FALSE /\ Seated(ParseRegistryWorkflow(doc), ids, deps)
  /\ phase = "file" => /\ RawWorkflow(doc) /\ agents = ("agents" \in doc.fields)
                       /\ Seated(FileText(doc), ids, deps)
  /\ VerdictInv

\* The planner's own invariant does not depend on the graph before it starts.
LEMMA LoadStep ==
  ASSUME PlanInv, pc = "validate", deps' \in [Stages -> SUBSET Names],
         UNCHANGED <<pc, search, sorting, grouping>>
  PROVE  PlanInv'
<1> USE DEF search, sorting, grouping
<1>1. order = <<>> /\ DOMAIN <<>> = {}
  BY DEF PlanInv, OrderInv
<1>2. OrderInv'
  <2>1. OrderRespectsDeps'
    BY <1>1 DEF OrderRespectsDeps
  <2> QED
    BY <1>1, <2>1 DEF PlanInv, OrderInv
<1>3. SearchInv'
  BY DEF PlanInv, SearchInv
<1>4. GroupInv'
  BY DEF PlanInv, GroupInv
<1>5. SortSucceeds'
  BY DEF PlanInv, SortSucceeds
<1> QED
  BY <1>2, <1>3, <1>4, <1>5 DEF PlanInv

LEMMA LoadTypes ==
  ASSUME NEW st, Load(st)
  PROVE  deps' \in [Stages -> SUBSET Names]
BY PlannerAssumption DEF Load

LEMMA VerdictStep ==
  ASSUME PlanInv, VerdictInv, agents \in BOOLEAN, Distinct, Next, UNCHANGED docVars
  PROVE  VerdictInv' /\ agents' = agents /\ deps' = deps /\ ids' = ids
<1>1. agents' = agents /\ deps' = deps /\ ids' = ids
  BY DEF Next, CheckDependencies, VisitRoot, VisitDependency, ReturnFromVisit, NoCycle,
     UndefinedAgent, StartSort, PopQueue, FinishSort, FormGroup, FinishPlan, workflow, docVars
<1>2. Distinct' /\ (Defined' <=> Defined) /\ (Cyclic' <=> Cyclic)
  BY <1>1 DEF Distinct, Defined, Cyclic
<1>3. CASE CheckDependencies
  BY <1>1, <1>2, <1>3 DEF CheckDependencies, PlanInv, SearchInv, VerdictInv, Defined, search
<1>4. CASE VisitRoot \/ VisitDependency \/ ReturnFromVisit
  <2>1. pc = "search" /\ pc' \in {"search", "cyclic"}
    BY <1>4 DEF VisitRoot, VisitDependency, ReturnFromVisit
  <2> QED
    BY <1>1, <1>2, <2>1 DEF VerdictInv
<1>5. CASE NoCycle
  <2>1. visited' = visited /\ visited = Stages /\ pc = "search" /\ pc' = "agents"
    BY <1>5 DEF NoCycle, PlanInv, SearchInv, search
  <2> QED
    BY <1>1, <1>2, <2>1 DEF VerdictInv
<1>6. CASE UndefinedAgent
  <2>1. pc = "agents" /\ pc' = "rejected" /\ ~agents /\ visited' = visited /\ ~Cyclic
    BY <1>6 DEF UndefinedAgent, PlanInv, SearchInv, search
  <2> QED
    BY <1>1, <1>2, <2>1 DEF VerdictInv
<1>7. CASE StartSort \/ PopQueue \/ FinishSort \/ FormGroup \/ FinishPlan
  <2>1. /\ pc \in {"agents", "sort", "group"} /\ pc' \in {"sort", "group", "unsortable", "planned"}
        /\ (pc = "agents" => agents)
    BY <1>7 DEF StartSort, PopQueue, FinishSort, FormGroup, FinishPlan
  <2> QED
    BY <1>1, <1>2, <2>1 DEF VerdictInv
<1> QED
  BY <1>1, <1>3, <1>4, <1>5, <1>6, <1>7 DEF Next

LEMMA DocInvInit == DocInit => PlanInv /\ DocInv
<1> SUFFICES ASSUME DocInit
             PROVE  PlanInv /\ DocInv
  OBVIOUS
<1>1. PlanInv
  BY PlanInvInit DEF DocInit
<1>2. agents \in BOOLEAN /\ pc = "validate"
  BY DEF DocInit, Init
<1> QED
  BY <1>1, <1>2 DEF DocInit, DocInv, VerdictInv

LEMMA DocInvStep ==
  ASSUME PlanInv, DocInv, [DocNext]_<<vars, docVars>>
  PROVE  PlanInv' /\ DocInv'
<1>1. CASE Validate
  <2>1. PlanInv'
    BY <1>1, PlanInvStep DEF Validate
  <2>2. DocInv'
    <3>1. /\ phase' \in {"stored", "refused"} /\ phase = "submitted" /\ doc' = doc
          /\ pc' = pc /\ agents' = agents /\ (phase' = "stored" => Valid(doc))
      BY <1>1 DEF Validate, Valid, vars, workflow
    <3>2. pc = "validate" /\ doc \in Docs /\ agents \in BOOLEAN
      BY <3>1 DEF DocInv
    <3> QED
      BY <3>1, <3>2 DEF DocInv, VerdictInv, Valid
  <2> QED
    BY <2>1, <2>2
<1>2. CASE PlanStored
  <2>1. /\ phase = "stored" /\ phase' = "registry" /\ Load(ParseRegistryWorkflow(doc))
        /\ agents' = FALSE /\ doc' = doc /\ pc' = pc /\ pc = "validate" /\ doc \in Docs
        /\ Valid(doc) /\ UNCHANGED <<pc, search, sorting, grouping>>
    BY <1>2 DEF PlanStored, DocInv
  <2>2. PlanInv'
    BY <2>1, LoadTypes, LoadStep
  <2>3. Seated(ParseRegistryWorkflow(doc'), ids', deps')
    BY <2>1, LoadStored
  <2>4. DocInv'
    <3>1. Valid(doc)' /\ VerdictInv'
      BY <2>1 DEF Valid, VerdictInv
    <3> QED
      BY <2>1, <2>3, <3>1 DEF DocInv
  <2> QED
    BY <2>2, <2>4
<1>3. CASE PlanFile
  <2>1. /\ phase = "submitted" /\ RawWorkflow(doc) /\ phase' = "file"
        /\ agents' = ("agents" \in doc.fields) /\ doc' = doc /\ pc' = pc
        /\ pc = "validate" /\ doc \in Docs /\ UNCHANGED <<pc, search, sorting, grouping>>
    BY <1>3 DEF PlanFile, DocInv
  <2>2. PICK turn \in SetToSeqs(DOMAIN doc.stages) : Load(ParseWorkflow(doc, turn))
    BY <1>3 DEF PlanFile
  <2>3. PlanInv'
    BY <2>1, <2>2, LoadTypes, LoadStep
  <2>4. Seated(FileText(doc'), ids', deps')
    BY <2>1, <2>2, LoadFile
  <2>5. DocInv'
    BY <2>1, <2>4 DEF DocInv, VerdictInv, RawWorkflow
  <2> QED
    BY <2>3, <2>5
<1>4. CASE RejectDuplicates
  <2>1. /\ phase \in Parsed /\ pc = "validate" /\ ~Distinct /\ pc' = "rejected"
        /\ UNCHANGED <<docVars, workflow, search, sorting, grouping>>
    BY <1>4 DEF RejectDuplicates
  <2>2. PlanInv'
    <3> USE <2>1 DEF workflow, search, sorting, grouping
    <3>1. OrderInv'
      BY OtherSteps DEF PlanInv
    <3>2. SearchInv'
      BY DEF PlanInv, SearchInv
    <3>3. GroupInv'
      BY DEF PlanInv, GroupInv
    <3>4. SortSucceeds'
      BY DEF PlanInv, SortSucceeds
    <3> QED
      BY <3>1, <3>2, <3>3, <3>4 DEF PlanInv
  <2>3. visited' = {} /\ ~Distinct'
    BY <2>1 DEF PlanInv, SearchInv, Distinct, docVars, search
  <2>4. VerdictInv'
    BY <2>1, <2>3 DEF VerdictInv
  <2> QED
    BY <2>1, <2>2, <2>4 DEF DocInv, Parsed, docVars, workflow
<1>5. CASE Plan
  <2>1. phase \in Parsed /\ Distinct /\ Next /\ UNCHANGED docVars
    BY <1>5 DEF Plan
  <2>2. VerdictInv' /\ agents' = agents /\ deps' = deps /\ ids' = ids
    BY <2>1, VerdictStep DEF DocInv
  <2>3. PlanInv'
    BY <2>1, PlanInvStep
  <2>4. doc' = doc /\ phase' = phase /\ phase \in Parsed
    BY <2>1 DEF docVars
  <2> QED
    BY <2>2, <2>3, <2>4 DEF DocInv, Parsed
<1>6. CASE UNCHANGED <<vars, docVars>>
  <2>1. PlanInv'
    BY <1>6, PlanInvStep
  <2> QED
    BY <1>6, <2>1 DEF DocInv, VerdictInv, Distinct, Defined, Cyclic, vars, docVars, workflow,
       search
<1> QED
  BY <1>1, <1>2, <1>3, <1>4, <1>5, <1>6 DEF DocNext

-------------------------------------------------------------------------------
\* The theorems.

\* Everything the planner promises it keeps for the workflows it gets from texts, too:
\* types, cycles, the order, the groups and the levels are right for every set of
\* well-formed texts (WorkflowPlanner::plan, generate_execution_plan).
THEOREM PlansOfTexts ==
  DocSpec => [](/\ TypeOK /\ CycleFoundExactly /\ SortSucceeds /\ OrderRespectsDeps
                /\ GroupsFollowDeps /\ LevelsAgree)
<1> DEFINE Inv == PlanInv /\ DocInv /\ TypeOK
<1>1. DocInit => Inv
  BY DocInvInit, TypeInit DEF DocInit
<1>2. ASSUME Inv, [DocNext]_<<vars, docVars>>
      PROVE  Inv'
  <2>1. PlanInv' /\ DocInv'
    BY <1>2, DocInvStep
  <2>2. CASE UNCHANGED vars \/ Plan
    <3>1. [Next]_vars
      BY <2>2 DEF Plan
    <3> QED
      BY <1>2, <2>1, <3>1, TypeStep
  <2>3. CASE PlanStored \/ PlanFile \/ RejectDuplicates
    <3>1. deps' \in [Stages -> SUBSET Names] /\ agents' \in BOOLEAN
      BY <2>1 DEF PlanInv, OrderInv, DocInv
    <3>2. pc' \in {pc, "rejected"} /\ UNCHANGED <<search, sorting, grouping>>
      BY <2>3 DEF PlanStored, PlanFile, RejectDuplicates
    <3> QED
      BY <1>2, <2>1, <3>1, <3>2 DEF TypeOK, Done, search, sorting, grouping
  <2>4. CASE Validate
    BY <1>2, <2>1, <2>2, <2>4 DEF Validate
  <2> QED
    BY <1>2, <2>1, <2>2, <2>3, <2>4 DEF DocNext
<1>3. Inv => /\ TypeOK /\ CycleFoundExactly /\ SortSucceeds /\ OrderRespectsDeps
             /\ GroupsFollowDeps /\ LevelsAgree
  BY GroupsRead, LevelsRead DEF PlanInv, OrderInv, SearchInv, CycleFoundExactly
<1>4. Inv /\ [DocNext]_<<vars, docVars>> => Inv'
  BY <1>2
<1> QED
  BY <1>1, <1>3, <1>4, PTL DEF DocSpec

LEMMA VerdictRead ==
  ASSUME PlanInv, DocInv
  PROVE  VerdictOfText
<1> SUFFICES ASSUME phase = "file", pc \in Done
             PROVE  LET st == FileText(doc)
                        defined == \A i \in DOMAIN st : st[i].deps \subseteq Ids(st)
                    IN pc = IF ~defined THEN "rejected"
                            ELSE IF Knot(st) THEN "cyclic"
                            ELSE IF "agents" \in doc.fields THEN "planned" ELSE "rejected"
  BY DEF VerdictOfText, FileText
<1> DEFINE st == FileText(doc)
<1>1. /\ doc \in Docs /\ RawWorkflow(doc) /\ agents = ("agents" \in doc.fields) /\ VerdictInv
      /\ Seated(st, ids, deps)
  BY DEF DocInv
<1>2. Unique(st)
  <2>1. doc.stages \in Seq(Stage)
        /\ \A i, j \in DOMAIN doc.stages :
             doc.stages[i].key = doc.stages[j].key => i = j \/ doc.stages[i].key = None
    BY <1>1, DocumentsAssumption DEF WellFormed
  <2>2. DOMAIN st = DOMAIN doc.stages /\ \A i \in DOMAIN st : st[i].id = doc.stages[i].key
    BY DEF FileText, ParseWorkflow
  <2> QED
    BY <1>1, <2>1, <2>2 DEF Unique, RawWorkflow
<1> HIDE DEF st
<1>3. /\ Distinct /\ (Defined <=> AllDefined(st))
      /\ (Defined => (Cyclic <=> Knot(st)))
  BY <1>1, <1>2, SeatedGraph
<1>4. /\ pc \in {"rejected", "cyclic", "planned"}
      /\ (pc = "cyclic" => Cyclic) /\ (pc = "planned" => ~Cyclic)
  BY DEF PlanInv, SearchInv, SortSucceeds, Done
<1>5. /\ (pc \in {"cyclic", "planned"} => Defined)
      /\ (pc = "planned" => agents)
      /\ (pc = "rejected" => ~Defined \/ (~agents /\ ~Cyclic))
  BY <1>1, <1>3 DEF VerdictInv
<1>6. AllDefined(st) <=> \A i \in DOMAIN st : st[i].deps \subseteq Ids(st)
  BY DEF AllDefined
<1>7. pc = IF ~AllDefined(st) THEN "rejected"
           ELSE IF Knot(st) THEN "cyclic"
           ELSE IF "agents" \in doc.fields THEN "planned" ELSE "rejected"
  BY <1>1, <1>3, <1>4, <1>5
<1> QED
  BY <1>6, <1>7 DEF st

\* The verdict of plan on a workflow file can be read off its text, and the order in
\* which the HashMap of its stages is walked has no part in it: for every set of
\* well-formed texts (parse_workflow_yaml, WorkflowPlanner::plan).
THEOREM VerdictSound == DocSpec => []VerdictOfText
<1>1. PlanInv /\ DocInv => VerdictOfText
  BY VerdictRead
<1>2. PlanInv /\ DocInv /\ [DocNext]_<<vars, docVars>> => (PlanInv /\ DocInv)'
  BY DocInvStep
<1> QED
  BY <1>1, <1>2, DocInvInit, PTL DEF DocSpec

-------------------------------------------------------------------------------
\* The warnings.

LEMMA WarningsMean ==
  ASSUME doc \in Docs, Valid(doc), Explicit
  PROVE  LET st == ParseRegistryWorkflow(doc)
         IN StageWarnings = {} <=> Unique(st) /\ AllDefined(st)
<1> DEFINE C == Container(doc)
           st == ParseRegistryWorkflow(doc)
<1>1. Validated(doc) = C
  <2>1. /\ (doc.stages # <<>> => "stages" \in doc.fields)
        /\ (doc.spec # <<>> => "spec" \in doc.fields)
    BY DocumentsAssumption DEF WellFormed
  <2> QED
    BY <2>1 DEF Validated, Container, Explicit
<1>2. \A i \in DOMAIN C : C[i].id # None
  BY DEF Explicit
<1>3. \A i \in DOMAIN C : StageId(C[i], i) = C[i].id
  BY <1>2 DEF StageId
<1>4. DOMAIN st = DOMAIN C /\ \A i \in DOMAIN C : st[i].id = C[i].id /\ st[i].deps = C[i].deps
  BY <1>2 DEF ParseRegistryWorkflow, ParsedId
<1> DEFINE names == {StageId(C[i], i) : i \in DOMAIN C}
           twins == \E i, j \in DOMAIN C : i # j /\ StageId(C[i], i) = StageId(C[j], j)
           loose == \E i \in DOMAIN C : ~(C[i].deps \subseteq names)
<1> HIDE DEF C, st
<1>5. names = Ids(st) /\ (Unique(st) <=> ~twins) /\ (AllDefined(st) <=> ~loose)
  <2>1. names = Ids(st)
    BY <1>3, <1>4 DEF Ids
  <2>2. Unique(st) <=> ~twins
    BY <1>3, <1>4 DEF Unique
  <2>3. AllDefined(st) <=> ~loose
    BY <1>4, <2>1 DEF AllDefined
  <2> QED
    BY <2>1, <2>2, <2>3
<1>6. ValidateWorkflow(doc).warnings =
        Diagnostic("DUPLICATE_STAGE", twins) \cup Diagnostic("UNDEFINED_DEPENDENCY", loose)
  BY <1>1 DEF ValidateWorkflow, Result
<1> HIDE DEF names, twins, loose
<1>7. StageWarnings = Diagnostic("DUPLICATE_STAGE", twins) \cup Diagnostic("UNDEFINED_DEPENDENCY", loose)
  <2>1. ~HasFatalErrors(ValidateSyntax(doc))
    BY DEF Valid, IsValid, HasFatalErrors, ValidateResource
  <2>2. ValidateSemantic("workflow", doc) = ValidateWorkflow(doc)
    BY DEF ValidateSemantic
  <2>3. ValidateSyntax(doc).warnings = {} /\ ValidateSchema("workflow", doc).warnings = {}
    BY DEF ValidateSyntax, ValidateSchema, Result
  <2>4. ValidateArnReferences(doc.arn, doc, Arn).warnings \subseteq {"UNRESOLVED_ARN"}
    BY DEF ValidateArnReferences, Result, Diagnostic
  <2>5. ValidateResource(doc.arn, "workflow", doc, Arn).warnings
          = ValidateArnReferences(doc.arn, doc, Arn).warnings \cup ValidateWorkflow(doc).warnings
    BY <2>1, <2>2, <2>3 DEF ValidateResource, Merge, Result
  <2> QED
    BY <1>6, <2>4, <2>5 DEF StageWarnings, Diagnostic
<1> QED
  BY <1>5, <1>7 DEF Diagnostic, st

LEMMA WarningsRead ==
  ASSUME PlanInv, DocInv, Stages # {}
  PROVE  WarningsPredict
<1> SUFFICES ASSUME phase = "registry", Explicit
             PROVE  /\ StageWarnings # {} /\ pc \in Done => pc = "rejected" /\ visited = {}
                    /\ StageWarnings = {} /\ pc = "rejected" => visited # {}
  BY DEF WarningsPredict
<1>1. doc \in Docs /\ Valid(doc) /\ Seated(ParseRegistryWorkflow(doc), ids, deps) /\ VerdictInv
  BY DEF DocInv
<1>2. StageWarnings = {} <=> Distinct /\ Defined
  BY <1>1, WarningsMean, SeatedGraph
<1>3. Stages # {}
  OBVIOUS
<1> QED
  BY <1>1, <1>2, <1>3 DEF VerdictInv, Done

\* The warnings that put_content gives about the stages of a workflow are what the
\* planner then refuses before its search: for every set of well-formed texts of
\* workflows that have a stage (validate_workflow of the validator and the planner).
THEOREM WarningsSound ==
  ASSUME Stages # {}
  PROVE  DocSpec => []WarningsPredict
<1>1. PlanInv /\ DocInv => WarningsPredict
  BY WarningsRead
<1>2. PlanInv /\ DocInv /\ [DocNext]_<<vars, docVars>> => (PlanInv /\ DocInv)'
  BY DocInvStep
<1> QED
  BY <1>1, <1>2, DocInvInit, PTL DEF DocSpec

-------------------------------------------------------------------------------
\* The DAG.

\* What the rounds of calculate_parallel_groups never take out of a set, they put in
\* only if it was there; see RoundsStay.
LEMMA DagRounds ==
  ASSUME NEW graph, IsFiniteSet(DOMAIN graph), NEW Good \in SUBSET SUBSET DOMAIN graph,
         {} \in Good,
         \A X \in Good : {id \in DOMAIN graph : graph[id] \subseteq X} \in Good
  PROVE  LET n == Cardinality(DOMAIN graph)
         IN \E c : /\ n \in Nat /\ c[0] = {} /\ c[n] = CalculateParallelGroups(graph)
                   /\ \A i \in 1 .. n : c[i] = {id \in DOMAIN graph : graph[id] \subseteq c[i-1]}
                   /\ \A i \in 0 .. n : c[i] \in Good
<1> DEFINE n == Cardinality(DOMAIN graph)
           round(X) == {id \in DOMAIN graph : graph[id] \subseteq X}
           step == [p \in Good \X Nat |-> round(p[1])]
           completed[i \in 0 .. n] == IF i = 0 THEN {} ELSE round(completed[i-1])
           turn(g, i) == IF i = 0 THEN {} ELSE round(g[i-1])
<1>1. n \in Nat
  BY FS_CardinalityType
<1>2. CalculateParallelGroups(graph) = completed[n]
  BY DEF CalculateParallelGroups
<1>3. completed = CHOOSE g : g = [i \in 0 .. n |-> turn(g, i)]
  OBVIOUS
<1>4. step \in [Good \X Nat -> Good] /\ \A X \in Good, i \in Nat : step[<<X, i>>] = round(X)
  OBVIOUS
<1> HIDE DEF n, round, step, completed
<1>5. PICK g \in [0 .. n -> Good] : Turns(g, Good, {}, step, n)
  BY <1>1, <1>4, Recursion
<1>6. \A i \in 1 .. n : i \in 0 .. n /\ i - 1 \in 0 .. n /\ i \in Nat /\ i # 0
  BY <1>1
<1>7. g = [i \in 0 .. n |-> turn(g, i)]
  <2> SUFFICES ASSUME NEW i \in 0 .. n
               PROVE  g[i] = turn(g, i)
    BY <1>5
  <2>1. CASE i = 0
    BY <1>5, <2>1 DEF Turns
  <2>2. CASE i # 0
    <3>1. i \in 1 .. n
      BY <1>1, <2>2
    <3> QED
      BY <1>4, <1>5, <1>6, <2>2, <3>1 DEF Turns
  <2> QED
    BY <2>1, <2>2
<1>8. completed = [i \in 0 .. n |-> turn(completed, i)]
  BY <1>3, <1>7
<1>9. completed[0] = {} /\ \A i \in 1 .. n : completed[i] = round(completed[i-1])
  <2>1. 0 \in 0 .. n
    BY <1>1
  <2>2. \A i \in 0 .. n : completed[i] = turn(completed, i)
    BY <1>8
  <2> QED
    BY <1>6, <2>1, <2>2
<1>10. Turns(completed, Good, {}, step, n)
  BY <1>4, <1>6, <1>9 DEF Turns
<1>11. \A i \in 0 .. n : completed[i] \in Good
  BY <1>1, <1>4, <1>10, TurnsStay
<1> QED
  BY <1>1, <1>2, <1>9, <1>11 DEF n, round

\* The nodes in S all wait for one of them.
Stuck(graph, S) == S # {} /\ \A id \in S : graph[id] \cap S # {}

\* Every node gets into a group exactly if nothing is missing and nothing stuck.
LEMMA DagGroups ==
  ASSUME NEW graph, IsFiniteSet(DOMAIN graph)
  PROVE  CalculateParallelGroups(graph) = DOMAIN graph
           <=> /\ \A id \in DOMAIN graph : graph[id] \subseteq DOMAIN graph
               /\ ~ \E S \in SUBSET DOMAIN graph : Stuck(graph, S)
<1> DEFINE V == DOMAIN graph
           n == Cardinality(V)
           round(X) == {id \in V : graph[id] \subseteq X}
<1>1. ASSUME NEW S \in SUBSET V, Stuck(graph, S)
      PROVE  CalculateParallelGroups(graph) # V
  <2> DEFINE Good == {X \in SUBSET V : X \cap S = {}}
  <2>1. /\ Good \in SUBSET SUBSET DOMAIN graph /\ {} \in Good
        /\ \A X \in Good : round(X) \in Good
    BY <1>1 DEF Stuck
  <2> HIDE DEF Good
  <2>2. PICK c : n \in Nat /\ c[n] = CalculateParallelGroups(graph) /\ \A i \in 0 .. n : c[i] \in Good
    BY <2>1, DagRounds
  <2>3. CalculateParallelGroups(graph) \in Good
    BY <2>2
  <2> QED
    BY <1>1, <2>3 DEF Good, Stuck
<1>2. \A X \in SUBSET V : round(X) \in SUBSET V
  OBVIOUS
<1> HIDE DEF V, n
<1>3. PICK c : /\ n \in Nat /\ c[0] = {} /\ c[n] = CalculateParallelGroups(graph)
               /\ \A i \in 1 .. n : c[i] = round(c[i-1])
               /\ \A i \in 0 .. n : c[i] \in SUBSET V
  <2> DEFINE Good == SUBSET V
  <2>1. /\ Good \in SUBSET SUBSET DOMAIN graph /\ {} \in Good
        /\ \A X \in Good : {id \in DOMAIN graph : graph[id] \subseteq X} \in Good
    BY <1>2 DEF V
  <2> HIDE DEF Good
  <2>2. PICK c : /\ n \in Nat /\ c[0] = {} /\ c[n] = CalculateParallelGroups(graph)
                 /\ \A i \in 1 .. n : c[i] = {id \in DOMAIN graph : graph[id] \subseteq c[i-1]}
                 /\ \A i \in 0 .. n : c[i] \in Good
    BY <2>1, DagRounds DEF n, V
  <2> QED
    BY <2>2 DEF V, Good
<1>4. ASSUME c[n] = V
      PROVE  \A id \in V : graph[id] \subseteq V
  <2>1. CASE n = 0
    BY <1>3, <1>4, <2>1
  <2>2. CASE n # 0
    <3>1. n \in 1 .. n /\ n - 1 \in 0 .. n
      BY <1>3, <2>2
    <3>2. c[n] = round(c[n-1]) /\ c[n-1] \in SUBSET V
      BY <1>3, <3>1
    <3> QED
      BY <1>4, <3>2
  <2> QED
    BY <2>1, <2>2
<1>5. ASSUME \A id \in V : graph[id] \subseteq V, ~ \E S \in SUBSET V : Stuck(graph, S)
      PROVE  c[n] = V
  <2>1. ASSUME NEW i \in 1 .. n
        PROVE  i \in 0 .. n /\ i - 1 \in 0 .. n /\ i \in Nat /\ ~ (i <= i - 1)
    BY <1>3
  <2>2. \A i \in 1 .. n : c[i-1] \subseteq c[i]
    <3> DEFINE Bad == {i \in 1 .. n : ~ (c[i-1] \subseteq c[i])}
    <3>1. ASSUME Bad # {}
          PROVE  FALSE
      <4>1. PICK i \in Bad : \A j \in Bad : i <= j
        <5>1. Bad \subseteq Nat
          OBVIOUS
        <5> HIDE DEF Bad
        <5> QED
          BY <3>1, <5>1, LeastNat
      <4>2. i \in 1 .. n /\ ~ (c[i-1] \subseteq c[i])
        OBVIOUS
      <4>3. CASE i = 1
        BY <1>3, <4>2, <4>3
      <4>4. CASE i # 1
        <5>1. i - 1 \in 1 .. n /\ ~ (i <= i - 1)
          BY <1>3, <4>2, <4>4
        <5>2. i - 1 \notin Bad
          <6> HIDE DEF Bad
          <6> QED
            BY <4>1, <5>1
        <5>3. c[(i-1)-1] \subseteq c[i-1]
          BY <5>1, <5>2
        <5>4. c[i-1] = round(c[(i-1)-1]) /\ c[i] = round(c[i-1])
          BY <1>3, <4>2, <5>1
        <5> QED
          BY <4>2, <5>3, <5>4
      <4> QED
        BY <4>3, <4>4
    <3> QED
      BY <3>1
  <2>3. ASSUME NEW i \in 1 .. n, c[i-1] # V
        PROVE  c[i] # c[i-1]
    <3> DEFINE C == c[i-1]
               left == V \ C
    <3>1. c[i] = round(C) /\ left # {}
      BY <1>3, <2>1, <2>3
    <3>2. PICK id \in left : graph[id] \cap left = {}
      <4>1. left \in SUBSET V
        OBVIOUS
      <4> HIDE DEF left
      <4> QED
        BY <1>5, <3>1, <4>1 DEF Stuck
    <3>3. id \in round(C) /\ id \notin C
      BY <1>5, <3>2
    <3> QED
      BY <3>1, <3>3
  <2>4. Growing(c, V, n)
    BY <1>3, <2>2, <2>3 DEF Growing
  <2> QED
    BY <2>4, GrownUp DEF n, V
<1> QED
  BY <1>1, <1>3, <1>4, <1>5 DEF V

\* A list names as many things as it has entries exactly if it names none twice.
LEMMA CountIds ==
  ASSUME NEW st, NEW n \in Nat, DOMAIN st = 1 .. n
  PROVE  /\ IsFiniteSet(Ids(st))
         /\ Cardinality(Ids(st)) = n <=> Unique(st)
<1> DEFINE name == [i \in 1 .. n |-> st[i].id]
<1>1. Ids(st) = {name[i] : i \in 1 .. n}
  BY DEF Ids
<1>2. \A i \in 1 .. n : name[i] = st[i].id
  OBVIOUS
<1>3. name \in [1 .. n -> Ids(st)]
  BY DEF Ids
<1> HIDE DEF name
<1>4. name \in Surjection(1 .. n, Ids(st))
  BY <1>1, <1>3 DEF Surjection
<1>5. \A k \in Nat : IsFiniteSet(1 .. k) /\ Cardinality(1 .. k) = k
  BY FS_Interval
<1>6. /\ IsFiniteSet(Ids(st))
      /\ Cardinality(Ids(st)) = Cardinality(1 .. n) <=> name \in Injection(1 .. n, Ids(st))
  BY <1>4, <1>5, FS_Surjection
<1>7. name \in Injection(1 .. n, Ids(st)) <=> Unique(st)
  BY <1>2, <1>3 DEF Injection, IsInjective, Unique
<1> QED
  BY <1>5, <1>6, <1>7

\* If no two stages have one id, the DAG is the text.
LEMMA DagOfText ==
  ASSUME NEW st, NEW n \in Nat, DOMAIN st = 1 .. n, Unique(st)
  PROVE  LET graph == WorkflowGet(st)
         IN /\ DOMAIN graph = Ids(st)
            /\ \A i \in 1 .. n : graph[st[i].id] = st[i].deps
<1> DEFINE graph == WorkflowGet(st)
<1>1. DOMAIN graph = Ids(st)
  BY DEF WorkflowGet
<1>2. ASSUME NEW i \in 1 .. n
      PROVE  graph[st[i].id] = st[i].deps
  <2>1. st[i].id \in Ids(st)
    BY DEF Ids
  <2>2. {j \in DOMAIN st : st[j].id = st[i].id} = {i}
    BY DEF Unique
  <2>3. Max({i}) = i
    BY MaxOf
  <2> QED
    BY <2>1, <2>2, <2>3 DEF WorkflowGet
<1> QED
  BY <1>1, <1>2

LEMMA DagRead ==
  ASSUME DocInv
  PROVE  DagShowsAll
<1> SUFFICES ASSUME phase = "stored", Explicit
             PROVE  LET st == ParseRegistryWorkflow(doc)
                        graph == WorkflowGet(st)
                    IN StageWarnings = {} /\ ~Knot(st)
                       <=> /\ Cardinality(DOMAIN graph) = Len(st)
                           /\ CalculateParallelGroups(graph) = DOMAIN graph
  BY DEF DagShowsAll
<1> DEFINE st == ParseRegistryWorkflow(doc)
           graph == WorkflowGet(st)
           n == Len(st)
<1>1. doc \in Docs /\ Valid(doc)
  BY DEF DocInv
<1>2. StageWarnings = {} <=> Unique(st) /\ AllDefined(st)
  BY <1>1, WarningsMean
<1>3. n \in Nat /\ DOMAIN st = 1 .. n
  <2>1. Container(doc) \in Seq(Stage)
    BY <1>1, DocumentsAssumption DEF WellFormed, Container
  <2>2. DOMAIN st = 1 .. Len(Container(doc)) /\ Len(Container(doc)) \in Nat
    BY <2>1 DEF ParseRegistryWorkflow
  <2>3. Len(st) = Len(Container(doc))
    BY <2>2
  <2> QED
    BY <2>2, <2>3
<1>4. DOMAIN graph = Ids(st)
  BY DEF WorkflowGet
<1> HIDE DEF st, graph, n
<1>5. IsFiniteSet(DOMAIN graph) /\ (Cardinality(DOMAIN graph) = n <=> Unique(st))
  BY <1>3, <1>4, CountIds
<1>6. ASSUME Unique(st)
      PROVE  AllDefined(st) /\ ~Knot(st) <=> CalculateParallelGroups(graph) = DOMAIN graph
  <2>1. \A i \in 1 .. n : graph[st[i].id] = st[i].deps
    BY <1>3, <1>6, DagOfText DEF graph
  <2>2. \A id \in Ids(st) : \E i \in 1 .. n : st[i].id = id
    BY <1>3 DEF Ids
  <2>3. \A i \in 1 .. n : st[i].id \in Ids(st)
    BY <1>3 DEF Ids
  <2>4. AllDefined(st) <=> \A id \in DOMAIN graph : graph[id] \subseteq DOMAIN graph
    BY <1>3, <1>4, <2>1, <2>2, <2>3 DEF AllDefined
  <2>5. ASSUME Knot(st)
        PROVE  \E S \in SUBSET DOMAIN graph : Stuck(graph, S)
    <3>1. PICK T \in SUBSET 1 .. n : T # {} /\ \A i \in T : \E j \in T : st[j].id \in st[i].deps
      BY <1>3, <2>5 DEF Knot
    <3> DEFINE S == {st[i].id : i \in T}
    <3>2. S \in SUBSET DOMAIN graph /\ S # {}
      BY <1>4, <2>3, <3>1
    <3>3. \A id \in S : graph[id] \cap S # {}
      BY <2>1, <3>1
    <3> HIDE DEF S
    <3> QED
      BY <3>2, <3>3 DEF Stuck
  <2>6. ASSUME NEW S \in SUBSET DOMAIN graph, Stuck(graph, S)
        PROVE  Knot(st)
    <3> DEFINE T == {i \in 1 .. n : st[i].id \in S}
    <3>1. T \in SUBSET DOMAIN st /\ T # {}
      BY <1>3, <1>4, <2>2, <2>6 DEF Stuck
    <3>2. ASSUME NEW i \in T
          PROVE  \E j \in T : st[j].id \in st[i].deps
      <4>1. PICK id \in S : id \in st[i].deps
        BY <2>1, <2>6 DEF Stuck
      <4>2. PICK j \in 1 .. n : st[j].id = id
        BY <1>4, <2>2, <4>1
      <4> QED
        BY <4>1, <4>2
    <3> HIDE DEF T
    <3> QED
      BY <3>1, <3>2 DEF Knot
  <2> QED
    BY <1>5, <2>4, <2>5, <2>6, DagGroups
<1>7. StageWarnings = {} /\ ~Knot(st)
      <=> Cardinality(DOMAIN graph) = n /\ CalculateParallelGroups(graph) = DOMAIN graph
  BY <1>2, <1>5, <1>6
<1> QED
  BY <1>7 DEF st, graph, n

\* The DAG of a stored workflow shows every stage in a group exactly if the workflow was
\* stored without a warning about stages and has no cycle: for every set of well-formed
\* texts (workflow_get_dag, calculate_parallel_groups).
THEOREM DagSound == DocSpec => []DagShowsAll
<1>1. DocInv => DagShowsAll
  BY DagRead
<1>2. PlanInv /\ DocInv /\ [DocNext]_<<vars, docVars>> => (PlanInv /\ DocInv)'
  BY DocInvStep
<1> QED
  BY <1>1, <1>2, DocInvInit, PTL DEF DocSpec
=============================================================================
