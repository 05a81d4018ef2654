-------------------------------- MODULE Planner --------------------------------
(***************************************************************************)
(* WorkflowPlanner::plan: it validates the dependency graph of a workflow  *)
(* (a depth-first search for a cycle), orders the stages (Kahn's           *)
(* algorithm) and forms parallel groups.  One action is one turn of one of *)
(* its loops.  Init chooses the graph, so that every behaviour plans one   *)
(* workflow.  What depends on an unspecified order in the code is chosen:  *)
(* the order of one depends_on list, and that of the initial queue, which  *)
(* is filled from a HashMap.                                               *)
(*                                                                         *)
(* Abstracted: a duplicate stage id is an error before any of this; a      *)
(* stage listed twice in one depends_on counts twice in the in-degree and  *)
(* is subtracted twice, so the list is a set; every agent is defined or    *)
(* some agent is not.  The steps of the plan are the execution order, less  *)
(* stages whose input refers to no stage, and are left out.                *)
(***************************************************************************)
EXTENDS Integers, Sequences, FiniteSets, SequencesExt

CONSTANTS
  Names,      (* the names a depends_on may hold                *)
  Stages,     (* the stages of the workflow                     *)
  Position,   (* the index of a stage in the workflow           *)
  Graphs      (* the dependency functions to plan               *)

ASSUME PlannerAssumption ==
  /\ IsFiniteSet(Stages) /\ Stages \subseteq Names
  /\ Position \in [Stages -> Nat]
  /\ \A s, t \in Stages : Position[s] = Position[t] => s = t
  /\ Graphs \subseteq [Stages -> SUBSET Names]

VARIABLES
  deps,      (* depends_on of each stage                               *)
  agents,    (* whether all the agents are defined                     *)
  pc,        (* the phase of plan                                      *)
  roots,     (* the stages the loop of detect_cycle has not come to    *)
  visited,   (* the stages detect_cycle has visited                    *)
  frames,    (* the calls of visit in progress, innermost first        *)
  indegree,  (* the dependencies of each stage not in the order yet    *)
  queue,     (* the stages with none left                              *)
  order,     (* the execution order                                    *)
  next,      (* the index of the outer loop of the grouping            *)
  assigned,  (* the stages that are in a group                         *)
  groups     (* the parallel groups                                    *)

workflow == <<deps, agents>>
search == <<roots, visited, frames>>
sorting == <<indegree, queue, order>>
grouping == <<next, assigned, groups>>
vars == <<workflow, pc, search, sorting, grouping>>

Frame == [stage : Stages, todo : SUBSET Stages]

Done == {"rejected", "cyclic", "unsortable", "planned"}

TypeOK ==
  /\ deps \in [Stages -> SUBSET Names]
  /\ agents \in BOOLEAN
  /\ pc \in {"validate", "search", "agents", "sort", "group"} \cup Done
  /\ {roots, visited} \subseteq SUBSET Stages /\ frames \in Seq(Frame)
  /\ indegree \in [Stages -> Nat] /\ {queue, order} \subseteq Seq(Stages)
  /\ next \in Nat /\ assigned \in SUBSET Stages /\ groups \in Seq(SUBSET Stages)

Init ==
  /\ deps \in Graphs /\ agents \in BOOLEAN
  /\ pc = "validate"
  /\ roots = Stages /\ visited = {} /\ frames = <<>>
  /\ indegree = [s \in Stages |-> 0] /\ queue = <<>> /\ order = <<>>
  /\ next = 1 /\ assigned = {} /\ groups = <<>>

-------------------------------------------------------------------------------
\* validate_workflow.

CheckDependencies ==
  /\ pc = "validate"
  /\ pc' = IF \A s \in Stages : deps[s] \subseteq Stages THEN "search" ELSE "rejected"
  /\ UNCHANGED <<workflow, search, sorting, grouping>>

\* Mutant of OnStack: only the innermost call is looked at.
OnStackTop == {Head(frames).stage}

\* Mutant of OnStack: every visited stage counts as one.
OnStackVisited == visited

OnStack == {frames[i].stage : i \in DOMAIN frames}

Call(s, callers) ==
  /\ visited' = visited \cup {s}
  /\ frames' = <<[stage |-> s, todo |-> deps[s]]>> \o callers

\* One turn of the loop of detect_cycle over the stages of the workflow.
VisitRoot ==
  /\ pc = "search" /\ frames = <<>>
  /\ \E s \in roots :
       /\ \A t \in roots : Position[s] <= Position[t]
       /\ roots' = roots \ {s}
       /\ IF s \notin visited THEN Call(s, <<>>) ELSE UNCHANGED <<visited, frames>>
  /\ UNCHANGED <<workflow, pc, sorting, grouping>>

\* One dependency in the loop of visit.
VisitDependency ==
  /\ pc = "search" /\ frames # <<>>
  /\ \E dep \in Head(frames).todo :
       LET rest == [frames EXCEPT ![1].todo = @ \ {dep}]
       IN IF dep \in OnStack THEN pc' = "cyclic" /\ UNCHANGED search
          ELSE /\ IF dep \notin visited THEN Call(dep, rest)
                  ELSE frames' = rest /\ UNCHANGED visited
               /\ UNCHANGED <<pc, roots>>
  /\ UNCHANGED <<workflow, sorting, grouping>>

ReturnFromVisit ==
  /\ pc = "search" /\ frames # <<>> /\ Head(frames).todo = {}
  /\ frames' = Tail(frames)
  /\ UNCHANGED <<workflow, pc, roots, visited, sorting, grouping>>

NoCycle ==
  /\ pc = "search" /\ frames = <<>> /\ roots = {}
  /\ pc' = "agents"
  /\ UNCHANGED <<workflow, search, sorting, grouping>>

UndefinedAgent ==
  /\ pc = "agents" /\ ~agents
  /\ pc' = "rejected"
  /\ UNCHANGED <<workflow, search, sorting, grouping>>

-------------------------------------------------------------------------------
\* topological_sort.

StartSort ==
  /\ pc = "agents" /\ agents
  /\ pc' = "sort"
  /\ indegree' = [s \in Stages |-> Cardinality(deps[s])]
  /\ queue' \in SetToSeqs({s \in Stages : indegree'[s] = 0})
  /\ UNCHANGED <<workflow, search, order, grouping>>

ByPosition(seq) ==
  \A i, j \in DOMAIN seq : i < j => Position[seq[i]] < Position[seq[j]]

\* Mutant of Freed: a stage is queued with its first dependency.
FreedEarly(stage) == {s \in Stages : stage \in deps[s]}

\* The stages whose last missing dependency is this one.
Freed(stage) == {s \in Stages : stage \in deps[s] /\ indegree[s] = 1}

PopQueue ==
  /\ pc = "sort" /\ queue # <<>>
  /\ order' = Append(order, Head(queue))
  /\ indegree' = [s \in Stages |->
                    IF Head(queue) \in deps[s] THEN indegree[s] - 1 ELSE indegree[s]]
  /\ \E freed \in SetToSeqs(Freed(Head(queue))) :
       ByPosition(freed) /\ queue' = Tail(queue) \o freed
  /\ UNCHANGED <<workflow, pc, search, grouping>>

FinishSort ==
  /\ pc = "sort" /\ queue = <<>>
  /\ pc' = IF Len(order) = Cardinality(Stages) THEN "group" ELSE "unsortable"
  /\ UNCHANGED <<workflow, search, sorting, grouping>>

-------------------------------------------------------------------------------
\* identify_parallel_groups.

\* Mutant of MayJoin: the dependencies need not be assigned.
MayJoinAnytime(s, t, taken) == t \notin taken /\ s \notin deps[t] /\ t \notin deps[s]

\* Whether stage t joins the group that stage s opened.
MayJoin(s, t, taken) ==
  /\ t \notin taken /\ deps[t] \subseteq taken
  /\ s \notin deps[t] /\ t \notin deps[s]

\* What is assigned after the inner loop.
AssignedWith(s) ==
  LET taken[j \in 0 .. Len(order)] ==
        IF j = 0 THEN assigned \cup {s}
        ELSE taken[j-1] \cup {t \in {order[j]} : MayJoin(s, t, taken[j-1])}
  IN taken[Len(order)]

\* Mutant of OpensGroup: the stage is never looked at again.
OpensGroupAlone(s) == s \notin assigned /\ deps[s] = {}

OpensGroup(s) == s \notin assigned /\ deps[s] \subseteq assigned

FormGroup ==
  /\ pc = "group" /\ next <= Len(order)
  /\ next' = next + 1
  /\ IF OpensGroup(order[next])
     THEN /\ assigned' = AssignedWith(order[next])
          /\ groups' = Append(groups, assigned' \ assigned)
     ELSE UNCHANGED <<assigned, groups>>
  /\ UNCHANGED <<workflow, pc, search, sorting>>

FinishPlan ==
  /\ pc = "group" /\ next > Len(order)
  /\ pc' = "planned"
  /\ UNCHANGED <<workflow, search, sorting, grouping>>

Next ==
  \/ CheckDependencies \/ VisitRoot \/ VisitDependency \/ ReturnFromVisit \/ NoCycle
  \/ UndefinedAgent \/ StartSort \/ PopQueue \/ FinishSort
  \/ FormGroup \/ FinishPlan

Spec == Init /\ [][Next]_vars

-------------------------------------------------------------------------------
\* The two other groupings of the same graph.

\* Mutant of NextWave: stages found in the same round count as completed.
NextWaveEager(done) ==
  {s \in Stages \ done : \A d \in deps[s] : d \in done \/ (d \in Stages /\ deps[d] \subseteq done)}

NextWave(done) == {s \in Stages \ done : deps[s] \subseteq done}

\* calculate_parallel_groups: the stages completed after n rounds of its loop.
Completed ==
  LET completed[n \in 0 .. Cardinality(Stages)] ==
        IF n = 0 THEN {} ELSE completed[n-1] \cup NextWave(completed[n-1])
  IN completed

\* compute_depth, for a graph without cycles.
Depth ==
  LET depth[s \in Stages] ==
        IF deps[s] = {} THEN 0
        ELSE 1 + Max({IF d \in Stages THEN depth[d] ELSE 0 : d \in deps[s]})
  IN depth

-------------------------------------------------------------------------------
\* Safety.

\* Some stages all wait for one of them.
Cyclic == \E S \in SUBSET Stages : S # {} /\ \A s \in S : deps[s] \cap S # {}

\* detect_cycle reports a cycle exactly if there is one, although it visits a
\* stage once and looks only for stages in the calls that have not returned.
CycleFoundExactly ==
  /\ pc = "cyclic" => Cyclic
  /\ pc \in {"agents", "sort", "group", "planned"} => ~Cyclic

\* The error of topological_sort is never reached: after detect_cycle no stage
\* is left without a place ("If we didn't process all nodes, there's a cycle").
SortSucceeds == pc # "unsortable"

\* A stage comes after everything it depends on, and comes once.
OrderRespectsDeps ==
  \A i \in DOMAIN order :
    /\ deps[order[i]] \subseteq {order[j] : j \in 1 .. i-1}
    /\ order[i] \notin {order[j] : j \in 1 .. i-1}

\* Each stage gets into one group, and each dependency of it into the same or an
\* earlier group: no stage is passed over by the loop over the execution order.
\* A group has an opener, all of whose dependencies are in earlier groups and on
\* which no other member depends; the loop compares the others with it alone.
GroupsFollowDeps ==
  pc = "planned" =>
    /\ \A s \in Stages : \E i \in DOMAIN groups :
         /\ s \in groups[i]
         /\ \A j \in DOMAIN groups : s \in groups[j] => j = i
         /\ deps[s] \subseteq UNION {groups[j] : j \in 1 .. i}
    /\ \A i \in DOMAIN groups : \E s \in groups[i] :
         /\ deps[s] \subseteq UNION {groups[j] : j \in 1 .. i-1}
         /\ \A t \in groups[i] : s \notin deps[t]

\* What the planner says of its groups: "Steps that can run in parallel", after it
\* has tried "Check they don't depend on each other".
GroupsIndependent ==
  \A i \in DOMAIN groups : \A s, t \in groups[i] : s \notin deps[t]

\* Three parts group the same graph.  The DAG tool and the workflow service give a
\* planned workflow the same levels, and the planner, whose groups may be fewer,
\* never puts a stage into a later one; of a cyclic graph the first leaves out a
\* stage.
LevelsAgree ==
  /\ pc = "planned" =>
       /\ \A s \in Stages, n \in 1 .. Cardinality(Stages) :
            s \in Completed[n] \ Completed[n-1] <=> Depth[s] = n - 1
       /\ \A i \in DOMAIN groups : \A s \in groups[i] : Depth[s] >= i - 1
  /\ pc = "cyclic" => Completed[Cardinality(Stages)] # Stages
===============================================================================
