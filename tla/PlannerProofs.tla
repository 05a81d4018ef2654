----------------------------- MODULE PlannerProofs -----------------------------
(***************************************************************************)
(* Proofs of everything the planner promises, for every finite workflow    *)
(* and every dependency graph.                                             *)
(*                                                                         *)
(* Kahn's algorithm is right because of what its in-degrees count: the     *)
(* dependencies of a stage that are not in the order yet.  A stage enters  *)
(* the queue at the moment the last of them is ordered, hence once, and    *)
(* stays ahead of everything that waits for it (OrderInv).  The search is  *)
(* right because its stack is a path of dependencies, and nothing it has   *)
(* finished leads out of what is finished or waits in a circle             *)
(* (SearchInv).  So the stages the sort leaves over would be a cycle the   *)
(* search has missed, and the grouping finds all dependencies of a stage   *)
(* assigned when it comes to it (GroupInv).                                *)
(*                                                                         *)
(* Recursive definitions are unfolded with the least natural at which they *)
(* fail, found by LeastNat.                                                *)
(***************************************************************************)
EXTENDS Planner, SequenceTheorems, RecursionLemmas

Ordered == ToSet(order)

Queued == ToSet(queue)

NoRepeats(seq) == \A i, j \in DOMAIN seq : seq[i] = seq[j] => i = j

\* The loop invariant of topological_sort.
SortInv ==
  /\ \A s \in Stages : indegree[s] = Cardinality(deps[s] \ Ordered)
  /\ \A s \in Stages : s \in Ordered \cup Queued <=> deps[s] \subseteq Ordered
  /\ Ordered \cap Queued = {}
  /\ NoRepeats(queue)

OrderInv ==
  /\ deps \in [Stages -> SUBSET Names]
  /\ indegree \in [Stages -> Nat]
  /\ order \in Seq(Stages) /\ queue \in Seq(Stages)
  /\ pc \notin {"validate", "rejected"} => \A s \in Stages : deps[s] \subseteq Stages
  /\ pc \in {"validate", "search", "agents"} => order = <<>>
  /\ pc = "sort" => SortInv
  /\ OrderRespectsDeps

-------------------------------------------------------------------------------
\* Sequences.

LEMMA AppendRange ==
  ASSUME NEW S, NEW seq \in Seq(S), NEW e \in S
  PROVE  ToSet(Append(seq, e)) = ToSet(seq) \cup {e}
<1>1. /\ Append(seq, e) \in Seq(S)
      /\ Len(Append(seq, e)) = Len(seq) + 1
      /\ \A i \in 1 .. Len(seq) : Append(seq, e)[i] = seq[i]
      /\ Append(seq, e)[Len(seq) + 1] = e
  BY AppendProperties
<1>2. DOMAIN seq = 1 .. Len(seq) /\ DOMAIN Append(seq, e) = 1 .. Len(seq) + 1
  BY <1>1
<1>3. Len(seq) \in Nat
  OBVIOUS
<1> QED
  BY <1>1, <1>2, <1>3 DEF ToSet

\* What the rest of a queue and the freed stages behind it hold.
LEMMA QueueRange ==
  ASSUME NEW S, NEW q \in Seq(S), q # <<>>, NoRepeats(q), NEW f \in Seq(S),
         NoRepeats(f), ToSet(f) \cap ToSet(q) = {}
  PROVE  /\ Tail(q) \o f \in Seq(S)
         /\ ToSet(Tail(q) \o f) = (ToSet(q) \ {Head(q)}) \cup ToSet(f)
         /\ NoRepeats(Tail(q) \o f)
<1> DEFINE r == Tail(q)
<1>1. /\ r \in Seq(S) /\ Len(r) = Len(q) - 1 /\ Len(q) \in Nat \ {0}
      /\ \A i \in 1 .. Len(r) : r[i] = q[i+1]
      /\ Head(q) = q[1]
  BY HeadTailProperties
<1>2. /\ r \o f \in Seq(S)
      /\ Len(r \o f) = Len(r) + Len(f)
      /\ \A i \in 1 .. Len(r) + Len(f) :
           (r \o f)[i] = IF i <= Len(r) THEN r[i] ELSE f[i - Len(r)]
  BY <1>1, ConcatProperties
<1>3. /\ DOMAIN q = 1 .. Len(q) /\ DOMAIN f = 1 .. Len(f)
      /\ DOMAIN (r \o f) = 1 .. Len(r) + Len(f)
      /\ Len(f) \in Nat /\ Len(r) \in Nat
  BY <1>1, <1>2
<1> HIDE DEF r
<1>4. ToSet(r \o f) \subseteq (ToSet(q) \ {Head(q)}) \cup ToSet(f)
  <2> SUFFICES ASSUME NEW i \in 1 .. Len(r) + Len(f)
               PROVE  (r \o f)[i] \in (ToSet(q) \ {Head(q)}) \cup ToSet(f)
    BY <1>3 DEF ToSet
  <2>1. CASE i <= Len(r)
    <3>1. (r \o f)[i] = q[i+1] /\ i+1 \in DOMAIN q /\ i+1 # 1 /\ 1 \in DOMAIN q
      BY <1>1, <1>2, <1>3, <2>1
    <3>2. q[i+1] # q[1]
      BY <3>1 DEF NoRepeats
    <3> QED
      BY <1>1, <3>1, <3>2 DEF ToSet
  <2>2. CASE ~ (i <= Len(r))
    <3>1. (r \o f)[i] = f[i - Len(r)] /\ i - Len(r) \in DOMAIN f
      BY <1>2, <1>3, <2>2
    <3> QED
      BY <3>1 DEF ToSet
  <2> QED
    BY <2>1, <2>2
<1>5. ToSet(q) \ {Head(q)} \subseteq ToSet(r \o f)
  <2> SUFFICES ASSUME NEW x \in ToSet(q), x # q[1]
               PROVE  x \in ToSet(r \o f)
    BY <1>1
  <2> PICK i \in 1 .. Len(q) : x = q[i]
    BY <1>3 DEF ToSet
  <2>1. i - 1 \in 1 .. Len(r) /\ i - 1 \in 1 .. Len(r) + Len(f)
    BY <1>1, <1>3
  <2>2. (r \o f)[i-1] = q[i]
    BY <1>1, <1>2, <1>3, <2>1
  <2> QED
    BY <1>3, <2>1, <2>2 DEF ToSet
<1>6. ToSet(f) \subseteq ToSet(r \o f)
  <2> SUFFICES ASSUME NEW i \in 1 .. Len(f)
               PROVE  f[i] \in ToSet(r \o f)
    BY <1>3 DEF ToSet
  <2>1. Len(r) + i \in 1 .. Len(r) + Len(f) /\ ~ (Len(r) + i <= Len(r))
        /\ (Len(r) + i) - Len(r) = i
    BY <1>3
  <2>2. (r \o f)[Len(r) + i] = f[i]
    BY <1>2, <2>1
  <2> QED
    BY <1>3, <2>1, <2>2 DEF ToSet
<1>7. NoRepeats(r \o f)
  <2> SUFFICES ASSUME NEW i \in 1 .. Len(r) + Len(f), NEW j \in 1 .. Len(r) + Len(f),
                      i < j
               PROVE  (r \o f)[i] # (r \o f)[j]
    BY <1>3 DEF NoRepeats
  <2>1. CASE j <= Len(r)
    <3>1. (r \o f)[i] = q[i+1] /\ (r \o f)[j] = q[j+1]
      BY <1>1, <1>2, <1>3, <2>1
    <3>2. i+1 \in DOMAIN q /\ j+1 \in DOMAIN q /\ i+1 # j+1
      BY <1>1, <1>3, <2>1
    <3> QED
      BY <3>1, <3>2 DEF NoRepeats
  <2>2. CASE i <= Len(r) /\ ~ (j <= Len(r))
    <3>1. (r \o f)[i] = q[i+1] /\ i+1 \in DOMAIN q
      BY <1>1, <1>2, <1>3, <2>2
    <3>2. (r \o f)[j] = f[j - Len(r)] /\ j - Len(r) \in DOMAIN f
      BY <1>2, <1>3, <2>2
    <3> QED
      BY <3>1, <3>2 DEF ToSet
  <2>3. CASE ~ (i <= Len(r))
    <3>1. (r \o f)[i] = f[i - Len(r)] /\ (r \o f)[j] = f[j - Len(r)]
      BY <1>2, <1>3, <2>3
    <3>2. i - Len(r) \in DOMAIN f /\ j - Len(r) \in DOMAIN f /\ i - Len(r) # j - Len(r)
      BY <1>3, <2>3
    <3> QED
      BY <3>1, <3>2 DEF NoRepeats
  <2> QED
    BY <2>1, <2>2, <2>3
<1> QED
  BY <1>2, <1>4, <1>5, <1>6, <1>7 DEF r

\* SetToSeqs lists a finite set, each element once.
LEMMA Listing ==
  ASSUME NEW S, IsFiniteSet(S), NEW seq \in SetToSeqs(S)
  PROVE  seq \in Seq(S) /\ ToSet(seq) = S /\ NoRepeats(seq)
<1> DEFINE n == Cardinality(S)
<1>1. n \in Nat
  BY FS_CardinalityType
<1>2. seq \in [1 .. n -> S] /\ \A i, j \in 1 .. n : i # j => seq[i] # seq[j]
  BY DEF SetToSeqs
<1>3. seq \in Seq(S) /\ DOMAIN seq = 1 .. n
  BY <1>1, <1>2
<1>4. seq \in Injection(1 .. n, S)
  BY <1>2 DEF Injection, IsInjective
<1>5. Cardinality(1 .. n) = n
  BY <1>1, FS_Interval
<1>6. seq \in Surjection(1 .. n, S)
  BY <1>4, <1>5, FS_Injection
<1>7. ToSet(seq) = S
  BY <1>2, <1>3, <1>6 DEF Surjection, ToSet
<1> QED
  BY <1>2, <1>3, <1>7 DEF NoRepeats

-------------------------------------------------------------------------------
\* Kahn's algorithm.

LEMMA FiniteDeps ==
  ASSUME NEW s \in Stages, deps[s] \subseteq Stages
  PROVE  IsFiniteSet(deps[s])
BY PlannerAssumption, FS_Subset

\* The initial queue holds the stages that depend on nothing.
LEMMA StartSortStep ==
  ASSUME OrderInv, StartSort
  PROVE  OrderInv'
<1>1. /\ order = <<>> /\ UNCHANGED <<order, deps>> /\ pc' = "sort"
      /\ \A s \in Stages : deps[s] \subseteq Stages
  BY DEF StartSort, OrderInv, workflow
<1>2. /\ indegree' = [s \in Stages |-> Cardinality(deps[s])]
      /\ queue' \in SetToSeqs({s \in Stages : indegree'[s] = 0})
  BY DEF StartSort
<1>3. \A s \in Stages : /\ Cardinality(deps[s]) \in Nat
                        /\ Cardinality(deps[s]) = 0 <=> deps[s] = {}
  BY <1>1, FiniteDeps, FS_CardinalityType, FS_EmptySet
<1>4. indegree' \in [Stages -> Nat]
  BY <1>2, <1>3
<1>5. {s \in Stages : indegree'[s] = 0} = {s \in Stages : deps[s] = {}}
  BY <1>2, <1>3
<1>6. IsFiniteSet({s \in Stages : deps[s] = {}})
  BY PlannerAssumption, FS_Subset
<1>7. /\ queue' \in Seq({s \in Stages : deps[s] = {}})
      /\ ToSet(queue') = {s \in Stages : deps[s] = {}}
      /\ NoRepeats(queue')
  BY <1>2, <1>5, <1>6, Listing
<1>8. queue' \in Seq(Stages)
  BY <1>7
<1>9. Ordered' = {} /\ Queued' = {s \in Stages : deps[s] = {}}
  BY <1>1, <1>7 DEF Ordered, Queued, ToSet
<1>10. \A s \in Stages : indegree'[s] = Cardinality(deps'[s] \ Ordered')
  <2> SUFFICES ASSUME NEW s \in Stages
               PROVE  indegree'[s] = Cardinality(deps'[s] \ Ordered')
    OBVIOUS
  <2>1. deps'[s] \ Ordered' = deps[s]
    BY <1>1, <1>9
  <2> QED
    BY <1>2, <2>1
<1>11. SortInv'
  BY <1>1, <1>7, <1>9, <1>10 DEF SortInv
<1>12. OrderRespectsDeps'
  BY <1>1 DEF OrderRespectsDeps
<1> QED
  BY <1>1, <1>4, <1>8, <1>11, <1>12 DEF OrderInv

\* One turn of the loop: the head of the queue is ordered, and the stages it was
\* the last missing dependency of are queued.
LEMMA PopQueueStep ==
  ASSUME OrderInv, PopQueue
  PROVE  OrderInv'
<1> DEFINE node == Head(queue)
<1>1. /\ pc = "sort" /\ queue # <<>> /\ UNCHANGED <<deps, pc>>
      /\ order' = Append(order, node)
      /\ indegree' = [s \in Stages |-> IF node \in deps[s] THEN indegree[s] - 1 ELSE indegree[s]]
  BY DEF PopQueue, workflow
<1>2. PICK freed \in SetToSeqs(Freed(node)) : queue' = Tail(queue) \o freed
  BY DEF PopQueue
<1>3. /\ deps \in [Stages -> SUBSET Names] /\ indegree \in [Stages -> Nat]
      /\ order \in Seq(Stages) /\ queue \in Seq(Stages) /\ SortInv
      /\ OrderRespectsDeps /\ \A s \in Stages : deps[s] \subseteq Stages
  BY <1>1 DEF OrderInv
<1>4. node \in Stages /\ node \in Queued
  BY <1>1, <1>3, HeadTailProperties DEF Queued, ToSet
<1>5. node \notin Ordered /\ deps[node] \subseteq Ordered
  BY <1>3, <1>4 DEF SortInv
<1> HIDE DEF node
<1>6. order' \in Seq(Stages) /\ Ordered' = Ordered \cup {node}
  BY <1>1, <1>3, <1>4, AppendRange, AppendProperties DEF Ordered
<1>7. ASSUME NEW s \in Stages, node \in deps[s]
      PROVE  /\ Cardinality(deps[s] \ Ordered') = indegree[s] - 1
             /\ indegree[s] - 1 \in Nat
             /\ indegree[s] = 1 <=> deps[s] \subseteq Ordered'
  <2> DEFINE missing == deps[s] \ Ordered
  <2>1. IsFiniteSet(missing) /\ indegree[s] = Cardinality(missing)
    BY <1>3, FiniteDeps, FS_Subset DEF SortInv
  <2>2. node \in missing /\ deps[s] \ Ordered' = missing \ {node}
    BY <1>5, <1>6, <1>7
  <2> HIDE DEF missing
  <2>3. /\ IsFiniteSet(missing \ {node})
        /\ Cardinality(missing \ {node}) = Cardinality(missing) - 1
    BY <2>1, <2>2, FS_RemoveElement
  <2>4. /\ Cardinality(missing \ {node}) \in Nat
        /\ Cardinality(missing \ {node}) = 0 <=> missing \ {node} = {}
    BY <2>3, FS_CardinalityType, FS_EmptySet
  <2>5. indegree[s] \in Nat
    BY <1>3
  <2>6. Cardinality(missing \ {node}) = indegree[s] - 1
    BY <2>1, <2>3
  <2>7. deps[s] \subseteq Ordered' <=> missing \ {node} = {}
    BY <2>2
  <2>8. indegree[s] = 1 <=> deps[s] \subseteq Ordered'
    BY <2>4, <2>5, <2>6, <2>7
  <2> QED
    BY <2>2, <2>4, <2>6, <2>8
<1>8. Freed(node) = {s \in Stages : node \in deps[s] /\ deps[s] \subseteq Ordered'}
  BY <1>7 DEF Freed
<1>9. indegree' \in [Stages -> Nat]
  BY <1>1, <1>3, <1>7
<1>10. ASSUME NEW s \in Stages
       PROVE  indegree'[s] = Cardinality(deps'[s] \ Ordered')
  <2>1. CASE node \in deps[s]
    BY <1>1, <1>7, <2>1
  <2>2. CASE node \notin deps[s]
    <3>1. deps[s] \ Ordered' = deps[s] \ Ordered
      BY <1>6, <2>2
    <3> QED
      BY <1>1, <1>3, <2>2, <3>1 DEF SortInv
  <2> QED
    BY <2>1, <2>2
<1>11. Freed(node) \cap (Ordered \cup Queued) = {}
  <2> SUFFICES ASSUME NEW s \in Freed(node)
               PROVE  s \notin Ordered \cup Queued
    OBVIOUS
  <2>1. s \in Stages /\ ~(deps[s] \subseteq Ordered)
    BY <1>5, <1>8
  <2> QED
    BY <1>3, <2>1 DEF SortInv
<1>12. /\ freed \in Seq(Stages) /\ ToSet(freed) = Freed(node) /\ NoRepeats(freed)
  <2>1. Freed(node) \subseteq Stages /\ IsFiniteSet(Freed(node))
    BY PlannerAssumption, FS_Subset DEF Freed
  <2>2. freed \in Seq(Freed(node)) /\ ToSet(freed) = Freed(node) /\ NoRepeats(freed)
    BY <1>2, <2>1, Listing
  <2> QED
    BY <2>1, <2>2
<1>13. /\ queue' \in Seq(Stages)
       /\ Queued' = (Queued \ {node}) \cup Freed(node)
       /\ NoRepeats(queue')
  <2>1. NoRepeats(queue) /\ ToSet(freed) \cap ToSet(queue) = {}
    BY <1>3, <1>11, <1>12 DEF SortInv, Queued
  <2> QED
    BY <1>1, <1>2, <1>3, <1>12, <2>1, QueueRange DEF Queued, node
<1>14. ASSUME NEW s \in Stages
       PROVE  s \in Ordered' \cup Queued' <=> deps'[s] \subseteq Ordered'
  <2>1. s \in Ordered' \cup Queued' <=> s \in Ordered \cup Queued \cup Freed(node)
    BY <1>4, <1>6, <1>13
  <2>2. s \in Ordered \cup Queued <=> deps[s] \subseteq Ordered
    BY <1>3 DEF SortInv
  <2>3. CASE node \in deps[s]
    BY <1>1, <1>5, <1>8, <2>1, <2>2, <2>3
  <2>4. CASE node \notin deps[s]
    BY <1>1, <1>6, <1>8, <2>1, <2>2, <2>4
  <2> QED
    BY <2>3, <2>4
<1>15. Ordered' \cap Queued' = {}
  BY <1>3, <1>4, <1>6, <1>8, <1>11, <1>13 DEF SortInv
<1>16. SortInv'
  BY <1>10, <1>13, <1>14, <1>15 DEF SortInv
<1>17. OrderRespectsDeps'
  <2>1. /\ Len(order) \in Nat /\ DOMAIN order = 1 .. Len(order)
        /\ DOMAIN order' = 1 .. Len(order) + 1
        /\ \A i \in 1 .. Len(order) : order'[i] = order[i]
        /\ order'[Len(order) + 1] = node
    BY <1>1, <1>3, <1>4, <1>6, AppendProperties
  <2>2. ASSUME NEW i \in 1 .. Len(order)
        PROVE  {order'[j] : j \in 1 .. i-1} = {order[j] : j \in 1 .. i-1}
    BY <2>1
  <2>3. {order'[j] : j \in 1 .. (Len(order)+1)-1} = Ordered
    BY <2>1 DEF Ordered, ToSet
  <2> SUFFICES ASSUME NEW i \in 1 .. Len(order) + 1
               PROVE  /\ deps'[order'[i]] \subseteq {order'[j] : j \in 1 .. i-1}
                      /\ order'[i] \notin {order'[j] : j \in 1 .. i-1}
    BY <2>1 DEF OrderRespectsDeps
  <2>4. CASE i \in 1 .. Len(order)
    <3>1. i \in DOMAIN order /\ order'[i] = order[i] /\ deps' = deps
      BY <1>1, <2>1, <2>4
    <3>2. /\ deps[order[i]] \subseteq {order[j] : j \in 1 .. i-1}
          /\ order[i] \notin {order[j] : j \in 1 .. i-1}
      BY <1>3, <3>1 DEF OrderRespectsDeps
    <3> QED
      BY <2>2, <2>4, <3>1, <3>2
  <2>5. CASE i = Len(order) + 1
    BY <1>1, <1>5, <2>1, <2>3, <2>5
  <2> QED
    BY <2>1, <2>4, <2>5
<1> QED
  BY <1>1, <1>3, <1>6, <1>9, <1>13, <1>16, <1>17 DEF OrderInv

-------------------------------------------------------------------------------
\* The order is kept by the other steps, too.

\* Whatever a step keeps of the order and the graph keeps the invariant, unless
\* the sort begins or goes on.
LEMMA OtherSteps ==
  ASSUME OrderInv, UNCHANGED <<deps, indegree, queue, order>>,
         pc' \notin {"validate", "rejected"} => \A s \in Stages : deps[s] \subseteq Stages,
         pc' \in {"validate", "search", "agents"} => order = <<>>,
         pc' # "sort"
  PROVE  OrderInv'
<1>1. OrderRespectsDeps'
  BY DEF OrderInv, OrderRespectsDeps
<1> QED
  BY <1>1 DEF OrderInv

LEMMA OrderInvStep ==
  ASSUME OrderInv, [Next]_vars
  PROVE  OrderInv'
<1> USE DEF workflow, search, sorting, grouping
<1>1. CASE CheckDependencies
  BY <1>1, OtherSteps DEF CheckDependencies, OrderInv
<1>2. CASE VisitRoot
  BY <1>2, OtherSteps DEF VisitRoot, OrderInv
<1>3. CASE VisitDependency
  BY <1>3, OtherSteps DEF VisitDependency, OrderInv
<1>4. CASE ReturnFromVisit
  BY <1>4, OtherSteps DEF ReturnFromVisit, OrderInv
<1>5. CASE NoCycle
  BY <1>5, OtherSteps DEF NoCycle, OrderInv
<1>6. CASE UndefinedAgent
  BY <1>6, OtherSteps DEF UndefinedAgent, OrderInv
<1>7. CASE StartSort
  BY <1>7, StartSortStep
<1>8. CASE PopQueue
  BY <1>8, PopQueueStep
<1>9. CASE FinishSort
  BY <1>9, OtherSteps DEF FinishSort, OrderInv
<1>10. CASE FormGroup
  BY <1>10, OtherSteps DEF FormGroup, OrderInv
<1>11. CASE FinishPlan
  BY <1>11, OtherSteps DEF FinishPlan, OrderInv
<1>12. CASE UNCHANGED vars
  BY <1>12 DEF vars, OrderInv, OrderRespectsDeps, SortInv, Ordered, Queued
<1> QED
  BY <1>1, <1>2, <1>3, <1>4, <1>5, <1>6, <1>7, <1>8, <1>9, <1>10, <1>11, <1>12 DEF Next

LEMMA OrderInvInit == Init => OrderInv
<1> SUFFICES ASSUME Init
             PROVE  OrderInv
  OBVIOUS
<1>1. deps \in [Stages -> SUBSET Names]
  BY PlannerAssumption DEF Init
<1>2. OrderRespectsDeps
  BY DEF Init, OrderRespectsDeps
<1> QED
  BY <1>1, <1>2 DEF Init, OrderInv

\* The execution order puts each stage after its dependencies, and only once: for
\* every workflow that has finitely many stages, cyclic ones included
\* (WorkflowPlanner::topological_sort).
THEOREM OrderSound == Spec => []OrderRespectsDeps
<1>1. OrderInv /\ [Next]_vars => OrderInv'
  BY OrderInvStep
<1>2. OrderInv => OrderRespectsDeps
  BY DEF OrderInv
<1> QED
  BY <1>1, <1>2, OrderInvInit, PTL DEF Spec

-------------------------------------------------------------------------------
\* The search for a cycle.

\* Some stages of S all wait for one of them.
Knotted(S) == S # {} /\ \A s \in S : deps[s] \cap S # {}

Finished == visited \ OnStack

\* Who was called from the i-th frame and has not returned.
Callee(calls, i) == IF i = 1 THEN {} ELSE {calls[i-1].stage}

\* The stack is a path of dependencies; what a frame has done with is finished,
\* but for the one stage it is waiting for.
StackInv(calls, done) ==
  /\ calls \in Seq(Frame)
  /\ \A i \in 1 .. Len(calls) :
       /\ calls[i].todo \subseteq deps[calls[i].stage]
       /\ deps[calls[i].stage] \ calls[i].todo \subseteq done \cup Callee(calls, i)
       /\ i # 1 => calls[i-1].stage \in deps[calls[i].stage]
  /\ \A i, j \in 1 .. Len(calls) : calls[i].stage = calls[j].stage => i = j

\* No dependency leads out of what is finished, and nothing there waits in a circle.
FinishedInv(done) ==
  /\ \A s \in done : deps[s] \subseteq done
  /\ ~ \E S \in SUBSET done : Knotted(S)

SearchInv ==
  /\ pc = "validate" => roots = Stages /\ visited = {} /\ frames = <<>>
  /\ pc = "search" => /\ StackInv(frames, Finished)
                      /\ roots \subseteq Stages /\ Stages \ roots \subseteq visited
                      /\ OnStack \subseteq visited
                      /\ visited \subseteq Stages
                      /\ FinishedInv(Finished)
  /\ pc = "cyclic" => Cyclic
  /\ pc \in {"agents", "sort", "group", "planned", "unsortable"} => ~Cyclic

LEMMA CyclicKnotted == Cyclic <=> \E S \in SUBSET Stages : Knotted(S)
BY DEF Cyclic, Knotted

LEMMA StackStages ==
  ASSUME frames \in Seq(Frame)
  PROVE  /\ Len(frames) \in Nat /\ DOMAIN frames = 1 .. Len(frames)
         /\ \A i \in 1 .. Len(frames) : frames[i] \in Frame /\ frames[i].stage \in Stages
         /\ OnStack = {frames[i].stage : i \in 1 .. Len(frames)} /\ OnStack \subseteq Stages
<1>1. Len(frames) \in Nat /\ DOMAIN frames = 1 .. Len(frames)
  OBVIOUS
<1>2. \A i \in 1 .. Len(frames) : frames[i] \in Frame
  OBVIOUS
<1>3. \A f \in Frame : f.stage \in Stages
  BY DEF Frame
<1> QED
  BY <1>1, <1>2, <1>3 DEF OnStack

\* The first frame of a stack waits for a stage that is not on it.
Waiting(calls, done, new) ==
  /\ \A i \in 1 .. Len(calls) :
       /\ calls[i].todo \subseteq deps[calls[i].stage]
       /\ deps[calls[i].stage] \ calls[i].todo
            \subseteq done \cup (IF i = 1 THEN {new} ELSE Callee(calls, i))
       /\ (IF i = 1 THEN new ELSE calls[i-1].stage) \in deps[calls[i].stage]
       /\ calls[i].stage # new
  /\ \A i, j \in 1 .. Len(calls) : calls[i].stage = calls[j].stage => i = j

\* It is called, on top.
LEMMA CallStack ==
  ASSUME NEW calls \in Seq(Frame), NEW done, NEW new \in Stages, deps[new] \subseteq Stages,
         Waiting(calls, done, new), Call(new, calls)
  PROVE  /\ StackInv(frames', done)
         /\ OnStack' = {calls[i].stage : i \in DOMAIN calls} \cup {new}
<1> DEFINE frame == [stage |-> new, todo |-> deps[new]]
           after == <<frame>> \o calls
<1>1. frame \in Frame /\ <<frame>> \in Seq(Frame) /\ Len(<<frame>>) = 1 /\ <<frame>>[1] = frame
  BY DEF Frame
<1>2. /\ after \in Seq(Frame) /\ Len(after) = Len(calls) + 1
      /\ DOMAIN after = 1 .. Len(calls) + 1 /\ DOMAIN calls = 1 .. Len(calls)
      /\ Len(calls) \in Nat
      /\ after[1] = frame
      /\ \A i \in 1 .. Len(calls) : after[i+1] = calls[i]
  <2>1. Len(calls) \in Nat /\ DOMAIN calls = 1 .. Len(calls)
    OBVIOUS
  <2>2. /\ after \in Seq(Frame) /\ Len(after) = 1 + Len(calls)
        /\ \A i \in 1 .. 1 + Len(calls) :
             after[i] = IF i <= 1 THEN <<frame>>[i] ELSE calls[i-1]
    BY <1>1, ConcatProperties
  <2> QED
    BY <1>1, <2>1, <2>2
<1>3. frame.stage = new /\ frame.todo = deps[new]
  OBVIOUS
<1> HIDE DEF frame, after
<1>4. \A i \in 1 .. Len(after) : i = 1 \/ \E k \in 1 .. Len(calls) : i = k + 1 /\ after[i] = calls[k]
  <2> SUFFICES ASSUME NEW i \in 1 .. Len(after), i # 1
               PROVE  i - 1 \in 1 .. Len(calls) /\ i = (i - 1) + 1 /\ after[i] = calls[i-1]
    OBVIOUS
  <2>1. i - 1 \in 1 .. Len(calls) /\ i = (i - 1) + 1
    BY <1>2
  <2> QED
    BY <1>2, <2>1
<1>5. ASSUME NEW i \in 1 .. Len(after)
      PROVE  /\ after[i].todo \subseteq deps[after[i].stage]
             /\ deps[after[i].stage] \ after[i].todo \subseteq done \cup Callee(after, i)
             /\ i # 1 => after[i-1].stage \in deps[after[i].stage]
  <2>1. CASE i = 1
    BY <1>2, <1>3, <2>1
  <2>2. CASE i # 1
    <3>1. PICK k \in 1 .. Len(calls) : i = k + 1 /\ after[i] = calls[k]
      BY <1>4, <2>2
    <3>2. after[i-1].stage = IF k = 1 THEN new ELSE calls[k-1].stage
      <4>1. CASE k = 1
        BY <1>2, <1>3, <3>1, <4>1
      <4>2. CASE k # 1
        <5>1. k - 1 \in 1 .. Len(calls) /\ i - 1 = (k - 1) + 1
          BY <1>2, <3>1, <4>2
        <5> QED
          BY <1>2, <4>2, <5>1
      <4> QED
        BY <4>1, <4>2
    <3>3. Callee(after, i) = IF k = 1 THEN {new} ELSE Callee(calls, k)
      BY <2>2, <3>2 DEF Callee
    <3> QED
      BY <3>1, <3>2, <3>3 DEF Waiting
  <2> QED
    BY <2>1, <2>2
<1>6. ASSUME NEW i \in 1 .. Len(after), NEW j \in 1 .. Len(after),
             after[i].stage = after[j].stage
      PROVE  i = j
  BY <1>2, <1>3, <1>4, <1>6 DEF Waiting
<1>7. {after[i].stage : i \in DOMAIN after} = {calls[i].stage : i \in DOMAIN calls} \cup {new}
  <2>1. ASSUME NEW i \in DOMAIN calls
        PROVE  calls[i].stage \in {after[k].stage : k \in DOMAIN after}
    <3>1. i + 1 \in DOMAIN after /\ after[i+1] = calls[i]
      BY <1>2
    <3> QED
      BY <3>1
  <2>2. 1 \in DOMAIN after /\ after[1].stage = new
    BY <1>2, <1>3
  <2>3. ASSUME NEW i \in DOMAIN after
        PROVE  after[i].stage \in {calls[k].stage : k \in DOMAIN calls} \cup {new}
    <3>1. CASE i = 1
      BY <1>2, <1>3, <3>1
    <3>2. CASE i # 1
      <4>1. i \in 1 .. Len(after)
        BY <1>2
      <4>2. PICK k \in 1 .. Len(calls) : after[i] = calls[k]
        BY <1>4, <3>2, <4>1
      <4> QED
        BY <1>2, <4>2
    <3> QED
      BY <3>1, <3>2
  <2> QED
    BY <2>1, <2>2, <2>3
<1>8. frames' = after
  BY DEF Call, frame, after
<1>9. StackInv(after, done)
  BY <1>2, <1>5, <1>6 DEF StackInv
<1> QED
  BY <1>7, <1>8, <1>9 DEF OnStack

\* The dependencies of the innermost frame but one.
LEMMA DropTodo ==
  ASSUME NEW calls \in Seq(Frame), calls # <<>>, NEW dep
  PROVE  LET rest == [calls EXCEPT ![1].todo = @ \ {dep}]
         IN /\ rest \in Seq(Frame) /\ Len(rest) = Len(calls)
            /\ \A i \in 1 .. Len(calls) :
                 /\ rest[i].stage = calls[i].stage
                 /\ rest[i].todo = IF i = 1 THEN calls[1].todo \ {dep} ELSE calls[i].todo
<1> DEFINE rest == [calls EXCEPT ![1].todo = @ \ {dep}]
<1>1. Len(calls) \in Nat /\ 1 \in 1 .. Len(calls) /\ calls[1] \in Frame
  OBVIOUS
<1> DEFINE first == [calls[1] EXCEPT !.todo = @ \ {dep}]
<1>2. first \in Frame /\ first.stage = calls[1].stage /\ first.todo = calls[1].todo \ {dep}
  BY <1>1 DEF Frame
<1>3. rest = [calls EXCEPT ![1] = first]
  OBVIOUS
<1> HIDE DEF rest, first
<1>4. /\ rest \in Seq(Frame) /\ Len(rest) = Len(calls)
      /\ \A i \in 1 .. Len(calls) : rest[i] = IF i = 1 THEN first ELSE calls[i]
  BY <1>1, <1>2, <1>3, ExceptSeq
<1> QED
  BY <1>2, <1>4 DEF rest

\* A stage all of whose dependencies are finished adds no knot.
LEMMA FinishOne ==
  ASSUME NEW done, FinishedInv(done), NEW new, new \notin done, deps[new] \subseteq done
  PROVE  FinishedInv(done \cup {new})
<1>1. ASSUME NEW S \in SUBSET (done \cup {new}), Knotted(S)
      PROVE  FALSE
  <2>1. S \ {new} \in SUBSET done
    OBVIOUS
  <2>2. \A s \in S : deps[s] \subseteq done /\ deps[s] \cap S # {}
    BY <1>1 DEF Knotted, FinishedInv
  <2>3. \A s \in S : deps[s] \cap (S \ {new}) # {}
    BY <2>2
  <2>4. S \ {new} # {}
    BY <1>1, <2>3 DEF Knotted
  <2> QED
    BY <2>1, <2>3, <2>4 DEF Knotted, FinishedInv
<1> QED
  BY <1>1 DEF FinishedInv

LEMMA SearchStep ==
  ASSUME SearchInv, OrderInv, pc = "search",
         VisitRoot \/ VisitDependency \/ ReturnFromVisit \/ NoCycle
  PROVE  SearchInv'
<1>0. /\ deps' = deps /\ \A s \in Stages : deps[s] \subseteq Stages
      /\ StackInv(frames, Finished) /\ OnStack \subseteq visited /\ visited \subseteq Stages
      /\ FinishedInv(Finished) /\ roots \subseteq Stages /\ Stages \ roots \subseteq visited
      /\ Len(frames) \in Nat /\ DOMAIN frames = 1 .. Len(frames) /\ frames \in Seq(Frame)
      /\ \A i \in 1 .. Len(frames) : frames[i].stage \in Stages
      /\ OnStack = {frames[i].stage : i \in 1 .. Len(frames)}
  BY StackStages DEF SearchInv, OrderInv, StackInv, VisitRoot, VisitDependency,
     ReturnFromVisit, NoCycle, workflow
\* What remains to be shown of a step that stays in the search.
<1>1. ASSUME pc' = pc, StackInv(frames', Finished'), OnStack' \subseteq visited',
             visited' \subseteq Stages, FinishedInv(Finished'),
             roots' \subseteq Stages, Stages \ roots' \subseteq visited'
      PROVE  SearchInv'
  BY <1>0, <1>1 DEF SearchInv, StackInv, FinishedInv, Knotted, Callee
<1>2. CASE VisitRoot
  <2>1. PICK s \in roots : /\ roots' = roots \ {s}
                           /\ IF s \notin visited THEN Call(s, <<>>)
                              ELSE UNCHANGED <<visited, frames>>
    BY <1>2 DEF VisitRoot
  <2>2. frames = <<>> /\ pc' = pc /\ s \in Stages /\ OnStack = {}
    <3>1. DOMAIN <<>> = {}
      OBVIOUS
    <3> QED
      BY <1>0, <1>2, <2>1, <3>1 DEF VisitRoot, OnStack
  <2>3. CASE s \notin visited
    <3>1. Call(s, <<>>)
      BY <2>1, <2>3
    <3>2. <<>> \in Seq(Frame) /\ Waiting(<<>>, Finished, s)
      <4>1. Len(<<>>) = 0 /\ 1 .. 0 = {}
        OBVIOUS
      <4>2. \A i \in 1 .. Len(<<>>) : FALSE
        BY <4>1
      <4> QED
        BY <4>2 DEF Waiting
    <3>3. /\ StackInv(frames', Finished) /\ visited' = visited \cup {s}
          /\ OnStack' = {s}
      <4>1. deps[s] \subseteq Stages
        BY <1>0, <2>2
      <4>2. /\ StackInv(frames', Finished)
            /\ OnStack' = {<<>>[i].stage : i \in DOMAIN <<>>} \cup {s}
        BY <2>2, <3>1, <3>2, <4>1, CallStack
      <4>3. DOMAIN <<>> = {}
        OBVIOUS
      <4>4. {<<>>[i].stage : i \in DOMAIN <<>>} = {}
        BY <4>3
      <4> QED
        BY <3>1, <4>2, <4>4 DEF Call
    <3>4. Finished' = Finished
      BY <2>2, <2>3, <3>3 DEF Finished
    <3> QED
      BY <1>0, <1>1, <2>1, <2>2, <3>3, <3>4
  <2>4. CASE s \in visited
    <3>1. visited' = visited /\ frames' = frames
      BY <2>1, <2>4
    <3>2. OnStack' = OnStack /\ Finished' = Finished
      BY <3>1 DEF OnStack, Finished
    <3> QED
      BY <1>0, <1>1, <2>1, <2>2, <2>4, <3>1, <3>2
  <2> QED
    BY <2>3, <2>4
<1>3. CASE VisitDependency
  <2>1. PICK dep \in Head(frames).todo :
          LET rest == [frames EXCEPT ![1].todo = @ \ {dep}]
          IN IF dep \in OnStack THEN pc' = "cyclic" /\ UNCHANGED search
             ELSE /\ IF dep \notin visited THEN Call(dep, rest)
                     ELSE frames' = rest /\ UNCHANGED visited
                  /\ UNCHANGED <<pc, roots>>
    BY <1>3 DEF VisitDependency
  <2> DEFINE rest == [frames EXCEPT ![1].todo = @ \ {dep}]
  <2>2. /\ frames # <<>> /\ 1 \in 1 .. Len(frames) /\ dep \in frames[1].todo
        /\ frames[1].todo \subseteq deps[frames[1].stage] /\ dep \in Stages
        /\ deps[dep] \subseteq Stages
    BY <1>0, <1>3 DEF VisitDependency, StackInv
  <2>3. /\ rest \in Seq(Frame) /\ Len(rest) = Len(frames)
        /\ \A i \in 1 .. Len(frames) :
             /\ rest[i].stage = frames[i].stage
             /\ rest[i].todo = IF i = 1 THEN frames[1].todo \ {dep} ELSE frames[i].todo
    BY <1>0, <2>2, DropTodo
  <2>4. \A i \in 1 .. Len(frames) : i # 1 => i - 1 \in 1 .. Len(frames)
    BY <1>0
  <2>5. CASE dep \in OnStack
    <3>1. PICK k \in 1 .. Len(frames) : frames[k].stage = dep
      BY <1>0, <2>5
    <3> DEFINE S == {frames[i].stage : i \in 1 .. k}
    <3>2. 1 \in 1 .. k /\ k \in 1 .. k /\ 1 .. k \subseteq 1 .. Len(frames)
      BY <1>0, <3>1
    <3>3. S \subseteq Stages /\ S # {}
      BY <1>0, <3>2
    <3>4. ASSUME NEW i \in 1 .. k
          PROVE  deps[frames[i].stage] \cap S # {}
      <4>1. CASE i = 1
        BY <2>2, <3>1, <3>2, <4>1
      <4>2. CASE i # 1
        <5>1. i - 1 \in 1 .. k /\ frames[i-1].stage \in deps[frames[i].stage]
          BY <1>0, <3>2, <4>2 DEF StackInv
        <5> QED
          BY <5>1
      <4> QED
        BY <4>1, <4>2
    <3> HIDE DEF rest
    <3>5. Cyclic
      <4>1. \A s \in S : deps[s] \cap S # {}
        BY <3>4
      <4> HIDE DEF S
      <4> QED
        BY <3>3, <4>1 DEF Cyclic
    <3>6. pc' = "cyclic"
      BY <2>1, <2>5
    <3> QED
      BY <1>0, <3>5, <3>6 DEF SearchInv, Cyclic
  <2>6. CASE dep \notin OnStack /\ dep \notin visited
    <3>1. Call(dep, rest) /\ pc' = pc /\ roots' = roots
      BY <2>1, <2>6
    <3> HIDE DEF rest
    <3>2. ASSUME NEW i \in 1 .. Len(rest)
          PROVE  /\ rest[i].todo \subseteq deps[rest[i].stage]
                 /\ deps[rest[i].stage] \ rest[i].todo
                      \subseteq Finished \cup (IF i = 1 THEN {dep} ELSE Callee(rest, i))
                 /\ (IF i = 1 THEN dep ELSE rest[i-1].stage) \in deps[rest[i].stage]
                 /\ rest[i].stage # dep
      <4>1. rest[i].stage = frames[i].stage /\ rest[i].stage # dep
        BY <1>0, <2>3, <2>6
      <4>2. CASE i = 1
        BY <1>0, <2>2, <2>3, <4>1, <4>2 DEF StackInv, Callee
      <4>3. CASE i # 1
        <5>1. rest[i-1].stage = frames[i-1].stage /\ Callee(rest, i) = Callee(frames, i)
              /\ rest[i].todo = frames[i].todo
          BY <2>3, <2>4, <4>3 DEF Callee
        <5> QED
          BY <1>0, <2>3, <4>1, <4>3, <5>1 DEF StackInv
      <4> QED
        BY <4>2, <4>3
    <3>3. \A i, j \in 1 .. Len(rest) : rest[i].stage = rest[j].stage => i = j
      BY <1>0, <2>3 DEF StackInv
    <3>4. Waiting(rest, Finished, dep)
      BY <3>2, <3>3 DEF Waiting
    <3>5. {rest[i].stage : i \in DOMAIN rest} = OnStack
      <4>1. DOMAIN rest = 1 .. Len(frames)
        BY <2>3
      <4> QED
        BY <1>0, <2>3, <4>1
    <3>6. /\ StackInv(frames', Finished) /\ OnStack' = OnStack \cup {dep}
          /\ visited' = visited \cup {dep}
      BY <2>2, <2>3, <3>1, <3>4, <3>5, CallStack DEF Call
    <3>7. Finished' = Finished
      BY <2>6, <3>6 DEF Finished
    <3> QED
      BY <1>0, <1>1, <2>2, <3>1, <3>6, <3>7
  <2>7. CASE dep \notin OnStack /\ dep \in visited
    <3>1. frames' = rest /\ visited' = visited /\ pc' = pc /\ roots' = roots
      BY <2>1, <2>7
    <3> HIDE DEF rest
    <3>2. OnStack' = OnStack
      BY <1>0, <2>3, <3>1 DEF OnStack
    <3>3. Finished' = Finished /\ dep \in Finished
      BY <2>7, <3>1, <3>2 DEF Finished
    <3>4. ASSUME NEW i \in 1 .. Len(rest)
          PROVE  /\ rest[i].todo \subseteq deps[rest[i].stage]
                 /\ deps[rest[i].stage] \ rest[i].todo \subseteq Finished \cup Callee(rest, i)
                 /\ i # 1 => rest[i-1].stage \in deps[rest[i].stage]
      <4>1. CASE i = 1
        BY <1>0, <2>2, <2>3, <3>3, <4>1 DEF StackInv, Callee
      <4>2. CASE i # 1
        <5>1. rest[i-1].stage = frames[i-1].stage /\ Callee(rest, i) = Callee(frames, i)
              /\ rest[i].todo = frames[i].todo /\ rest[i].stage = frames[i].stage
          BY <2>3, <2>4, <4>2 DEF Callee
        <5> QED
          BY <1>0, <2>3, <4>2, <5>1 DEF StackInv
      <4> QED
        BY <4>1, <4>2
    <3>5. \A i, j \in 1 .. Len(rest) : rest[i].stage = rest[j].stage => i = j
      BY <1>0, <2>3 DEF StackInv
    <3>6. StackInv(frames', Finished')
      BY <2>3, <3>1, <3>3, <3>4, <3>5 DEF StackInv
    <3> QED
      BY <1>0, <1>1, <3>1, <3>2, <3>3, <3>6
  <2> QED
    BY <2>5, <2>6, <2>7
<1>4. CASE ReturnFromVisit
  <2> DEFINE s == frames[1].stage
  <2>1. /\ frames # <<>> /\ frames[1].todo = {} /\ frames' = Tail(frames)
        /\ visited' = visited /\ pc' = pc /\ roots' = roots
    BY <1>4 DEF ReturnFromVisit, search
  <2>2. /\ 1 \in 1 .. Len(frames) /\ s \in Stages /\ s \in OnStack
        /\ deps[s] \subseteq Finished
    <3>1. 1 \in 1 .. Len(frames)
      BY <1>0, <2>1
    <3> QED
      BY <1>0, <2>1, <3>1 DEF StackInv, Callee
  <2>3. /\ frames' \in Seq(Frame) /\ Len(frames') = Len(frames) - 1
        /\ \A i \in 1 .. Len(frames') : frames'[i] = frames[i+1]
        /\ DOMAIN frames' = 1 .. Len(frames')
    BY <1>0, <2>1, HeadTailProperties
  <2>4. OnStack' = OnStack \ {s}
    <3>1. ASSUME NEW i \in 1 .. Len(frames')
          PROVE  frames'[i].stage \in OnStack \ {s}
      <4>1. i + 1 \in 1 .. Len(frames) /\ i + 1 # 1
        BY <1>0, <2>3
      <4> QED
        BY <1>0, <2>2, <2>3, <4>1 DEF StackInv
    <3>2. ASSUME NEW i \in 1 .. Len(frames), frames[i].stage # s
          PROVE  frames[i].stage \in OnStack'
      <4>1. i - 1 \in 1 .. Len(frames') /\ (i - 1) + 1 = i
        BY <1>0, <2>3, <3>2
      <4>2. frames'[i-1] = frames[i]
        BY <2>3, <4>1
      <4> QED
        BY <2>3, <4>1, <4>2 DEF OnStack
    <3>3. OnStack' = {frames'[i].stage : i \in 1 .. Len(frames')}
      BY <2>3 DEF OnStack
    <3> QED
      BY <1>0, <3>1, <3>2, <3>3
  <2>5. Finished' = Finished \cup {s} /\ s \notin Finished
    BY <1>0, <2>1, <2>2, <2>4 DEF Finished
  <2>6. FinishedInv(Finished')
    BY <1>0, <2>2, <2>5, FinishOne
  <2>7. ASSUME NEW i \in 1 .. Len(frames')
        PROVE  /\ frames'[i].todo \subseteq deps[frames'[i].stage]
               /\ deps[frames'[i].stage] \ frames'[i].todo
                    \subseteq Finished' \cup Callee(frames', i)
               /\ i # 1 => frames'[i-1].stage \in deps[frames'[i].stage]
    <3>1. i + 1 \in 1 .. Len(frames) /\ i + 1 # 1 /\ (i + 1) - 1 = i /\ frames'[i] = frames[i+1]
      BY <1>0, <2>3
    <3>2. /\ frames[i+1].todo \subseteq deps[frames[i+1].stage]
          /\ deps[frames[i+1].stage] \ frames[i+1].todo \subseteq Finished \cup {frames[i].stage}
          /\ frames[i].stage \in deps[frames[i+1].stage]
      BY <1>0, <3>1 DEF StackInv, Callee
    <3>3. CASE i = 1
      BY <2>5, <3>1, <3>2, <3>3
    <3>4. CASE i # 1
      <4>1. i - 1 \in 1 .. Len(frames') /\ (i - 1) + 1 = i
        BY <1>0, <2>3, <3>4
      <4>2. frames'[i-1] = frames[i] /\ Callee(frames', i) = {frames[i].stage}
        BY <2>3, <3>4, <4>1 DEF Callee
      <4> QED
        BY <2>5, <3>1, <3>2, <4>2
    <3> QED
      BY <3>3, <3>4
  <2>8. ASSUME NEW i \in 1 .. Len(frames'), NEW j \in 1 .. Len(frames'),
               frames'[i].stage = frames'[j].stage
        PROVE  i = j
    <3>1. i + 1 \in 1 .. Len(frames) /\ j + 1 \in 1 .. Len(frames)
      BY <1>0, <2>3
    <3>2. frames[i+1].stage = frames[j+1].stage
      BY <2>3, <2>8
    <3>3. i + 1 = j + 1
      BY <1>0, <3>1, <3>2 DEF StackInv
    <3> QED
      BY <1>0, <2>3, <3>3
  <2>9. StackInv(frames', Finished')
    BY <2>3, <2>7, <2>8 DEF StackInv
  <2> QED
    BY <1>0, <1>1, <2>1, <2>4, <2>6, <2>9
<1>5. CASE NoCycle
  <2>1. OnStack = {} /\ visited = Stages /\ pc' = "agents"
    BY <1>0, <1>5 DEF NoCycle
  <2>2. ~ Cyclic
    BY <1>0, <2>1, CyclicKnotted DEF Finished, FinishedInv
  <2> QED
    BY <1>0, <2>1, <2>2 DEF SearchInv, Cyclic
<1> QED
  BY <1>2, <1>3, <1>4, <1>5

LEMMA SearchInvStep ==
  ASSUME SearchInv, OrderInv, [Next]_vars
  PROVE  SearchInv'
<1>1. CASE CheckDependencies
  <2>1. /\ frames' = <<>> /\ visited' = {} /\ roots' = Stages /\ deps' = deps
        /\ pc' \in {"search", "rejected"}
    BY <1>1 DEF CheckDependencies, SearchInv, workflow, search
  <2>2. DOMAIN <<>> = {} /\ Len(<<>>) = 0 /\ 1 .. 0 = {} /\ <<>> \in Seq(Frame)
    OBVIOUS
  <2>3. OnStack' = {} /\ Finished' = {}
    BY <2>1, <2>2 DEF OnStack, Finished
  <2>4. StackInv(frames, Finished)'
    <3>1. \A i \in 1 .. Len(frames') : FALSE
      BY <2>1, <2>2
    <3> QED
      BY <2>1, <2>2, <3>1 DEF StackInv
  <2>5. FinishedInv(Finished)'
    BY <2>3 DEF FinishedInv, Knotted
  <2> QED
    BY <2>1, <2>3, <2>4, <2>5 DEF SearchInv
<1>2. CASE VisitRoot \/ VisitDependency \/ ReturnFromVisit \/ NoCycle
  <2>1. pc = "search"
    BY <1>2 DEF VisitRoot, VisitDependency, ReturnFromVisit, NoCycle
  <2> QED
    BY <1>2, <2>1, SearchStep
<1>3. CASE UndefinedAgent \/ StartSort \/ PopQueue \/ FinishSort \/ FormGroup \/ FinishPlan
  <2>1. /\ deps' = deps /\ pc \in {"agents", "sort", "group"}
        /\ pc' \in {"rejected", "sort", "group", "unsortable", "planned"}
    BY <1>3 DEF UndefinedAgent, StartSort, PopQueue, FinishSort, FormGroup, FinishPlan, workflow
  <2> QED
    BY <2>1 DEF SearchInv, Cyclic
<1>4. CASE UNCHANGED vars
  BY <1>4 DEF vars, workflow, search, SearchInv, StackInv, FinishedInv, Finished, OnStack,
     Knotted, Callee, Cyclic
<1> QED
  BY <1>1, <1>2, <1>3, <1>4 DEF Next

LEMMA SearchInvInit == Init => SearchInv
BY DEF Init, SearchInv

\* detect_cycle finds a cycle exactly if there is one: for every finite workflow and
\* every dependency graph (WorkflowPlanner::detect_cycle).
THEOREM CycleFound == Spec => []CycleFoundExactly
<1>1. Init => OrderInv /\ SearchInv
  BY OrderInvInit, SearchInvInit
<1>2. OrderInv /\ SearchInv /\ [Next]_vars => (OrderInv /\ SearchInv)'
  BY OrderInvStep, SearchInvStep
<1>3. SearchInv => CycleFoundExactly
  BY DEF SearchInv, CycleFoundExactly
<1> QED
  BY <1>1, <1>2, <1>3, PTL DEF Spec

-------------------------------------------------------------------------------
\* The end of the sort.

\* A queue that runs dry has served every stage of a graph without cycles.
LEMMA SortComplete ==
  ASSUME OrderInv, SearchInv, pc = "sort", queue = <<>>
  PROVE  Ordered = Stages /\ Len(order) = Cardinality(Stages)
<1>1. /\ SortInv /\ ~ Cyclic /\ Queued = {} /\ \A s \in Stages : deps[s] \subseteq Stages
      /\ order \in Seq(Stages) /\ OrderRespectsDeps
  BY DEF OrderInv, SearchInv, Queued, ToSet
<1>2. Ordered \subseteq Stages
  BY <1>1 DEF Ordered, ToSet
<1>3. ASSUME Stages \ Ordered # {}
      PROVE  FALSE
  <2>1. \A s \in Stages \ Ordered : deps[s] \cap (Stages \ Ordered) # {}
    BY <1>1 DEF SortInv
  <2>2. Stages \ Ordered \in SUBSET Stages
    OBVIOUS
  <2> QED
    BY <1>1, <1>3, <2>1, <2>2 DEF Cyclic
<1>4. Ordered = Stages
  BY <1>2, <1>3
<1>5. Len(order) \in Nat /\ DOMAIN order = 1 .. Len(order)
      /\ order \in [1 .. Len(order) -> Stages]
  BY <1>1
<1>6. ASSUME NEW i \in 1 .. Len(order), NEW j \in 1 .. Len(order), order[i] = order[j], i < j
      PROVE  FALSE
  <2>1. i \in 1 .. j-1 /\ j \in DOMAIN order
    BY <1>5, <1>6
  <2>2. order[j] \notin {order[k] : k \in 1 .. j-1}
    BY <1>1, <2>1 DEF OrderRespectsDeps
  <2> QED
    BY <1>6, <2>1, <2>2
<1>7. \A i, j \in 1 .. Len(order) : order[i] = order[j] => i = j
  BY <1>5, <1>6
<1>8. order \in Bijection(1 .. Len(order), Stages)
  BY <1>4, <1>5, <1>7 DEF Ordered, ToSet, Bijection, Injection, IsInjective, Surjection
<1>9. \A n \in Nat : IsFiniteSet(1 .. n) /\ Cardinality(1 .. n) = n
  BY FS_Interval
<1>10. Cardinality(1 .. Len(order)) = Cardinality(Stages)
  <2>1. ExistsBijection(1 .. Len(order), Stages)
    BY <1>8 DEF ExistsBijection
  <2> QED
    BY <1>5, <1>9, <2>1, FS_Bijection
<1> QED
  BY <1>4, <1>5, <1>9, <1>10

LEMMA SortSucceedsStep ==
  ASSUME OrderInv, SearchInv, SortSucceeds, [Next]_vars
  PROVE  SortSucceeds'
<1>1. CASE FinishSort
  <2>1. Len(order) = Cardinality(Stages)
    BY <1>1, SortComplete DEF FinishSort
  <2> QED
    BY <1>1, <2>1 DEF FinishSort, SortSucceeds
<1>2. CASE CheckDependencies \/ VisitRoot \/ VisitDependency \/ ReturnFromVisit \/ NoCycle
  BY <1>2 DEF CheckDependencies, VisitRoot, VisitDependency, ReturnFromVisit, NoCycle,
     SortSucceeds
<1>3. CASE UndefinedAgent \/ StartSort \/ PopQueue \/ FormGroup \/ FinishPlan
  BY <1>3 DEF UndefinedAgent, StartSort, PopQueue, FormGroup, FinishPlan, SortSucceeds
<1>4. CASE UNCHANGED vars
  BY <1>4 DEF vars, SortSucceeds
<1> QED
  BY <1>1, <1>2, <1>3, <1>4 DEF Next

-------------------------------------------------------------------------------
\* The groups.

\* What the inner loop of the grouping assigns: the stage it was opened for, stages
\* whose dependencies are assigned, too, and which do not depend on it, and every
\* stage whose dependencies were assigned before.
LEMMA TakenStages ==
  ASSUME order \in Seq(Stages), assigned \subseteq Stages, NEW s \in Stages,
         s \notin assigned, deps[s] \subseteq assigned
  PROVE  /\ assigned \cup {s} \subseteq AssignedWith(s) /\ AssignedWith(s) \subseteq Stages
         /\ \A t \in AssignedWith(s) \ assigned :
              deps[t] \subseteq AssignedWith(s) /\ s \notin deps[t]
         /\ \A t \in Ordered : deps[t] \subseteq assigned => t \in AssignedWith(s)
<1> DEFINE n == Len(order)
           Closed == {X \in SUBSET Stages : /\ assigned \cup {s} \subseteq X
                                            /\ \A t \in X \ assigned :
                                                 deps[t] \subseteq X /\ s \notin deps[t]}
           joins(X, i) == {t \in {order[i]} : MayJoin(s, t, X)}
           step == [p \in Closed \X Nat |->
                      IF p[2] \in 1 .. n THEN p[1] \cup joins(p[1], p[2]) ELSE p[1]]
           taken[j \in 0 .. n] ==
             IF j = 0 THEN assigned \cup {s} ELSE taken[j-1] \cup joins(taken[j-1], j)
<1>1. n \in Nat /\ \A i \in 1 .. n : order[i] \in Stages
  OBVIOUS
<1>2. AssignedWith(s) = taken[n]
  BY DEF AssignedWith
<1>3. assigned \cup {s} \in Closed
  OBVIOUS
<1>4. ASSUME NEW X \in Closed, NEW i \in 1 .. n
      PROVE  X \cup joins(X, i) \in Closed
  BY <1>1 DEF MayJoin
<1>5. step \in [Closed \X Nat -> Closed]
  <2> HIDE DEF n, Closed, joins
  <2>1. \A X \in Closed, i \in Nat : (IF i \in 1 .. n THEN X \cup joins(X, i) ELSE X) \in Closed
    BY <1>4
  <2> DEFINE one(X, i) == IF i \in 1 .. n THEN X \cup joins(X, i) ELSE X
  <2>2. \A X \in Closed, i \in Nat : one(X, i) \in Closed
    BY <2>1
  <2>3. step = [p \in Closed \X Nat |-> one(p[1], p[2])]
    BY DEF step
  <2> HIDE DEF one, step
  <2> QED
    BY <2>2, <2>3
<1>6. \A X \in Closed, i \in 1 .. n : step[<<X, i>>] = X \cup joins(X, i)
  OBVIOUS
<1> DEFINE turn(g, j) == IF j = 0 THEN assigned \cup {s} ELSE g[j-1] \cup joins(g[j-1], j)
<1>7. taken = CHOOSE g : g = [j \in 0 .. n |-> turn(g, j)]
  OBVIOUS
<1>a. ASSUME NEW X \in Closed, NEW i \in 1 .. n, deps[order[i]] \subseteq assigned
      PROVE  order[i] \in X \cup joins(X, i)
  BY <1>a DEF MayJoin
<1> HIDE DEF n, Closed, joins, step, taken
<1>8. PICK g \in [0 .. n -> Closed] : Turns(g, Closed, assigned \cup {s}, step, n)
  BY <1>1, <1>3, <1>5, Recursion
<1>9. g = [j \in 0 .. n |-> turn(g, j)]
  <2> SUFFICES ASSUME NEW j \in 0 .. n
               PROVE  g[j] = turn(g, j)
    BY <1>8
  <2>1. CASE j = 0
    BY <1>8, <2>1 DEF Turns
  <2>2. CASE j # 0
    <3>1. j \in 1 .. n /\ j - 1 \in 0 .. n
      BY <1>1, <2>2
    <3>2. g[j-1] \in Closed /\ g[j] = step[<<g[j-1], j>>]
      BY <1>8, <3>1 DEF Turns
    <3> QED
      BY <1>6, <2>2, <3>1, <3>2
  <2> QED
    BY <2>1, <2>2
<1>10. taken = [j \in 0 .. n |-> turn(taken, j)]
  BY <1>7, <1>9
<1>11. Turns(taken, Closed, assigned \cup {s}, step, n)
  <2>1. taken[0] = assigned \cup {s}
    BY <1>1, <1>10
  <2>2. \A j \in 1 .. n : taken[j] = taken[j-1] \cup joins(taken[j-1], j)
    <3>1. \A j \in 1 .. n : j \in 0 .. n /\ j # 0
      BY <1>1
    <3>2. \A j \in 0 .. n : taken[j] = turn(taken, j)
      BY <1>10
    <3> QED
      BY <3>1, <3>2
  <2> QED
    BY <1>6, <2>1, <2>2 DEF Turns
<1>12. \A j \in 0 .. n : taken[j] \in Closed
  BY <1>1, <1>3, <1>5, <1>11, TurnsStay
<1>13. \A j \in 1 .. n : taken[j] = taken[j-1] \cup joins(taken[j-1], j)
  <2>1. \A j \in 1 .. n : j \in 0 .. n /\ j # 0
    BY <1>1
  <2>2. \A j \in 0 .. n : taken[j] = turn(taken, j)
    BY <1>10
  <2> QED
    BY <2>1, <2>2
<1>14. ASSUME NEW t \in Ordered, deps[t] \subseteq assigned
       PROVE  t \in taken[n]
  <2>1. PICK k \in 1 .. n : order[k] = t
    BY <1>1 DEF Ordered, ToSet, n
  <2>2. t \in taken[k]
    <3>1. k - 1 \in 0 .. n
      BY <1>1
    <3> QED
      BY <1>12, <1>13, <1>14, <1>a, <2>1, <3>1
  <2> DEFINE Lost == {j \in k .. n : t \notin taken[j]}
  <2>3. ASSUME Lost # {}
        PROVE  FALSE
    <3>1. PICK j \in Lost : \A m \in Lost : j <= m
      <4>1. Lost \subseteq Nat
        BY <1>1
      <4> HIDE DEF Lost
      <4> QED
        BY <2>3, <4>1, LeastNat
    <3>2. j \in 1 .. n /\ j - 1 \in k .. n /\ ~ (j <= j - 1)
      BY <1>1, <2>2
    <3>3. t \in taken[j-1]
      BY <3>1, <3>2
    <3> QED
      BY <1>13, <3>2, <3>3
  <2>4. n \in k .. n
    BY <1>1
  <2> QED
    BY <2>3, <2>4
<1>15. taken[n] \in Closed
  <2>1. n \in 0 .. n
    BY <1>1
  <2> QED
    BY <1>12, <2>1
<1> QED
  BY <1>2, <1>14, <1>15 DEF Closed

FirstGroups(gs, i) == UNION {gs[j] : j \in 1 .. i}

\* What a group starts from: a stage that depends on earlier groups, and on which no
\* stage of the group depends.
Opener(gs, i, s) ==
  deps[s] \subseteq FirstGroups(gs, i-1) /\ \A t \in gs[i] : s \notin deps[t]

\* all falls into the groups gs, and what a stage depends on into its own group or
\* the ones before it.  A group has an opener, and leaves over no stage that could
\* have been one.
Grouped(gs, all) ==
  /\ all = FirstGroups(gs, Len(gs))
  /\ \A i \in 1 .. Len(gs) : \A s \in gs[i] : deps[s] \subseteq FirstGroups(gs, i)
  /\ \A i, j \in 1 .. Len(gs) : i # j => gs[i] \cap gs[j] = {}
  /\ \A i \in 1 .. Len(gs) : \E s \in gs[i] : Opener(gs, i, s)
  /\ \A i \in 1 .. Len(gs) : \A s \in Stages :
       deps[s] \subseteq FirstGroups(gs, i-1) => s \in FirstGroups(gs, i)

GroupInv ==
  /\ next \in Nat /\ assigned \in SUBSET Stages /\ groups \in Seq(SUBSET Stages)
  /\ pc \in {"validate", "search", "agents", "sort"} => next = 1 /\ assigned = {} /\ groups = <<>>
  /\ pc \in {"group", "planned"} => /\ Ordered = Stages /\ next \in 1 .. Len(order) + 1
                                    /\ \A i \in 1 .. next - 1 : order[i] \in assigned
                                    /\ Grouped(groups, assigned)
  /\ pc = "planned" => next = Len(order) + 1

LEMMA AddGroup ==
  ASSUME NEW gs \in Seq(SUBSET Stages), NEW all, Grouped(gs, all), NEW new \in SUBSET Stages,
         new \cap all = {}, \A s \in new : deps[s] \subseteq all \cup new,
         NEW o \in new, deps[o] \subseteq all, \A s \in new : o \notin deps[s],
         \A s \in Stages : deps[s] \subseteq all => s \in all \cup new
  PROVE  Append(gs, new) \in Seq(SUBSET Stages) /\ Grouped(Append(gs, new), all \cup new)
<1> DEFINE after == Append(gs, new)
           n == Len(gs)
<1>1. /\ after \in Seq(SUBSET Stages) /\ n \in Nat /\ Len(after) = n + 1
      /\ \A i \in 1 .. n : after[i] = gs[i]
      /\ after[n + 1] = new
  BY AppendProperties
<1>2. 1 .. n + 1 = (1 .. n) \cup {n + 1}
  BY <1>1
<1> HIDE DEF after, n
<1>3. ASSUME NEW i \in 1 .. n
      PROVE  FirstGroups(after, i) = FirstGroups(gs, i) /\ gs[i] \subseteq all
  <2>1. \A j \in 1 .. i : j \in 1 .. n
    BY <1>1
  <2>2. {after[j] : j \in 1 .. i} = {gs[j] : j \in 1 .. i}
    BY <1>1, <2>1
  <2> QED
    <3>1. FirstGroups(after, i) = FirstGroups(gs, i)
      BY <2>2 DEF FirstGroups
    <3>2. gs[i] \subseteq all
      BY DEF FirstGroups, Grouped, n
    <3> QED
      BY <3>1, <3>2
<1>4. FirstGroups(after, n + 1) = all \cup new
  <2>1. {after[j] : j \in 1 .. n + 1} = {gs[j] : j \in 1 .. n} \cup {new}
    BY <1>1, <1>2
  <2>2. all = UNION {gs[j] : j \in 1 .. n}
    BY DEF Grouped, FirstGroups, n
  <2>3. FirstGroups(after, n + 1) = UNION ({gs[j] : j \in 1 .. n} \cup {new})
    BY <2>1 DEF FirstGroups
  <2>4. \A S : UNION (S \cup {new}) = (UNION S) \cup new
    BY Zenon
  <2> QED
    BY <2>2, <2>3, <2>4
<1>5. ASSUME NEW i \in 1 .. n + 1, NEW s \in after[i]
      PROVE  deps[s] \subseteq FirstGroups(after, i)
  <2>1. CASE i \in 1 .. n
    BY <1>1, <1>3, <2>1 DEF Grouped, n
  <2>2. CASE i = n + 1
    BY <1>1, <1>4, <2>2
  <2> QED
    BY <1>2, <2>1, <2>2
<1>6. ASSUME NEW i \in 1 .. n + 1, NEW j \in 1 .. n + 1, i # j
      PROVE  after[i] \cap after[j] = {}
  <2>1. CASE i \in 1 .. n /\ j \in 1 .. n
    BY <1>1, <1>6, <2>1 DEF Grouped, n
  <2>2. CASE i \in 1 .. n /\ j = n + 1
    BY <1>1, <1>3, <2>2
  <2>3. CASE i = n + 1 /\ j \in 1 .. n
    BY <1>1, <1>3, <2>3
  <2> QED
    BY <1>2, <1>6, <2>1, <2>2, <2>3
<1>7. ASSUME NEW i \in 1 .. n + 1
      PROVE  FirstGroups(after, i-1) = IF i = n + 1 THEN all ELSE FirstGroups(gs, i-1)
  <2>1. \A j \in 1 .. i-1 : j \in 1 .. n
    BY <1>1
  <2>2. {after[j] : j \in 1 .. i-1} = {gs[j] : j \in 1 .. i-1}
    BY <1>1, <2>1
  <2>3. FirstGroups(after, i-1) = FirstGroups(gs, i-1)
    BY <2>2 DEF FirstGroups
  <2>4. CASE i = n + 1
    <3>1. i - 1 = n
      BY <1>1, <2>4
    <3> QED
      BY <2>3, <2>4, <3>1 DEF Grouped, n
  <2> QED
    BY <2>3, <2>4
<1>8. ASSUME NEW i \in 1 .. n + 1
      PROVE  /\ \E s \in after[i] : Opener(after, i, s)
             /\ \A s \in Stages :
                  deps[s] \subseteq FirstGroups(after, i-1) => s \in FirstGroups(after, i)
  <2>1. CASE i \in 1 .. n
    <3>1. i # n + 1
      BY <1>1, <2>1
    <3>2. /\ FirstGroups(after, i-1) = FirstGroups(gs, i-1) /\ after[i] = gs[i]
          /\ FirstGroups(after, i) = FirstGroups(gs, i)
      BY <1>1, <1>3, <1>7, <2>1, <3>1
    <3>3. /\ \E s \in gs[i] : Opener(gs, i, s)
          /\ \A s \in Stages : deps[s] \subseteq FirstGroups(gs, i-1) => s \in FirstGroups(gs, i)
      BY <2>1 DEF Grouped, n
    <3> QED
      BY <3>2, <3>3 DEF Opener
  <2>2. CASE i = n + 1
    <3>1. FirstGroups(after, i-1) = all /\ FirstGroups(after, i) = all \cup new /\ after[i] = new
      BY <1>1, <1>4, <1>7, <2>2
    <3>2. \A s \in Stages : deps[s] \subseteq all => s \in all \cup new
      OBVIOUS
    <3>3. o \in after[i] /\ Opener(after, i, o)
      BY <3>1 DEF Opener
    <3> HIDE DEF Opener
    <3> QED
      BY <3>1, <3>2, <3>3
  <2> QED
    BY <1>2, <2>1, <2>2
<1>9. Grouped(after, all \cup new)
  BY <1>1, <1>4, <1>5, <1>6, <1>8 DEF Grouped
<1> QED
  BY <1>1, <1>9 DEF after

\* One turn of the outer loop: the stage it looks at is in a group afterwards, for
\* everything it depends on was looked at before it.
LEMMA FormGroupStep ==
  ASSUME OrderInv, GroupInv, FormGroup
  PROVE  GroupInv'
<1> DEFINE s == order[next]
           new == AssignedWith(s) \ assigned
<1>1. /\ pc = "group" /\ next \in 1 .. Len(order) /\ next' = next + 1
      /\ UNCHANGED <<deps, order, pc>>
      /\ order \in Seq(Stages) /\ Len(order) \in Nat /\ DOMAIN order = 1 .. Len(order)
      /\ OrderRespectsDeps /\ Ordered = Stages /\ assigned \in SUBSET Stages
      /\ groups \in Seq(SUBSET Stages) /\ Grouped(groups, assigned) /\ next \in Nat
      /\ \A i \in 1 .. next - 1 : order[i] \in assigned
  <2>1. /\ pc = "group" /\ next <= Len(order) /\ next' = next + 1
        /\ UNCHANGED <<deps, order, pc>>
    BY DEF FormGroup, workflow, sorting
  <2>2. order \in Seq(Stages) /\ OrderRespectsDeps
    BY DEF OrderInv
  <2>3. Len(order) \in Nat /\ DOMAIN order = 1 .. Len(order)
    BY <2>2
  <2> QED
    BY <2>1, <2>2, <2>3 DEF GroupInv
<1>2. s \in Stages /\ deps[s] \subseteq assigned
  <2>1. deps[s] \subseteq {order[j] : j \in 1 .. next - 1}
    BY <1>1 DEF OrderRespectsDeps
  <2> QED
    BY <1>1, <2>1
<1>3. /\ groups' \in Seq(SUBSET Stages) /\ assigned' \in SUBSET Stages
      /\ Grouped(groups', assigned') /\ assigned \cup {s} \subseteq assigned'
  <2>1. CASE OpensGroup(s)
    <3>1. /\ assigned' = AssignedWith(s) /\ groups' = Append(groups, assigned' \ assigned)
      BY <2>1 DEF FormGroup
    <3>2. /\ assigned \cup {s} \subseteq AssignedWith(s) /\ AssignedWith(s) \subseteq Stages
          /\ \A t \in AssignedWith(s) \ assigned :
               deps[t] \subseteq AssignedWith(s) /\ s \notin deps[t]
          /\ \A t \in Stages : deps[t] \subseteq assigned => t \in AssignedWith(s)
          /\ s \notin assigned
      BY <1>1, <1>2, <2>1, TakenStages DEF OpensGroup
    <3>3. /\ new \in SUBSET Stages /\ new \cap assigned = {}
          /\ \A t \in new : deps[t] \subseteq assigned \cup new
          /\ assigned \cup new = assigned' /\ groups' = Append(groups, new)
          /\ s \in new /\ \A t \in new : s \notin deps[t]
          /\ \A t \in Stages : deps[t] \subseteq assigned => t \in assigned \cup new
      BY <3>1, <3>2
    <3> HIDE DEF s, new
    <3>4. groups' \in Seq(SUBSET Stages) /\ Grouped(groups', assigned')
      <4>1. /\ Append(groups, new) \in Seq(SUBSET Stages)
            /\ Grouped(Append(groups, new), assigned \cup new)
        BY <1>1, <1>2, <3>3, AddGroup
      <4> QED
        BY <3>3, <4>1
    <3> QED
      BY <3>1, <3>2, <3>4
  <2>2. CASE ~ OpensGroup(s)
    <3>1. UNCHANGED <<assigned, groups>>
      BY <2>2 DEF FormGroup
    <3>2. s \in assigned
      BY <1>2, <2>2 DEF OpensGroup
    <3> QED
      BY <1>1, <3>1, <3>2
  <2> QED
    BY <2>1, <2>2
<1>4. \A i \in 1 .. next' - 1 : order'[i] \in assigned'
  <2> SUFFICES ASSUME NEW i \in 1 .. next
               PROVE  order[i] \in assigned'
    BY <1>1
  <2>1. i \in 1 .. next - 1 \/ i = next
    BY <1>1
  <2> QED
    BY <1>1, <1>3, <2>1
<1>5. Ordered' = Ordered /\ Grouped(groups, assigned)'
  BY <1>1, <1>3 DEF Ordered, Grouped, Opener
<1>6. next' \in Nat /\ next' \in 1 .. Len(order') + 1
  BY <1>1
<1> QED
  BY <1>1, <1>3, <1>4, <1>5, <1>6 DEF GroupInv

LEMMA GroupInvStep ==
  ASSUME OrderInv, SearchInv, GroupInv, [Next]_vars
  PROVE  GroupInv'
<1>1. CASE FormGroup
  BY <1>1, FormGroupStep
<1>2. CASE FinishSort
  <2>1. /\ pc = "sort" /\ next' = 1 /\ assigned' = {} /\ groups' = <<>> /\ order' = order
        /\ pc' \in {"group", "unsortable"} /\ order \in Seq(Stages)
    BY <1>2 DEF FinishSort, GroupInv, OrderInv, grouping, sorting
  <2>2. Ordered' = Stages
    BY <1>2, <2>1, SortComplete DEF FinishSort, Ordered
  <2>3. Len(<<>>) = 0 /\ 1 .. 0 = {} /\ <<>> \in Seq(SUBSET Stages) /\ 1 .. 1 - 1 = {}
        /\ Len(order) \in Nat
    BY <2>1
  <2>4. Grouped(groups, assigned)'
    <3>1. FirstGroups(<<>>, 0) = {}
      BY <2>3 DEF FirstGroups
    <3>2. \A i \in 1 .. Len(<<>>) : FALSE
      BY <2>3
    <3> QED
      BY <2>1, <2>3, <3>1, <3>2 DEF Grouped
  <2> QED
    BY <2>1, <2>2, <2>3, <2>4 DEF GroupInv
<1>3. CASE FinishPlan
  <2>1. /\ pc = "group" /\ next > Len(order) /\ pc' = "planned"
        /\ UNCHANGED <<deps, order, next, assigned, groups>> /\ Len(order) \in Nat
    BY <1>3 DEF FinishPlan, OrderInv, workflow, sorting, grouping
  <2> QED
    BY <2>1 DEF GroupInv, Ordered, Grouped, Opener
<1>4. CASE CheckDependencies \/ VisitRoot \/ VisitDependency \/ ReturnFromVisit \/ NoCycle
           \/ UndefinedAgent \/ StartSort \/ PopQueue
  <2>1. /\ UNCHANGED grouping /\ pc \in {"validate", "search", "agents", "sort"}
        /\ pc' \in {"rejected", "search", "cyclic", "agents", "sort"}
    BY <1>4 DEF CheckDependencies, VisitRoot, VisitDependency, ReturnFromVisit, NoCycle,
       UndefinedAgent, StartSort, PopQueue
  <2> QED
    BY <2>1 DEF GroupInv, grouping
<1>5. CASE UNCHANGED vars
  BY <1>5 DEF vars, workflow, sorting, grouping, GroupInv, Ordered, Grouped, Opener
<1> QED
  BY <1>1, <1>2, <1>3, <1>4, <1>5 DEF Next

LEMMA GroupInvInit == Init => GroupInv
BY DEF Init, GroupInv

LEMMA GroupsRead ==
  ASSUME GroupInv, OrderInv
  PROVE  GroupsFollowDeps
<1> SUFFICES ASSUME pc = "planned"
             PROVE  GroupsFollowDeps
  BY DEF GroupsFollowDeps
<1>1. /\ order \in Seq(Stages) /\ Ordered = Stages /\ Grouped(groups, assigned)
      /\ \A i \in 1 .. Len(order) : order[i] \in assigned
      /\ DOMAIN groups = 1 .. Len(groups)
  <2>1. order \in Seq(Stages) /\ next = Len(order) + 1 /\ groups \in Seq(SUBSET Stages)
    BY DEF OrderInv, GroupInv
  <2>2. Len(order) \in Nat /\ next - 1 = Len(order)
    BY <2>1
  <2> QED
    BY <2>1, <2>2 DEF GroupInv
<1>2. ASSUME NEW s \in Stages
      PROVE  \E i \in DOMAIN groups :
               /\ s \in groups[i]
               /\ \A j \in DOMAIN groups : s \in groups[j] => j = i
               /\ deps[s] \subseteq UNION {groups[j] : j \in 1 .. i}
  <2>1. PICK k \in 1 .. Len(order) : order[k] = s
    BY <1>1 DEF Ordered, ToSet
  <2>2. s \in FirstGroups(groups, Len(groups))
    BY <1>1, <2>1 DEF Grouped
  <2>3. PICK i \in 1 .. Len(groups) : s \in groups[i]
    BY <2>2 DEF FirstGroups
  <2> QED
    BY <1>1, <2>3 DEF Grouped, FirstGroups
<1>3. ASSUME NEW i \in DOMAIN groups
      PROVE  \E s \in groups[i] :
               /\ deps[s] \subseteq UNION {groups[j] : j \in 1 .. i-1}
               /\ \A t \in groups[i] : s \notin deps[t]
  <2>1. \E s \in groups[i] : Opener(groups, i, s)
    BY <1>1 DEF Grouped
  <2> QED
    BY <2>1 DEF Opener, FirstGroups
<1> QED
  BY <1>2, <1>3 DEF GroupsFollowDeps

-------------------------------------------------------------------------------
\* The planner.

PlanInv == OrderInv /\ SearchInv /\ GroupInv /\ SortSucceeds

LEMMA PlanInvInit == Init => PlanInv
<1>1. Init => SortSucceeds
  BY DEF Init, SortSucceeds
<1> QED
  BY <1>1, OrderInvInit, SearchInvInit, GroupInvInit DEF PlanInv

LEMMA PlanInvStep == PlanInv /\ [Next]_vars => PlanInv'
BY OrderInvStep, SearchInvStep, GroupInvStep, SortSucceedsStep DEF PlanInv

\* No stage is left without a place: the error of topological_sort is never reached,
\* whatever finite graph detect_cycle has let through.
THEOREM SortDone == Spec => []SortSucceeds
<1>1. PlanInv => SortSucceeds
  BY DEF PlanInv
<1> QED
  BY <1>1, PlanInvInit, PlanInvStep, PTL DEF Spec

\* Each stage of a plan is in exactly one parallel group, and what it depends on is in
\* the same or an earlier one; a group holds a stage that depends on earlier groups
\* alone and on which no other of the group depends: for every finite workflow.  That
\* no two of a group depend on each other is not true
\* (WorkflowPlanner::identify_parallel_groups).
THEOREM GroupsSound == Spec => []GroupsFollowDeps
<1>1. PlanInv => GroupsFollowDeps
  BY GroupsRead DEF PlanInv
<1> QED
  BY <1>1, PlanInvInit, PlanInvStep, PTL DEF Spec

LEMMA TypeStep ==
  ASSUME PlanInv, PlanInv', TypeOK, [Next]_vars
  PROVE  TypeOK'
<1>1. /\ deps' \in [Stages -> SUBSET Names] /\ indegree' \in [Stages -> Nat]
      /\ queue' \in Seq(Stages) /\ order' \in Seq(Stages)
      /\ next' \in Nat /\ assigned' \in SUBSET Stages /\ groups' \in Seq(SUBSET Stages)
  BY DEF PlanInv, OrderInv, GroupInv
<1>2. /\ agents' \in BOOLEAN
      /\ pc' \in {"validate", "search", "agents", "sort", "group"} \cup Done
  <2> USE DEF TypeOK, Done
  <2>1. CASE VisitDependency
    BY <2>1 DEF VisitDependency, workflow
  <2>2. CASE CheckDependencies \/ VisitRoot \/ ReturnFromVisit \/ NoCycle \/ UndefinedAgent
    BY <2>2 DEF CheckDependencies, VisitRoot, ReturnFromVisit, NoCycle, UndefinedAgent, workflow
  <2>3. CASE StartSort \/ PopQueue \/ FinishSort \/ FormGroup \/ FinishPlan
    BY <2>3 DEF StartSort, PopQueue, FinishSort, FormGroup, FinishPlan, workflow
  <2>4. CASE UNCHANGED vars
    BY <2>4 DEF vars, workflow
  <2> QED
    BY <2>1, <2>2, <2>3, <2>4 DEF Next
<1>3. /\ roots' \in SUBSET Stages /\ visited' \in SUBSET Stages
      /\ frames' \in Seq(Frame)
  <2>1. CASE pc' = "search"
    BY <2>1 DEF PlanInv, SearchInv, StackInv
  <2>2. CASE pc' # "search"
    <3>1. UNCHANGED search
      <4>1. CASE VisitDependency
        BY <2>2, <4>1 DEF VisitDependency
      <4>2. CASE CheckDependencies \/ VisitRoot \/ ReturnFromVisit \/ NoCycle
                 \/ UndefinedAgent \/ StartSort \/ PopQueue \/ FinishSort \/ FormGroup
                 \/ FinishPlan \/ UNCHANGED vars
        BY <2>2, <4>2 DEF CheckDependencies, VisitRoot, ReturnFromVisit, NoCycle,
           UndefinedAgent, StartSort, PopQueue, FinishSort, FormGroup, FinishPlan, vars
      <4> QED
        BY <4>1, <4>2 DEF Next
    <3> QED
      BY <3>1 DEF TypeOK, search
  <2> QED
    BY <2>1, <2>2
<1> QED
  BY <1>1, <1>2, <1>3 DEF TypeOK

LEMMA TypeInit == Init => TypeOK
BY PlannerAssumption DEF Init, TypeOK, Done

\* The planner's variables keep their types: no in-degree falls below zero, where a
\* usize would overflow, and only stages are called, ordered and grouped
\* (WorkflowPlanner::plan).
THEOREM PlannerTypes == Spec => []TypeOK
<1>1. PlanInv /\ TypeOK /\ [Next]_vars => (PlanInv /\ TypeOK)'
  BY PlanInvStep, TypeStep
<1> QED
  BY <1>1, PlanInvInit, TypeInit, PTL DEF Spec

-------------------------------------------------------------------------------
\* The rounds of calculate_parallel_groups.

N == Cardinality(Stages)

\* A set of sets of stages that no round leads out of holds what every round completes.
LEMMA RoundsStay ==
  ASSUME NEW Good \in SUBSET SUBSET Stages, {} \in Good,
         \A X \in Good : X \cup NextWave(X) \in Good
  PROVE  /\ N \in Nat /\ Completed[0] = {}
         /\ \A i \in 1 .. N : Completed[i] = Completed[i-1] \cup NextWave(Completed[i-1])
         /\ \A i \in 0 .. N : Completed[i] \in Good
<1> DEFINE step == [p \in Good \X Nat |-> p[1] \cup NextWave(p[1])]
           completed[n \in 0 .. N] ==
             IF n = 0 THEN {} ELSE completed[n-1] \cup NextWave(completed[n-1])
           turn(g, n) == IF n = 0 THEN {} ELSE g[n-1] \cup NextWave(g[n-1])
<1>1. N \in Nat
  BY PlannerAssumption, FS_CardinalityType DEF N
<1>2. Completed = completed
  BY DEF Completed, N
<1>3. completed = CHOOSE g : g = [n \in 0 .. N |-> turn(g, n)]
  OBVIOUS
<1>4. step \in [Good \X Nat -> Good] /\ \A X \in Good, i \in Nat : step[<<X, i>>] = X \cup NextWave(X)
  OBVIOUS
<1> HIDE DEF step, completed
<1>5. PICK g \in [0 .. N -> Good] : Turns(g, Good, {}, step, N)
  BY <1>1, <1>4, Recursion
<1>6. \A i \in 1 .. N : i \in 0 .. N /\ i - 1 \in 0 .. N /\ i \in Nat /\ i # 0
  BY <1>1
<1>7. g = [n \in 0 .. N |-> turn(g, n)]
  <2> SUFFICES ASSUME NEW n \in 0 .. N
               PROVE  g[n] = turn(g, n)
    BY <1>5
  <2>1. CASE n = 0
    BY <1>5, <2>1 DEF Turns
  <2>2. CASE n # 0
    <3>1. n \in 1 .. N
      BY <1>1, <2>2
    <3> QED
      BY <1>4, <1>5, <1>6, <2>2, <3>1 DEF Turns
  <2> QED
    BY <2>1, <2>2
<1>8. completed = [n \in 0 .. N |-> turn(completed, n)]
  BY <1>3, <1>7
<1>9. /\ completed[0] = {}
      /\ \A i \in 1 .. N : completed[i] = completed[i-1] \cup NextWave(completed[i-1])
  <2>1. 0 \in 0 .. N
    BY <1>1
  <2>2. \A n \in 0 .. N : completed[n] = turn(completed, n)
    BY <1>8
  <2> QED
    BY <1>6, <2>1, <2>2
<1>10. Turns(completed, Good, {}, step, N)
  BY <1>4, <1>6, <1>9 DEF Turns
<1>11. \A i \in 0 .. N : completed[i] \in Good
  BY <1>1, <1>4, <1>10, TurnsStay
<1> QED
  BY <1>1, <1>2, <1>9, <1>11

\* A knot is never completed.
LEMMA CyclicLeftOut ==
  ASSUME Cyclic
  PROVE  Completed[N] # Stages
<1>1. PICK S \in SUBSET Stages : S # {} /\ \A s \in S : deps[s] \cap S # {}
  BY DEF Cyclic
<1> DEFINE Good == {X \in SUBSET Stages : X \cap S = {}}
<1>2. /\ Good \in SUBSET SUBSET Stages /\ {} \in Good
      /\ \A X \in Good : X \cup NextWave(X) \in Good
  BY <1>1 DEF NextWave
<1> HIDE DEF Good
<1>3. N \in Nat /\ \A i \in 0 .. N : Completed[i] \in Good
  BY <1>2, RoundsStay
<1>4. Completed[N] \in Good
  BY <1>3
<1> QED
  BY <1>1, <1>4 DEF Good

LEMMA Rounds ==
  /\ N \in Nat /\ Completed[0] = {}
  /\ \A i \in 1 .. N : Completed[i] = Completed[i-1] \cup NextWave(Completed[i-1])
  /\ \A i \in 0 .. N : Completed[i] \in SUBSET Stages
<1>1. \A X \in SUBSET Stages : X \cup NextWave(X) \in SUBSET Stages
  BY DEF NextWave
<1> QED
  BY <1>1, RoundsStay

LEMMA RoundsGrow ==
  \A n \in 0 .. N : \A m \in 0 .. n : Completed[m] \subseteq Completed[n]
<1> DEFINE Bad == {n \in 0 .. N : ~ \A m \in 0 .. n : Completed[m] \subseteq Completed[n]}
<1>1. ASSUME Bad # {}
      PROVE  FALSE
  <2>1. PICK n \in Bad : \A k \in Bad : n <= k
    <3>1. Bad \subseteq Nat
      OBVIOUS
    <3> HIDE DEF Bad
    <3> QED
      BY <1>1, <3>1, LeastNat
  <2>2. PICK m \in 0 .. n : ~ (Completed[m] \subseteq Completed[n])
    OBVIOUS
  <2>3. n \in 1 .. N /\ n - 1 \in 0 .. N /\ m \in 0 .. n - 1
    <3>1. N \in Nat /\ n \in 0 .. N /\ m # n
      BY <2>2, Rounds
    <3> QED
      BY <3>1
  <2>4. n - 1 \notin Bad
    BY <2>1, <2>3
  <2>5. Completed[m] \subseteq Completed[n-1]
    BY <2>3, <2>4
  <2> QED
    BY <2>2, <2>3, <2>5, Rounds
<1> QED
  BY <1>1

\* Each round completes something, until everything is.
LEMMA AllCompleted ==
  ASSUME ~ Cyclic, \A s \in Stages : deps[s] \subseteq Stages
  PROVE  Completed[N] = Stages
<1>1. ASSUME NEW i \in 1 .. N
      PROVE  /\ Completed[i-1] \subseteq Completed[i]
             /\ Completed[i-1] # Stages => Completed[i] # Completed[i-1]
  <2> DEFINE C == Completed[i-1]
             left == Stages \ C
  <2>1. i - 1 \in 0 .. N /\ Completed[i] = C \cup NextWave(C)
    BY Rounds
  <2>2. CASE C # Stages
    <3>1. left # {}
      BY <2>1, <2>2, Rounds
    <3>2. PICK s \in left : deps[s] \cap left = {}
      BY <3>1 DEF Cyclic
    <3>3. s \in NextWave(C) /\ s \notin C
      BY <3>2 DEF NextWave
    <3> QED
      BY <2>1, <3>3
  <2> QED
    BY <2>1, <2>2
<1>2. Growing(Completed, Stages, N)
  BY <1>1, Rounds DEF Growing
<1> QED
  BY <1>2, PlannerAssumption, GrownUp DEF N

-------------------------------------------------------------------------------
\* The depths that compute_depth finds.

\* One unfolding of compute_depth, given the depths of other stages.
DepthFrom(g, s) ==
  IF deps[s] = {} THEN 0
  ELSE 1 + Max({IF d \in Stages THEN g[d] ELSE 0 : d \in deps[s]})

\* The round in which a stage is completed.
CompletedIn(s, n) == n \in 1 .. N /\ s \in Completed[n] \ Completed[n-1]

LEMMA OneRound ==
  ASSUME ~ Cyclic, \A s \in Stages : deps[s] \subseteq Stages, NEW s \in Stages
  PROVE  /\ \E n \in 1 .. N : CompletedIn(s, n)
         /\ \A n, m : CompletedIn(s, n) /\ CompletedIn(s, m) => n = m
<1>1. ASSUME NEW n, NEW m, CompletedIn(s, n), CompletedIn(s, m), n < m
      PROVE  FALSE
  <2>1. n \in 1 .. N /\ m \in 1 .. N /\ N \in Nat
    BY <1>1, Rounds DEF CompletedIn
  <2>2. m - 1 \in 0 .. N /\ n \in 0 .. m - 1
    BY <1>1, <2>1
  <2>3. Completed[n] \subseteq Completed[m-1]
    BY <2>2, RoundsGrow
  <2> QED
    BY <1>1, <2>3 DEF CompletedIn
<1>2. ASSUME NEW n, NEW m, CompletedIn(s, n), CompletedIn(s, m)
      PROVE  n = m
  <2>1. n \in Int /\ m \in Int
    BY <1>2 DEF CompletedIn
  <2> QED
    BY <1>1, <1>2, <2>1
<1> DEFINE T == {n \in 0 .. N : s \in Completed[n]}
<1>3. T \subseteq Nat /\ T # {}
  <2>1. N \in T
    BY Rounds, AllCompleted
  <2> QED
    BY <2>1
<1>4. PICK n \in T : \A m \in T : n <= m
  <2> HIDE DEF T
  <2> QED
    BY <1>3, LeastNat
<1>5. n # 0
  BY Rounds
<1>6. N \in Nat /\ n \in 0 .. N
  BY Rounds
<1>7. n \in 1 .. N /\ n - 1 \in 0 .. N /\ ~ (n <= n - 1)
  BY <1>5, <1>6
<1>8. n - 1 \notin T
  <2> HIDE DEF T
  <2> QED
    BY <1>4, <1>7
<1>9. CompletedIn(s, n)
  BY <1>7, <1>8 DEF CompletedIn
<1> QED
  BY <1>2, <1>7, <1>9

\* A stage is completed one round after the last of its dependencies.
LEMMA RoundOfDeps ==
  ASSUME ~ Cyclic, \A s \in Stages : deps[s] \subseteq Stages, NEW s \in Stages,
         NEW n, CompletedIn(s, n)
  PROVE  /\ deps[s] = {} => n = 1
         /\ \A d \in deps[s] : \A m : CompletedIn(d, m) => m <= n - 1
         /\ deps[s] # {} => \E d \in deps[s] : CompletedIn(d, n - 1)
<1>1. /\ N \in Nat /\ n \in 1 .. N /\ n - 1 \in 0 .. N
      /\ Completed[n] = Completed[n-1] \cup NextWave(Completed[n-1])
  <2>1. N \in Nat /\ n \in 1 .. N
    BY Rounds DEF CompletedIn
  <2> QED
    BY <2>1, Rounds
<1>2. deps[s] \subseteq Completed[n-1]
  BY <1>1 DEF CompletedIn, NextWave
<1>3. ASSUME NEW d \in deps[s], NEW m, CompletedIn(d, m)
      PROVE  m <= n - 1
  <2>1. d \in Completed[n-1] /\ m \in 1 .. N /\ d \notin Completed[m-1] /\ m - 1 \in 0 .. N
    BY <1>1, <1>2, <1>3 DEF CompletedIn
  <2>2. CASE n - 1 <= m - 1
    <3>1. n - 1 \in 0 .. m - 1
      BY <1>1, <2>1, <2>2
    <3>2. Completed[n-1] \subseteq Completed[m-1]
      BY <2>1, <3>1, RoundsGrow
    <3> QED
      BY <2>1, <3>2
  <2> QED
    BY <1>1, <2>1, <2>2
<1>4. CASE n = 1
  BY <1>2, <1>3, <1>4, Rounds
<1>5. CASE n # 1
  <2>1. /\ n - 1 \in 1 .. N /\ n - 2 \in 0 .. N /\ (n - 1) - 1 = n - 2
    BY <1>1, <1>5
  <2>2. Completed[n-1] = Completed[n-2] \cup NextWave(Completed[n-2])
    BY <2>1, Rounds
  <2>3. s \notin Completed[n-1]
    BY DEF CompletedIn
  <2>4. PICK d \in deps[s] : d \notin Completed[n-2]
    BY <2>2, <2>3 DEF NextWave
  <2>5. CompletedIn(d, n - 1)
    BY <1>2, <2>1, <2>4 DEF CompletedIn
  <2> QED
    BY <1>3, <2>5
<1> QED
  BY <1>4, <1>5

LEMMA DepthFromRounds ==
  ASSUME ~ Cyclic, \A s \in Stages : deps[s] \subseteq Stages, NEW s \in Stages,
         NEW n, CompletedIn(s, n), NEW g,
         \A d \in deps[s] : \A m : CompletedIn(d, m) => g[d] = m - 1
  PROVE  DepthFrom(g, s) = n - 1
<1>1. CASE deps[s] = {}
  BY <1>1, RoundOfDeps DEF DepthFrom
<1>2. CASE deps[s] # {}
  <2> DEFINE S == {IF d \in Stages THEN g[d] ELSE 0 : d \in deps[s]}
  <2>1. PICK d \in deps[s] : CompletedIn(d, n - 1)
    BY <1>2, RoundOfDeps
  <2>2. n \in Nat /\ n - 1 \in Nat /\ n - 2 \in Nat /\ g[d] = n - 2
    <3>1. N \in Nat /\ n - 1 \in 1 .. N /\ n \in 1 .. N
      BY <2>1, Rounds DEF CompletedIn
    <3>2. g[d] = (n - 1) - 1
      BY <2>1
    <3> QED
      BY <3>1, <3>2
  <2>3. ASSUME NEW e \in deps[s]
        PROVE  e \in Stages /\ g[e] \in Nat /\ g[e] <= n - 2
    <3>1. e \in Stages
      OBVIOUS
    <3>2. PICK m \in 1 .. N : CompletedIn(e, m)
      BY <3>1, OneRound
    <3>3. g[e] = m - 1 /\ m <= n - 1
      BY <3>2, RoundOfDeps
    <3> QED
      BY <2>2, <3>1, <3>2, <3>3
  <2>4. S \subseteq Nat /\ n - 2 \in S /\ \A y \in S : y <= n - 2
    BY <2>1, <2>2, <2>3
  <2> HIDE DEF S
  <2>5. Max(S) = n - 2
    BY <2>4, MaxOf
  <2>6. DepthFrom(g, s) = 1 + Max(S)
    BY <1>2 DEF DepthFrom, S
  <2> QED
    BY <2>2, <2>5, <2>6
<1> QED
  BY <1>1, <1>2

\* The depth of a stage counts the rounds before the one that completes it.
LEMMA DepthIsRound ==
  ASSUME ~ Cyclic, \A s \in Stages : deps[s] \subseteq Stages
  PROVE  \A s \in Stages : \A n : CompletedIn(s, n) => Depth[s] = n - 1
<1> DEFINE round(s) == CHOOSE n \in 1 .. N : CompletedIn(s, n)
           level == [s \in Stages |-> round(s) - 1]
           depth[s \in Stages] ==
             IF deps[s] = {} THEN 0
             ELSE 1 + Max({IF d \in Stages THEN depth[d] ELSE 0 : d \in deps[s]})
<1>1. \A s \in Stages : round(s) \in 1 .. N /\ CompletedIn(s, round(s))
  BY OneRound
<1>2. \A s \in Stages : \A n : CompletedIn(s, n) => n = round(s)
  BY <1>1, OneRound
<1>3. Depth = depth
  BY DEF Depth
<1>4. depth = CHOOSE g : g = [s \in Stages |-> DepthFrom(g, s)]
  BY DEF DepthFrom
<1> HIDE DEF round, depth
<1>5. level = [s \in Stages |-> DepthFrom(level, s)]
  <2> SUFFICES ASSUME NEW s \in Stages
               PROVE  level[s] = DepthFrom(level, s)
    OBVIOUS
  <2>1. \A d \in deps[s] : \A m : CompletedIn(d, m) => level[d] = m - 1
    BY <1>2
  <2> HIDE DEF level
  <2>2. DepthFrom(level, s) = round(s) - 1
    BY <1>1, <2>1, DepthFromRounds
  <2> QED
    BY <2>2 DEF level
<1>6. depth = [s \in Stages |-> DepthFrom(depth, s)]
  BY <1>4, <1>5
<1> DEFINE Bad == {n \in 1 .. N : \E s \in Stages : CompletedIn(s, n) /\ depth[s] # n - 1}
<1>7. ASSUME Bad # {}
      PROVE  FALSE
  <2>1. PICK n \in Bad : \A m \in Bad : n <= m
    <3>1. Bad \subseteq Nat
      OBVIOUS
    <3> HIDE DEF Bad
    <3> QED
      BY <1>7, <3>1, LeastNat
  <2>2. PICK s \in Stages : CompletedIn(s, n) /\ depth[s] # n - 1
    OBVIOUS
  <2>3. ASSUME NEW d \in deps[s], NEW m, CompletedIn(d, m)
        PROVE  depth[d] = m - 1
    <3>1. m \in 1 .. N /\ n \in 1 .. N /\ m <= n - 1 /\ N \in Nat /\ d \in Stages
      BY <2>2, <2>3, RoundOfDeps, Rounds DEF CompletedIn
    <3>2. ~ (n <= m)
      BY <3>1
    <3>3. m \notin Bad
      BY <2>1, <3>2
    <3> QED
      BY <2>3, <3>1, <3>3
  <2>4. DepthFrom(depth, s) = n - 1
    BY <2>2, <2>3, DepthFromRounds
  <2> QED
    BY <1>6, <2>2, <2>4
<1> QED
  BY <1>3, <1>7 DEF CompletedIn

\* The first groups hold what the first rounds complete: a group leaves over no stage
\* that depends on earlier groups alone.
LEMMA GroupsAhead ==
  ASSUME Grouped(groups, assigned), groups \in Seq(SUBSET Stages)
  PROVE  \A n \in 0 .. N : n <= Len(groups) => Completed[n] \subseteq FirstGroups(groups, n)
<1> DEFINE Bad == {n \in 0 .. N : /\ n <= Len(groups)
                                 /\ ~ (Completed[n] \subseteq FirstGroups(groups, n))}
<1>1. ASSUME Bad # {}
      PROVE  FALSE
  <2>1. PICK n \in Bad : \A m \in Bad : n <= m
    <3>1. Bad \subseteq Nat
      OBVIOUS
    <3> HIDE DEF Bad
    <3> QED
      BY <1>1, <3>1, LeastNat
  <2>2. n # 0
    BY Rounds
  <2>3. /\ n \in 1 .. N /\ n \in 1 .. Len(groups) /\ n - 1 \in 0 .. N /\ n - 1 <= Len(groups)
        /\ ~ (n <= n - 1)
    <3>1. N \in Nat /\ n \in 0 .. N /\ Len(groups) \in Nat /\ n <= Len(groups)
      BY Rounds
    <3> QED
      BY <2>2, <3>1
  <2>4. Completed[n-1] \subseteq FirstGroups(groups, n-1)
    BY <2>1, <2>3
  <2>5. FirstGroups(groups, n-1) \subseteq FirstGroups(groups, n)
    <3>1. \A j \in 1 .. n-1 : j \in 1 .. n
      BY <2>3
    <3> QED
      BY <3>1 DEF FirstGroups
  <2>6. NextWave(Completed[n-1]) \subseteq FirstGroups(groups, n)
    <3>1. ASSUME NEW s \in NextWave(Completed[n-1])
          PROVE  s \in FirstGroups(groups, n)
      <4>1. s \in Stages /\ deps[s] \subseteq FirstGroups(groups, n-1)
        BY <2>4 DEF NextWave
      <4> QED
        BY <2>3, <4>1 DEF Grouped
    <3> QED
      BY <3>1
  <2>7. Completed[n] \subseteq FirstGroups(groups, n)
    BY <2>3, <2>4, <2>5, <2>6, Rounds
  <2> QED
    BY <2>7
<1> QED
  BY <1>1

LEMMA LevelsRead ==
  ASSUME OrderInv, SearchInv, GroupInv
  PROVE  LevelsAgree
<1>1. CASE pc = "planned"
  <2>1. ~ Cyclic /\ \A s \in Stages : deps[s] \subseteq Stages
    BY <1>1 DEF OrderInv, SearchInv
  <2>2. ASSUME NEW s \in Stages, NEW n \in 1 .. N
        PROVE  s \in Completed[n] \ Completed[n-1] <=> Depth[s] = n - 1
    <3>1. PICK m \in 1 .. N : CompletedIn(s, m)
      BY <2>1, OneRound
    <3>2. Depth[s] = m - 1
      BY <2>1, <3>1, DepthIsRound
    <3>3. s \in Completed[n] \ Completed[n-1] <=> n = m
      BY <2>1, <3>1, OneRound DEF CompletedIn
    <3>4. n \in Int /\ m \in Int
      OBVIOUS
    <3> QED
      BY <3>2, <3>3, <3>4
  <2>3. ASSUME NEW i \in DOMAIN groups, NEW s \in groups[i]
        PROVE  Depth[s] >= i - 1
    <3>1. /\ groups \in Seq(SUBSET Stages) /\ Grouped(groups, assigned)
          /\ DOMAIN groups = 1 .. Len(groups) /\ Len(groups) \in Nat
      <4>1. groups \in Seq(SUBSET Stages) /\ Grouped(groups, assigned)
        BY <1>1 DEF GroupInv
      <4> QED
        BY <4>1
    <3>2. s \in Stages
      BY <3>1
    <3>3. PICK m \in 1 .. N : CompletedIn(s, m)
      BY <2>1, <3>2, OneRound
    <3>4. Depth[s] = m - 1 /\ s \in Completed[m]
      BY <2>1, <3>2, <3>3, DepthIsRound DEF CompletedIn
    <3>5. CASE m < i
      <4>1. m \in 0 .. N /\ m <= Len(groups) /\ N \in Nat
        BY <3>1, <3>5, Rounds
      <4>2. PICK j \in 1 .. m : s \in groups[j]
        BY <3>1, <3>4, <4>1, GroupsAhead DEF FirstGroups
      <4>3. j \in 1 .. Len(groups) /\ i \in 1 .. Len(groups) /\ j # i
        BY <3>1, <3>5, <4>1
      <4> QED
        BY <3>1, <4>2, <4>3 DEF Grouped
    <3>6. CASE ~ (m < i)
      <4>1. m \in Int /\ i \in Int
        BY <3>1
      <4> QED
        BY <3>4, <3>6, <4>1
    <3> QED
      BY <3>5, <3>6
  <2> QED
    BY <1>1, <2>2, <2>3 DEF LevelsAgree, N
<1>2. CASE pc = "cyclic"
  BY <1>2, CyclicLeftOut DEF SearchInv, LevelsAgree, N
<1>3. CASE pc \notin {"planned", "cyclic"}
  BY <1>3 DEF LevelsAgree
<1> QED
  BY <1>1, <1>2, <1>3

\* The DAG tool and the workflow service put each stage of a planned workflow into the
\* same level, the planner never into a later group than that level, and the DAG tool
\* leaves out a stage of a cyclic workflow: for every finite workflow
\* (calculate_parallel_groups, compute_depth, identify_parallel_groups).
THEOREM LevelsEqual == Spec => []LevelsAgree
<1>1. PlanInv => LevelsAgree
  BY LevelsRead DEF PlanInv
<1> QED
  BY <1>1, PlanInvInit, PlanInvStep, PTL DEF Spec
===============================================================================
