---------------------------- MODULE ArtifactsProofs ----------------------------
(***************************************************************************)
(* Proofs about Artifacts for any number of clients, artifacts and files.  *)
(*                                                                         *)
(* An artifact that is being created has one owner, the call that creates  *)
(* it: its ARN is known to nobody else before the row is there.  From then *)
(* on the row never changes, so what a call has read of it is what it is,  *)
(* as long as it is there at all.                                          *)
(***************************************************************************)
EXTENDS Artifacts, TLAPS

\* What a call knows of its artifact.
CallInv ==
  \A c \in Clients : call[c].step # "idle" =>
    /\ call[c].id \in Ids /\ call[c].row \in Row
    /\ origin[call[c].id] # None /\ call[c].row.path = origin[call[c].id].path
    /\ rows[call[c].id] # None => rows[call[c].id] = call[c].row
    /\ call[c].step = "remove" => rows[call[c].id] = None /\ OnDisk(call[c].row)

\* An artifact that is being created is nobody else's.
InsertInv ==
  \A c \in Clients : call[c].step = "insert" =>
    /\ rows[call[c].id] = None
    /\ \A d \in Clients \ {c} : call[d].step # "idle" => call[d].id # call[c].id

RowInv ==
  \A id \in Ids : rows[id] # None => /\ origin[id] # None
                                     /\ rows[id].path = origin[id].path

CallsInv == TypeOK /\ CallInv /\ InsertInv /\ RowInv

-------------------------------------------------------------------------------
\* Types and calls.

LEMMA CallsInit == Init => CallsInv
BY ArtifactsAssumption
   DEF Init, CallsInv, TypeOK, CallInv, InsertInv, RowInv, Idle, Call, Path

LEMMA RowType ==
  ASSUME NEW path \in Path, NEW content \in Contents
  PROVE  LET row == [path |-> path, inline |-> IF content \in Large THEN None ELSE content]
         IN  row \in Row /\ row.path = path /\ (content \in Large => OnDisk(row))
BY DEF Row, OnDisk

LEMMA StoreCalls ==
  ASSUME CallsInv, NEW c \in Clients, NEW id \in Ids, NEW path \in Path,
         NEW content \in Contents, Store(c, id, path, content)
  PROVE  CallsInv'
<1> DEFINE row == [path |-> path, inline |-> IF content \in Large THEN None ELSE content]
           new == [step |-> "insert", id |-> id, row |-> row]
<1>1. /\ call[c] = Idle /\ origin[id] = None
      /\ call' = [call EXCEPT ![c] = new]
      /\ origin' = [origin EXCEPT ![id] = [path |-> path, content |-> content]]
      /\ files' = IF content \in Large THEN [files EXCEPT ![path] = content] ELSE files
      /\ UNCHANGED <<rows, lost, leaked, cleaned>>
  BY DEF Store, Proceed, Free
<1>2. row \in Row /\ row.path = path
  BY RowType
<1> HIDE DEF row
<1>3. new \in Call /\ new.step = "insert" /\ new.id = id /\ new.row = row
  BY <1>2 DEF Call
<1>4. /\ [path |-> path, content |-> content] \in Origin
      /\ [path |-> path, content |-> content] # None
      /\ [path |-> path, content |-> content].path = path
  BY ArtifactsAssumption DEF Origin
<1> HIDE DEF new
<1>5. TypeOK /\ CallInv /\ InsertInv /\ RowInv
  BY DEF CallsInv
<1>6. /\ call \in [Clients -> Call] /\ origin \in [Ids -> Origin \cup {None}]
      /\ rows \in [Ids -> Row \cup {None}] /\ files \in [Path -> Contents \cup {Torn, None}]
  BY <1>5 DEF TypeOK
<1>7. call'[c] = new /\ \A d \in Clients \ {c} : call'[d] = call[d]
  BY <1>1, <1>6
<1>8. /\ origin'[id] = [path |-> path, content |-> content]
      /\ \A i \in Ids \ {id} : origin'[i] = origin[i]
  BY <1>1, <1>6
<1>9. rows[id] = None /\ \A d \in Clients : call[d].step # "idle" => call[d].id # id
  BY <1>1, <1>5 DEF RowInv, CallInv
<1>10. TypeOK'
  BY <1>1, <1>3, <1>4, <1>5, <1>6 DEF TypeOK
<1>11. CallInv'
  BY <1>1, <1>2, <1>3, <1>4, <1>5, <1>7, <1>8, <1>9 DEF CallInv
<1>12. InsertInv'
  BY <1>1, <1>3, <1>5, <1>7, <1>9 DEF InsertInv
<1>13. RowInv'
  BY <1>1, <1>5, <1>8, <1>9 DEF RowInv
<1> QED
  BY <1>10, <1>11, <1>12, <1>13 DEF CallsInv

\* A step that only ends calls, and changes no row and no origin.
LEMMA ReturnCalls ==
  ASSUME CallsInv, UNCHANGED <<rows, origin>>,
         files' \in [Path -> Contents \cup {Torn, None}], lost' \in SUBSET Path,
         leaked' \in SUBSET Path, cleaned' \in SUBSET Path, call' \in [Clients -> Call],
         \A c \in Clients : call'[c] = call[c] \/ call'[c] = Idle
  PROVE  CallsInv'
<1>1. TypeOK /\ CallInv /\ InsertInv /\ RowInv
  BY DEF CallsInv
<1>2. Idle.step = "idle"
  BY DEF Idle
<1>3. TypeOK'
  BY <1>1 DEF TypeOK
<1>4. CallInv'
  BY <1>1, <1>2 DEF CallInv
<1>5. InsertInv'
  BY <1>1, <1>2 DEF InsertInv
<1>6. RowInv'
  BY <1>1 DEF RowInv
<1> QED
  BY <1>3, <1>4, <1>5, <1>6 DEF CallsInv

LEMMA ReturnType ==
  ASSUME CallsInv, NEW c \in Clients, Return(c)
  PROVE  /\ call' \in [Clients -> Call]
         /\ call'[c] = Idle /\ \A d \in Clients \ {c} : call'[d] = call[d]
<1>1. Idle \in Call
  BY DEF Idle, Call
<1> QED
  BY <1>1 DEF CallsInv, TypeOK, Return

LEMMA OwnedByType ==
  ASSUME CallsInv, NEW C \in SUBSET Clients
  PROVE  OwnedBy(C) \subseteq Path
<1> SUFFICES ASSUME NEW c \in C, call[c].step \in {"insert", "remove"}
             PROVE  call[c].row.path \in Path
  BY DEF OwnedBy
<1> QED
  BY DEF CallsInv, CallInv, Row

\* The row becomes visible, and its creator is done with it.
LEMMA InsertCalls ==
  ASSUME CallsInv, NEW c \in Clients, InsertRow(c)
  PROVE  CallsInv'
<1> DEFINE id == call[c].id
<1>1. TypeOK /\ CallInv /\ InsertInv /\ RowInv /\ rows \in [Ids -> Row \cup {None}]
  BY DEF CallsInv, TypeOK
<1>2. /\ call[c].step = "insert" /\ rows' = [rows EXCEPT ![id] = call[c].row]
      /\ Return(c) /\ UNCHANGED <<files, origin, lost, leaked, cleaned>>
  BY DEF InsertRow, aux
<1>3. /\ id \in Ids /\ call[c].row \in Row /\ origin[id] # None
      /\ call[c].row.path = origin[id].path
      /\ \A d \in Clients \ {c} : call[d].step # "idle" => call[d].id # id
  BY <1>1, <1>2 DEF CallInv, InsertInv
<1>4. /\ call' \in [Clients -> Call]
      /\ call'[c] = Idle /\ \A d \in Clients \ {c} : call'[d] = call[d]
  BY <1>2, ReturnType
<1> HIDE DEF id
<1>5. rows'[id] = call[c].row /\ \A i \in Ids \ {id} : rows'[i] = rows[i]
  BY <1>1, <1>2, <1>3
<1>6. Idle.step = "idle"
  BY DEF Idle
<1>7. TypeOK'
  BY <1>1, <1>2, <1>3, <1>4, <1>5 DEF TypeOK
<1>8. CallInv'
  BY <1>1, <1>2, <1>3, <1>4, <1>5, <1>6 DEF CallInv
<1>9. InsertInv'
  <2> SUFFICES ASSUME NEW d \in Clients, call'[d].step = "insert"
               PROVE  /\ rows'[call'[d].id] = None
                      /\ \A e \in Clients \ {d} : call'[e].step # "idle"
                                                    => call'[e].id # call'[d].id
    BY DEF InsertInv
  <2>1. d # c /\ call'[d] = call[d] /\ call[d].id \in Ids \ {id}
    BY <1>1, <1>3, <1>4, <1>6 DEF CallInv
  <2> QED
    BY <1>1, <1>4, <1>5, <1>6, <2>1 DEF InsertInv
<1>10. RowInv'
  BY <1>1, <1>2, <1>3, <1>5 DEF RowInv
<1> QED
  BY <1>7, <1>8, <1>9, <1>10 DEF CallsInv

LEMMA SelectCalls ==
  ASSUME CallsInv, NEW c \in Clients, NEW id \in Ids,
         NEW step \in {"get", "download", "delete"}, SelectRow(c, id, step)
  PROVE  CallsInv'
<1> DEFINE new == [step |-> step, id |-> id, row |-> rows[id]]
<1>1. TypeOK /\ CallInv /\ InsertInv /\ RowInv
  BY DEF CallsInv
<1>2. /\ call[c] = Idle /\ rows[id] # None /\ call' = [call EXCEPT ![c] = new]
      /\ UNCHANGED <<rows, files, origin, lost, leaked, cleaned>>
  BY DEF SelectRow, Proceed, aux
<1>3. rows[id] \in Row /\ call \in [Clients -> Call]
  BY <1>1, <1>2 DEF TypeOK
<1>4. new \in Call /\ new.step = step /\ new.id = id /\ new.row = rows[id]
  BY <1>3 DEF Call
<1> HIDE DEF new
<1>5. call'[c] = new /\ \A d \in Clients \ {c} : call'[d] = call[d]
  BY <1>2, <1>3
<1>6. TypeOK'
  BY <1>1, <1>2, <1>3, <1>4 DEF TypeOK
<1>7. CallInv'
  BY <1>1, <1>2, <1>3, <1>4, <1>5 DEF CallInv, RowInv
<1>8. InsertInv'
  BY <1>1, <1>2, <1>4, <1>5 DEF InsertInv
<1>9. RowInv'
  BY <1>1, <1>2 DEF RowInv
<1> QED
  BY <1>6, <1>7, <1>8, <1>9 DEF CallsInv

LEMMA DeleteCalls ==
  ASSUME CallsInv, NEW c \in Clients, DeleteRow(c)
  PROVE  CallsInv'
<1> DEFINE id == call[c].id
           new == [step |-> "remove", id |-> id, row |-> call[c].row]
<1>1. /\ TypeOK /\ CallInv /\ InsertInv /\ RowInv
      /\ rows \in [Ids -> Row \cup {None}] /\ call \in [Clients -> Call]
  BY DEF CallsInv, TypeOK
<1>2. /\ call[c].step = "delete" /\ rows' = [rows EXCEPT ![id] = None]
      /\ UNCHANGED <<files, origin, lost, leaked, cleaned>>
  BY DEF DeleteRow, aux
<1>3. /\ id \in Ids /\ call[c].row \in Row /\ origin[id] # None
      /\ call[c].row.path = origin[id].path
  BY <1>1, <1>2 DEF CallInv
<1>4. \/ OnDisk(call[c].row) /\ call' = [call EXCEPT ![c] = new]
      \/ call' = [call EXCEPT ![c] = Idle]
  BY DEF DeleteRow, Proceed, Return, aux
<1>5. new \in Call /\ new.step = "remove" /\ new.id = id /\ new.row = call[c].row
  BY <1>3 DEF Call
<1>6. Idle \in Call /\ Idle.step = "idle"
  BY DEF Idle, Call
<1> HIDE DEF id, new
<1>7. rows'[id] = None /\ \A i \in Ids \ {id} : rows'[i] = rows[i]
  BY <1>1, <1>2, <1>3
<1>8. /\ \A d \in Clients \ {c} : call'[d] = call[d]
      /\ call'[c] = Idle \/ (OnDisk(call[c].row) /\ call'[c] = new)
      /\ call' \in [Clients -> Call]
  BY <1>1, <1>4, <1>5, <1>6
<1>9. TypeOK'
  BY <1>1, <1>2, <1>3, <1>7, <1>8 DEF TypeOK
<1>10. CallInv'
  BY <1>1, <1>2, <1>3, <1>5, <1>6, <1>7, <1>8 DEF CallInv
<1>11. InsertInv'
  <2> SUFFICES ASSUME NEW d \in Clients, call'[d].step = "insert"
               PROVE  /\ rows'[call'[d].id] = None
                      /\ \A e \in Clients \ {d} : call'[e].step # "idle"
                                                    => call'[e].id # call'[d].id
    BY DEF InsertInv
  <2>1. d # c /\ call'[d] = call[d] /\ call[d].id \in Ids /\ rows[call[d].id] = None
    BY <1>1, <1>5, <1>6, <1>8 DEF CallInv, InsertInv
  <2>2. \A e \in Clients \ {d} : call[e].step # "idle" => call[e].id # call[d].id
    BY <1>1, <2>1 DEF InsertInv
  <2>3. id # call[d].id
    BY <1>2, <2>1, <2>2 DEF id
  <2>4. \A e \in Clients \ {d} : call'[e].step # "idle" => call'[e].id # call[d].id
    BY <1>5, <1>6, <1>8, <2>2, <2>3
  <2> QED
    BY <1>7, <2>1, <2>4
<1>12. RowInv'
  BY <1>1, <1>2, <1>7 DEF RowInv
<1> QED
  BY <1>9, <1>10, <1>11, <1>12 DEF CallsInv

LEMMA CrashCalls ==
  ASSUME CallsInv, Crash
  PROVE  CallsInv'
<1>1. Idle \in Call
  BY DEF Idle, Call
<1>2. call' \in [Clients -> Call] /\ \A c \in Clients : call'[c] = Idle
  BY <1>1 DEF Crash
<1> QED
  BY <1>2, OwnedByType, ReturnCalls DEF Crash, CallsInv, TypeOK

LEMMA CleanupCalls ==
  ASSUME CallsInv, NEW e \in Executions, NEW gone, CleanupForExecution(e, gone)
  PROVE  CallsInv'
<1>1. files' \in [Path -> Contents \cup {Torn, None}]
  BY DEF CleanupForExecution, CallsInv, TypeOK
<1>2. cleaned' \in SUBSET Path
  BY DEF CleanupForExecution, Tree, CallsInv, TypeOK
<1> QED
  BY <1>1, <1>2, ReturnCalls DEF CleanupForExecution, CallsInv, TypeOK

LEMMA CallsStep ==
  ASSUME CallsInv, [Next]_vars
  PROVE  CallsInv'
<1>1. ASSUME NEW c \in Clients, NEW id \in Ids, NEW p \in Path, NEW content \in Contents,
             Store(c, id, p, content)
      PROVE  CallsInv'
  BY <1>1, StoreCalls
<1>2. ASSUME NEW c \in Clients, NEW id \in Ids,
             SelectRow(c, id, "get") \/ SelectRow(c, id, "download") \/ GetStorageInfo(c, id)
      PROVE  CallsInv'
  BY <1>2, SelectCalls DEF GetStorageInfo
<1>3. ASSUME NEW c \in Clients, InsertRow(c)
      PROVE  CallsInv'
  BY <1>3, InsertCalls
<1>4. ASSUME NEW c \in Clients, InsertFails(c)
      PROVE  CallsInv'
  BY <1>4, OwnedByType, ReturnType, ReturnCalls DEF InsertFails, CallsInv, TypeOK
<1>5. ASSUME NEW c \in Clients, ReadContent(c)
      PROVE  CallsInv'
  BY <1>5, ReturnType, ReturnCalls DEF ReadContent, CallsInv, TypeOK, aux
<1>6. ASSUME NEW c \in Clients, DeleteRow(c)
      PROVE  CallsInv'
  BY <1>6, DeleteCalls
<1>7. ASSUME NEW c \in Clients, RemoveFile(c)
      PROVE  CallsInv'
  <2>1. files' \in [Path -> Contents \cup {Torn, None}]
    BY <1>7 DEF RemoveFile, CallsInv, TypeOK, aux
  <2> QED
    BY <1>7, <2>1, ReturnType, ReturnCalls DEF RemoveFile, CallsInv, TypeOK, aux
<1>8. ASSUME NEW e \in Executions, NEW gone, CleanupForExecution(e, gone)
      PROVE  CallsInv'
  BY <1>8, CleanupCalls
<1>9. ASSUME NEW c \in Clients, RemoveFails(c)
      PROVE  CallsInv'
  <2>1. leaked' \in SUBSET Path
    BY <1>9 DEF RemoveFails, CallsInv, TypeOK, CallInv, Row
  <2> QED
    BY <1>9, <2>1, ReturnType, ReturnCalls DEF RemoveFails, CallsInv, TypeOK
<1>10. ASSUME NEW c \in Clients, NEW p \in Path, NEW content \in Contents,
              StoreFails(c, p, content)
       PROVE  CallsInv'
  <2>1. files' \in [Path -> Contents \cup {Torn, None}] /\ lost' \in SUBSET Path
    BY <1>10 DEF StoreFails, CallsInv, TypeOK
  <2> QED
    BY <1>10, <2>1, ReturnCalls DEF StoreFails, CallsInv, TypeOK
<1>11. CASE Crash
  BY <1>11, CrashCalls
<1>12. CASE UNCHANGED vars
  BY <1>12, ReturnCalls DEF vars, CallsInv, TypeOK, aux
<1> QED
  BY <1>1, <1>2, <1>3, <1>4, <1>5, <1>6, <1>7, <1>8, <1>9, <1>10, <1>11, <1>12 DEF Next

\* Every row, file and call is well-formed in every reachable state (the
\* handlers of artifact_handler.rs and rest_handlers.rs).
THEOREM ArtifactsTypeCorrect == Spec => []TypeOK
<1>1. Init => CallsInv
  BY CallsInit
<1>2. CallsInv /\ [Next]_vars => CallsInv'
  BY CallsStep
<1>3. CallsInv => TypeOK
  BY DEF CallsInv
<1> QED
  BY <1>1, <1>2, <1>3, PTL DEF Spec
-------------------------------------------------------------------------------
\* No file without an owner.

Owned(p) ==
  \/ \E id \in Ids : rows[id] # None /\ OnDisk(rows[id]) /\ rows[id].path = p
  \/ \E c \in Clients : /\ call[c].step \in {"insert", "remove"}
                        /\ OnDisk(call[c].row) /\ call[c].row.path = p
  \/ p \in lost \cup leaked

LEMMA OwnedBySome ==
  ASSUME NEW p
  PROVE  p \in OwnedBy(Clients)
           <=> \E c \in Clients : /\ call[c].step \in {"insert", "remove"}
                                 /\ OnDisk(call[c].row) /\ call[c].row.path = p
BY DEF OwnedBy

LEMMA FilesOwnedForm == FilesOwned <=> \A p \in Path : files[p] # None => Owned(p)
BY OwnedBySome DEF FilesOwned, Owned

LEMMA NextOwnedForm == (\A p \in Path : files'[p] # None => Owned(p)') => FilesOwned'
<1>1. ASSUME NEW p
      PROVE  p \in OwnedBy(Clients)'
               <=> \E c \in Clients : /\ call'[c].step \in {"insert", "remove"}
                                     /\ OnDisk(call'[c].row) /\ call'[c].row.path = p
  BY DEF OwnedBy
<1> QED
  BY <1>1 DEF FilesOwned, Owned

\* A step that writes no file keeps the owners it does not take away.
LEMMA OwnersStay ==
  ASSUME CallsInv, CallsInv', NEW p \in Path, Owned(p), UNCHANGED rows,
         lost \subseteq lost', leaked \subseteq leaked',
         \A c \in Clients :
            \/ call'[c] = call[c]
            \/ call[c].step \notin {"insert", "remove"}
            \/ OnDisk(call[c].row) => call[c].row.path # p \/ p \in lost' \cup leaked'
  PROVE  Owned(p)'
BY DEF Owned

LEMMA StoreOwned ==
  ASSUME CallsInv, FilesOwned, NEW c \in Clients, NEW id \in Ids, NEW path \in Path,
         NEW content \in Contents, Store(c, id, path, content)
  PROVE  FilesOwned'
<1> DEFINE row == [path |-> path, inline |-> IF content \in Large THEN None ELSE content]
<1>1. /\ call[c] = Idle
      /\ call' = [call EXCEPT ![c] = [step |-> "insert", id |-> id, row |-> row]]
      /\ files' = IF content \in Large THEN [files EXCEPT ![path] = content] ELSE files
      /\ UNCHANGED <<rows, lost, leaked, cleaned>>
  BY DEF Store, Proceed, Free
<1>2. row.path = path /\ (content \in Large => OnDisk(row))
  BY RowType
<1> HIDE DEF row
<1>3. /\ call \in [Clients -> Call] /\ files \in [Path -> Contents \cup {Torn, None}]
      /\ CallsInv'
  BY StoreCalls DEF CallsInv, TypeOK
<1>4. /\ call'[c].step = "insert" /\ call'[c].row = row
      /\ \A d \in Clients \ {c} : call'[d] = call[d]
  BY <1>1, <1>3
<1>5. call[c].step \notin {"insert", "remove"}
  BY <1>1 DEF Idle
<1> SUFFICES ASSUME NEW p \in Path, files'[p] # None
             PROVE  Owned(p)'
  BY NextOwnedForm
<1>6. CASE content \in Large /\ p = path
  BY <1>2, <1>4, <1>6 DEF Owned
<1>7. CASE ~(content \in Large /\ p = path)
  <2>1. files[p] # None
    BY <1>1, <1>3, <1>7
  <2>2. Owned(p)
    BY <2>1, FilesOwnedForm
  <2> QED
    BY <1>1, <1>3, <1>4, <1>5, <2>2, OwnersStay
<1> QED
  BY <1>6, <1>7

\* The call that inserts a row hands the file over to it.
LEMMA InsertOwned ==
  ASSUME CallsInv, FilesOwned, NEW c \in Clients, InsertRow(c)
  PROVE  FilesOwned'
<1>1. /\ call[c].step = "insert" /\ rows' = [rows EXCEPT ![call[c].id] = call[c].row]
      /\ call' = [call EXCEPT ![c] = Idle] /\ UNCHANGED <<files, lost, leaked>>
  BY DEF InsertRow, Return, aux
<1>2. /\ call \in [Clients -> Call] /\ rows \in [Ids -> Row \cup {None}]
      /\ call[c].id \in Ids /\ call[c].row \in Row /\ rows[call[c].id] = None
  BY <1>1 DEF CallsInv, TypeOK, CallInv, InsertInv
<1>3. /\ rows'[call[c].id] = call[c].row /\ call[c].row # None
      /\ \A i \in Ids \ {call[c].id} : rows'[i] = rows[i]
      /\ \A d \in Clients \ {c} : call'[d] = call[d]
  BY <1>1, <1>2, ArtifactsAssumption
<1> SUFFICES ASSUME NEW p \in Path, files'[p] # None
             PROVE  Owned(p)'
  BY NextOwnedForm
<1>4. Owned(p)
  BY <1>1, FilesOwnedForm
<1>5. CASE \E id \in Ids : rows[id] # None /\ OnDisk(rows[id]) /\ rows[id].path = p
  BY <1>2, <1>3, <1>5 DEF Owned
<1>6. CASE \E d \in Clients : /\ call[d].step \in {"insert", "remove"}
                             /\ OnDisk(call[d].row) /\ call[d].row.path = p
  BY <1>2, <1>3, <1>6 DEF Owned
<1>7. CASE p \in lost \cup leaked
  BY <1>1, <1>7 DEF Owned
<1> QED
  BY <1>4, <1>5, <1>6, <1>7 DEF Owned

\* The call that deletes a row takes the file over from it.
LEMMA DeleteOwned ==
  ASSUME CallsInv, FilesOwned, NEW c \in Clients, DeleteRow(c)
  PROVE  FilesOwned'
<1> DEFINE id == call[c].id
           new == [step |-> "remove", id |-> id, row |-> call[c].row]
<1>1. /\ call[c].step = "delete" /\ rows' = [rows EXCEPT ![id] = None]
      /\ UNCHANGED <<files, lost, leaked>>
  BY DEF DeleteRow, aux
<1>2. /\ call \in [Clients -> Call] /\ rows \in [Ids -> Row \cup {None}]
      /\ id \in Ids /\ rows[id] # None => rows[id] = call[c].row
  BY <1>1 DEF CallsInv, TypeOK, CallInv
<1>3. /\ rows[id] # None /\ OnDisk(call[c].row) => call' = [call EXCEPT ![c] = new]
      /\ \A d \in Clients \ {c} : call'[d] = call[d]
  BY <1>2 DEF DeleteRow, Proceed, Return, aux
<1>4. new.step = "remove" /\ new.row = call[c].row
  OBVIOUS
<1> HIDE DEF new, id
<1>5. \A i \in Ids \ {id} : rows'[i] = rows[i]
  BY <1>1, <1>2
<1> SUFFICES ASSUME NEW p \in Path, files'[p] # None
             PROVE  Owned(p)'
  BY NextOwnedForm
<1>6. Owned(p)
  BY <1>1, FilesOwnedForm
<1>7. ASSUME NEW i \in Ids, rows[i] # None, OnDisk(rows[i]), rows[i].path = p
      PROVE  Owned(p)'
  <2>1. CASE i = id
    <3>1. call'[c] = new
      BY <1>2, <1>3, <1>7, <2>1
    <3> QED
      BY <1>2, <1>4, <1>7, <2>1, <3>1 DEF Owned
  <2>2. CASE i # id
    BY <1>5, <1>7, <2>2 DEF Owned
  <2> QED
    BY <2>1, <2>2
<1>8. ASSUME NEW d \in Clients, call[d].step \in {"insert", "remove"},
             OnDisk(call[d].row), call[d].row.path = p
      PROVE  Owned(p)'
  BY <1>1, <1>3, <1>8 DEF Owned
<1>9. CASE p \in lost \cup leaked
  BY <1>1, <1>9 DEF Owned
<1> QED
  BY <1>6, <1>7, <1>8, <1>9 DEF Owned

\* The other steps write no file and leave the rows alone.
LEMMA OtherOwned ==
  ASSUME CallsInv, CallsInv', FilesOwned, UNCHANGED rows, lost \subseteq lost',
         leaked \subseteq leaked',
         \A p \in Path : files'[p] # None => files[p] # None,
         \A c \in Clients :
            \/ call'[c] = call[c]
            \/ call[c].step \notin {"insert", "remove"}
            \/ OnDisk(call[c].row) => \/ files'[call[c].row.path] = None
                                     \/ call[c].row.path \in lost' \cup leaked'
  PROVE  FilesOwned'
<1> SUFFICES ASSUME NEW p \in Path, files'[p] # None
             PROVE  Owned(p)'
  BY NextOwnedForm
<1>1. Owned(p)
  BY FilesOwnedForm
<1> QED
  BY <1>1, OwnersStay

LEMMA FilesOwnedStep ==
  ASSUME CallsInv, FilesOwned, [Next]_vars
  PROVE  FilesOwned'
<1>0. CallsInv' /\ call \in [Clients -> Call] /\ files \in [Path -> Contents \cup {Torn, None}]
  BY CallsStep DEF CallsInv, TypeOK
<1>1. ASSUME NEW c \in Clients, NEW id \in Ids, NEW p \in Path, NEW content \in Contents,
             Store(c, id, p, content)
      PROVE  FilesOwned'
  BY <1>1, StoreOwned
<1>2. ASSUME NEW c \in Clients, NEW id \in Ids,
             SelectRow(c, id, "get") \/ SelectRow(c, id, "download") \/ GetStorageInfo(c, id)
      PROVE  FilesOwned'
  <2>1. call[c].step \notin {"insert", "remove"} /\ UNCHANGED <<rows, files, lost, leaked>>
        /\ \A d \in Clients \ {c} : call'[d] = call[d]
    BY <1>0, <1>2 DEF GetStorageInfo, SelectRow, Proceed, Idle, aux
  <2> QED
    BY <1>0, <2>1, OtherOwned
<1>3. ASSUME NEW c \in Clients, InsertRow(c)
      PROVE  FilesOwned'
  BY <1>3, InsertOwned
<1>4. ASSUME NEW c \in Clients, InsertFails(c)
      PROVE  FilesOwned'
  <2>1. UNCHANGED <<rows, files, leaked>> /\ lost \subseteq lost'
        /\ \A d \in Clients \ {c} : call'[d] = call[d]
    BY <1>0, <1>4, ReturnType DEF InsertFails
  <2>2. OnDisk(call[c].row) => call[c].row.path \in lost'
    BY <1>4 DEF InsertFails, OwnedBy
  <2> QED
    BY <1>0, <2>1, <2>2, OtherOwned
<1>5. ASSUME NEW c \in Clients, ReadContent(c)
      PROVE  FilesOwned'
  <2>1. call[c].step \notin {"insert", "remove"} /\ UNCHANGED <<rows, files, lost, leaked>>
        /\ \A d \in Clients \ {c} : call'[d] = call[d]
    BY <1>0, <1>5, ReturnType DEF ReadContent, aux
  <2> QED
    BY <1>0, <2>1, OtherOwned
<1>6. ASSUME NEW c \in Clients, DeleteRow(c)
      PROVE  FilesOwned'
  BY <1>6, DeleteOwned
<1>7. ASSUME NEW c \in Clients, RemoveFile(c)
      PROVE  FilesOwned'
  <2>1. /\ files' = [files EXCEPT ![call[c].row.path] = None] /\ UNCHANGED <<rows, lost, leaked>>
        /\ \A d \in Clients \ {c} : call'[d] = call[d]
    BY <1>0, <1>7, ReturnType DEF RemoveFile, aux
  <2>2. call[c].row.path \in Path
    BY <1>7 DEF RemoveFile, CallsInv, CallInv, Row, aux
  <2> QED
    BY <1>0, <2>1, <2>2, OtherOwned
<1>8. ASSUME NEW e \in Executions, NEW gone, CleanupForExecution(e, gone)
      PROVE  FilesOwned'
  <2>1. UNCHANGED <<rows, call, lost, leaked>> /\ \A p \in Path : files'[p] # None => files[p] # None
    BY <1>8 DEF CleanupForExecution
  <2> QED
    BY <1>0, <2>1, OtherOwned
<1>9. ASSUME NEW c \in Clients, RemoveFails(c)
      PROVE  FilesOwned'
  <2>1. /\ UNCHANGED <<rows, files, lost>> /\ leaked' = leaked \cup {call[c].row.path}
        /\ \A d \in Clients \ {c} : call'[d] = call[d]
    BY <1>0, <1>9, ReturnType DEF RemoveFails
  <2> QED
    BY <1>0, <2>1, OtherOwned
<1>10. ASSUME NEW c \in Clients, NEW p \in Path, NEW content \in Contents,
              StoreFails(c, p, content)
       PROVE  FilesOwned'
  <2>1. /\ files' = [files EXCEPT ![p] = Torn] /\ lost' = lost \cup {p}
        /\ UNCHANGED <<rows, call, leaked>>
    BY <1>10 DEF StoreFails
  <2> SUFFICES ASSUME NEW q \in Path, files'[q] # None
               PROVE  Owned(q)'
    BY NextOwnedForm
  <2>2. CASE q = p
    BY <2>1, <2>2 DEF Owned
  <2>3. CASE q # p
    <3>1. Owned(q)
      BY <1>0, <2>1, <2>3, FilesOwnedForm
    <3> QED
      BY <1>0, <2>1, <3>1, OwnersStay
  <2> QED
    BY <2>2, <2>3
<1>11. CASE Crash
  <2>1. UNCHANGED <<rows, files, leaked>> /\ lost \subseteq lost'
    BY <1>11 DEF Crash
  <2>2. ASSUME NEW c \in Clients, call[c].step \in {"insert", "remove"}, OnDisk(call[c].row)
        PROVE  call[c].row.path \in lost'
    BY <1>11, <2>2 DEF Crash, OwnedBy
  <2> QED
    BY <1>0, <2>1, <2>2, OtherOwned
<1>12. CASE UNCHANGED vars
  BY <1>0, <1>12, OtherOwned DEF vars, aux
<1> QED
  BY <1>1, <1>2, <1>3, <1>4, <1>5, <1>6, <1>7, <1>8, <1>9, <1>10, <1>11, <1>12 DEF Next

\* No file is ever without a row on disk, a call at work on it, or a failed write,
\* insert or removal or an end of the process that left it behind, whether names are
\* used again or not (artifact_create and delete_artifact).
THEOREM NoFileLeaks == Spec => []FilesOwned
<1>1. Init => CallsInv /\ FilesOwned
  <2>1. Init => FilesOwned
    BY DEF Init, FilesOwned
  <2> QED
    BY <2>1, CallsInit
<1>2. CallsInv /\ FilesOwned /\ [Next]_vars => CallsInv' /\ FilesOwned'
  BY CallsStep, FilesOwnedStep
<1> QED
  BY <1>1, <1>2, PTL DEF Spec
-------------------------------------------------------------------------------
\* What a row says is what is there.

\* The row of an artifact leads to the content that it came with, or did until its
\* execution was cleaned up.
Backed(id, row) ==
  IF OnDisk(row) THEN \/ files[row.path] = origin[id].content
                      \/ row.path \in cleaned
                 ELSE row.inline = origin[id].content

\* Different artifacts have different paths, and rows and the rows that are about to
\* be inserted are backed.
BackedInv ==
  /\ \A i, j \in Ids : i # j /\ origin[i] # None /\ origin[j] # None
                          => origin[i].path # origin[j].path
  /\ \A id \in Ids : rows[id] # None => Backed(id, rows[id])
  /\ \A c \in Clients : call[c].step = "insert" => Backed(call[c].id, call[c].row)

\* A step that stores nothing keeps what is backed, if it touches no file of an
\* artifact that has a row or is about to get one, but to clean up.
LEMMA BackedStays ==
  ASSUME CallsInv, BackedInv, UNCHANGED origin, cleaned \subseteq cleaned',
         \A c \in Clients : call'[c].step = "insert" => call'[c] = call[c],
         \A id \in Ids : rows'[id] # None =>
            \/ rows'[id] = rows[id]
            \/ \E c \in Clients : /\ call[c].step = "insert" /\ call[c].id = id
                                  /\ rows'[id] = call[c].row,
         \A id \in Ids :
            origin[id] # None /\ files'[origin[id].path] # files[origin[id].path] =>
              \/ origin[id].path \in cleaned'
              \/ /\ rows'[id] = None
                 /\ \A c \in Clients : call[c].step = "insert" => call[c].id # id
  PROVE  BackedInv'
<1>1. /\ CallInv /\ RowInv
      /\ \A id \in Ids : rows[id] # None => Backed(id, rows[id])
      /\ \A c \in Clients : call[c].step = "insert" => Backed(call[c].id, call[c].row)
  BY DEF CallsInv, BackedInv
<1>2. ASSUME NEW id \in Ids, NEW row, row.path = origin[id].path, Backed(id, row),
             \/ files'[origin[id].path] = files[origin[id].path]
             \/ origin[id].path \in cleaned'
      PROVE  /\ OnDisk(row) => \/ files'[row.path] = origin'[id].content
                               \/ row.path \in cleaned'
             /\ ~OnDisk(row) => row.inline = origin'[id].content
  BY <1>2 DEF Backed
<1>3. ASSUME NEW c \in Clients, call[c].step = "insert"
      PROVE  /\ call[c].id \in Ids /\ origin[call[c].id] # None
             /\ call[c].row.path = origin[call[c].id].path
             /\ Backed(call[c].id, call[c].row)
  BY <1>1, <1>3 DEF CallInv
<1>4. ASSUME NEW id \in Ids, rows'[id] # None
      PROVE  /\ OnDisk(rows'[id]) => \/ files'[rows'[id].path] = origin'[id].content
                                     \/ rows'[id].path \in cleaned'
             /\ ~OnDisk(rows'[id]) => rows'[id].inline = origin'[id].content
  <2>1. /\ origin[id] # None /\ rows'[id].path = origin[id].path
        /\ Backed(id, rows'[id])
    BY <1>1, <1>3, <1>4 DEF RowInv
  <2> QED
    BY <1>2, <1>4, <2>1
<1>5. ASSUME NEW c \in Clients, call'[c].step = "insert"
      PROVE  LET id == call'[c].id  row == call'[c].row
             IN  /\ OnDisk(row) => \/ files'[row.path] = origin'[id].content
                                   \/ row.path \in cleaned'
                 /\ ~OnDisk(row) => row.inline = origin'[id].content
  <2>1. call'[c] = call[c] /\ call[c].step = "insert"
    BY <1>5
  <2> QED
    BY <1>2, <1>3, <2>1
<1>6. \A id \in Ids : rows'[id] # None => Backed(id, rows[id])'
  BY <1>4 DEF Backed, OnDisk
<1>7. \A c \in Clients : call'[c].step = "insert" => Backed(call[c].id, call[c].row)'
  BY <1>5 DEF Backed, OnDisk
<1> QED
  BY <1>6, <1>7 DEF BackedInv

\* What store wrote is the content, at a path no artifact had.
LEMMA StoreBacked ==
  ASSUME ~Reuse, CallsInv, BackedInv, NEW c \in Clients, NEW id \in Ids, NEW path \in Path,
         NEW content \in Contents, Store(c, id, path, content)
  PROVE  BackedInv'
<1> DEFINE row == [path |-> path, inline |-> IF content \in Large THEN None ELSE content]
           new == [step |-> "insert", id |-> id, row |-> row]
           came == [path |-> path, content |-> content]
<1>1. /\ call[c] = Idle /\ origin[id] = None
      /\ \A i \in Ids : origin[i] # None => origin[i].path # path
      /\ call' = [call EXCEPT ![c] = new]
      /\ origin' = [origin EXCEPT ![id] = came]
      /\ files' = IF content \in Large THEN [files EXCEPT ![path] = content] ELSE files
      /\ UNCHANGED <<rows, lost, leaked, cleaned>>
  BY DEF Store, Proceed, Free
<1>2. /\ row.path = path
      /\ OnDisk(row) => content \in Large
      /\ ~OnDisk(row) => row.inline = content
  BY ArtifactsAssumption DEF OnDisk
<1> HIDE DEF row
<1>3. new.step = "insert" /\ new.id = id /\ new.row = row
  OBVIOUS
<1>4. came.path = path /\ came.content = content
  OBVIOUS
<1> HIDE DEF new, came
<1>5. /\ TypeOK /\ CallInv /\ RowInv
      /\ call \in [Clients -> Call] /\ origin \in [Ids -> Origin \cup {None}]
      /\ files \in [Path -> Contents \cup {Torn, None}]
  BY DEF CallsInv, TypeOK
<1>6. call'[c] = new /\ \A d \in Clients \ {c} : call'[d] = call[d]
  BY <1>1, <1>5
<1>7. origin'[id] = came /\ \A i \in Ids \ {id} : origin'[i] = origin[i]
  BY <1>1, <1>5
<1>8. /\ content \in Large => files'[path] = content
      /\ \A p \in Path \ {path} : files'[p] = files[p]
  BY <1>1, <1>5
<1>9. ASSUME NEW i \in Ids \ {id}, NEW r, origin[i] # None, r.path = origin[i].path,
             Backed(i, r)
      PROVE  /\ OnDisk(r) => \/ files'[r.path] = origin'[i].content
                             \/ r.path \in cleaned'
             /\ ~OnDisk(r) => r.inline = origin'[i].content
  <2>1. r.path \in Path \ {path}
    BY <1>1, <1>5, <1>9 DEF Origin
  <2> QED
    BY <1>1, <1>7, <1>8, <1>9, <2>1 DEF Backed
<1>10. \A i \in Ids : rows'[i] # None => Backed(i, rows[i])'
  <2> SUFFICES ASSUME NEW i \in Ids, rows'[i] # None
               PROVE  Backed(i, rows[i])'
    OBVIOUS
  <2>1. /\ i # id /\ origin[i] # None /\ rows'[i] = rows[i]
        /\ rows[i].path = origin[i].path /\ Backed(i, rows[i])
    BY <1>1, <1>5 DEF RowInv, BackedInv
  <2> QED
    BY <1>9, <2>1 DEF Backed, OnDisk
<1>11. \A d \in Clients : call'[d].step = "insert" => Backed(call[d].id, call[d].row)'
  <2> SUFFICES ASSUME NEW d \in Clients, call'[d].step = "insert"
               PROVE  Backed(call[d].id, call[d].row)'
    OBVIOUS
  <2>1. CASE d = c
    BY <1>2, <1>3, <1>4, <1>6, <1>7, <1>8, <2>1 DEF Backed, OnDisk
  <2>2. CASE d # c
    <3>1. /\ call'[d] = call[d] /\ call[d].id \in Ids \ {id} /\ origin[call[d].id] # None
          /\ call[d].row.path = origin[call[d].id].path /\ Backed(call[d].id, call[d].row)
      BY <1>1, <1>5, <1>6, <2>2 DEF CallInv, BackedInv
    <3> QED
      BY <1>9, <3>1 DEF Backed, OnDisk
  <2> QED
    BY <2>1, <2>2
<1>12. \A i, j \in Ids : i # j /\ origin'[i] # None /\ origin'[j] # None
                           => origin'[i].path # origin'[j].path
  BY <1>1, <1>4, <1>7 DEF BackedInv
<1> QED
  BY <1>10, <1>11, <1>12 DEF BackedInv
LEMMA BackedStep ==
  ASSUME ~Reuse, CallsInv, BackedInv, [Next]_vars
  PROVE  BackedInv'
<1>0. /\ call \in [Clients -> Call] /\ files \in [Path -> Contents \cup {Torn, None}]
      /\ origin \in [Ids -> Origin \cup {None}] /\ rows \in [Ids -> Row \cup {None}]
      /\ Idle.step = "idle"
  BY DEF CallsInv, TypeOK, Idle
<1>1. ASSUME NEW c \in Clients, NEW id \in Ids, NEW p \in Path, NEW content \in Contents,
             Store(c, id, p, content)
      PROVE  BackedInv'
  BY <1>1, StoreBacked
<1>2. ASSUME NEW c \in Clients, NEW id \in Ids,
             SelectRow(c, id, "get") \/ SelectRow(c, id, "download") \/ GetStorageInfo(c, id)
      PROVE  BackedInv'
  <2>1. /\ UNCHANGED <<rows, files, origin, cleaned>>
        /\ call'[c].step # "insert" /\ \A d \in Clients \ {c} : call'[d] = call[d]
    BY <1>0, <1>2 DEF GetStorageInfo, SelectRow, Proceed, aux
  <2> QED
    BY <2>1, BackedStays
<1>3. ASSUME NEW c \in Clients, InsertRow(c)
      PROVE  BackedInv'
  <2>1. /\ call[c].step = "insert" /\ UNCHANGED <<files, origin, cleaned>>
        /\ rows' = [rows EXCEPT ![call[c].id] = call[c].row]
        /\ call'[c] = Idle /\ \A d \in Clients \ {c} : call'[d] = call[d]
    BY <1>0, <1>3 DEF InsertRow, Return, aux
  <2>2. \A id \in Ids : rows'[id] = rows[id] \/ (id = call[c].id /\ rows'[id] = call[c].row)
    BY <1>0, <2>1
  <2> QED
    BY <1>0, <2>1, <2>2, BackedStays
<1>4. ASSUME NEW c \in Clients, InsertFails(c) \/ ReadContent(c) \/ RemoveFails(c)
      PROVE  BackedInv'
  <2>1. /\ UNCHANGED <<rows, files, origin, cleaned>>
        /\ call'[c] = Idle /\ \A d \in Clients \ {c} : call'[d] = call[d]
    BY <1>0, <1>4 DEF InsertFails, ReadContent, RemoveFails, Return, aux
  <2> QED
    BY <1>0, <2>1, BackedStays
<1>5. ASSUME NEW c \in Clients, DeleteRow(c)
      PROVE  BackedInv'
  <2>1. /\ UNCHANGED <<files, origin, cleaned>> /\ rows' = [rows EXCEPT ![call[c].id] = None]
        /\ call'[c].step # "insert" /\ \A d \in Clients \ {c} : call'[d] = call[d]
    BY <1>0, <1>5 DEF DeleteRow, Proceed, Return, aux
  <2>2. \A id \in Ids : rows'[id] # None => rows'[id] = rows[id]
    BY <1>0, <2>1
  <2> QED
    BY <2>1, <2>2, BackedStays
<1>6. ASSUME NEW c \in Clients, RemoveFile(c)
      PROVE  BackedInv'
  <2> DEFINE id == call[c].id
  <2>1. /\ call[c].step = "remove" /\ UNCHANGED <<rows, origin, cleaned>>
        /\ files' = [files EXCEPT ![call[c].row.path] = None]
        /\ call'[c] = Idle /\ \A d \in Clients \ {c} : call'[d] = call[d]
    BY <1>0, <1>6 DEF RemoveFile, Return, aux
  <2>2. /\ id \in Ids /\ origin[id] # None /\ call[c].row.path = origin[id].path
        /\ rows[id] = None
        /\ \A d \in Clients : call[d].step = "insert" => call[d].id # id
    BY <2>1 DEF CallsInv, CallInv, InsertInv
  <2>3. \A p \in Path : files'[p] # files[p] => p = origin[id].path
    BY <1>0, <2>1, <2>2
  <2> HIDE DEF id
  <2>4. ASSUME NEW i \in Ids, origin[i] # None,
               files'[origin[i].path] # files[origin[i].path]
        PROVE  i = id
    <3>1. origin[i].path \in Path
      BY <1>0, <2>4 DEF Origin
    <3> QED
      BY <2>2, <2>3, <2>4, <3>1 DEF BackedInv
  <2> QED
    BY <1>0, <2>1, <2>2, <2>4, BackedStays
<1>7. ASSUME NEW e \in Executions, NEW gone, CleanupForExecution(e, gone)
      PROVE  BackedInv'
  <2>1. /\ UNCHANGED <<rows, call, origin>> /\ cleaned' = cleaned \cup gone
        /\ \A p \in Path : files'[p] # files[p] => p \in gone
    BY <1>7 DEF CleanupForExecution
  <2>2. \A id \in Ids : origin[id] # None => origin[id].path \in Path
    BY <1>0 DEF Origin
  <2> QED
    BY <2>1, <2>2, BackedStays
<1>8. ASSUME NEW c \in Clients, NEW p \in Path, NEW content \in Contents,
             StoreFails(c, p, content)
      PROVE  BackedInv'
  <2>1. /\ UNCHANGED <<rows, call, origin, cleaned>> /\ files' = [files EXCEPT ![p] = Torn]
        /\ \A i \in Ids : origin[i] # None => origin[i].path # p
    BY <1>8 DEF StoreFails, Free
  <2>2. \A i \in Ids : origin[i] # None => files'[origin[i].path] = files[origin[i].path]
    BY <1>0, <2>1 DEF Origin
  <2> QED
    BY <2>1, <2>2, BackedStays
<1>9. CASE Crash
  <2>1. UNCHANGED <<rows, files, origin, cleaned>> /\ \A c \in Clients : call'[c] = Idle
    BY <1>9 DEF Crash
  <2> QED
    BY <1>0, <2>1, BackedStays
<1>10. CASE UNCHANGED vars
  <2>1. UNCHANGED <<rows, files, call, origin, cleaned>>
    BY <1>10 DEF vars, aux
  <2> QED
    BY <2>1, BackedStays
<1> QED
  BY <1>1, <1>2, <1>3, <1>4, <1>5, <1>6, <1>7, <1>8, <1>9, <1>10 DEF Next

LEMMA BackedInvariant ==
  ASSUME ~Reuse
  PROVE  Spec => [](CallsInv /\ BackedInv)
<1>1. Init => CallsInv /\ BackedInv
  <2>1. ASSUME Init
        PROVE  BackedInv
    <3>1. /\ \A id \in Ids : rows[id] = None /\ origin[id] = None
          /\ \A c \in Clients : call[c].step # "insert"
      BY <2>1 DEF Init, Idle
    <3> QED
      BY <3>1 DEF BackedInv
  <2> QED
    BY <2>1, CallsInit
<1>2. CallsInv /\ BackedInv /\ [Next]_vars => CallsInv' /\ BackedInv'
  BY CallsStep, BackedStep
<1> QED
  BY <1>1, <1>2, PTL DEF Spec

\* If a stage uses no name twice, every row has its content behind any failure and
\* crash, unless the abort route removed it (artifact_create and delete_artifact).
THEOREM RowsStayBacked ==
  ASSUME ~Reuse
  PROVE  Spec => []RowsBacked
<1>1. CallsInv /\ BackedInv => RowsBacked
  <2> SUFFICES ASSUME CallsInv, BackedInv, NEW id \in Ids, rows[id] # None, OnDisk(rows[id]),
                      files[rows[id].path] = None
               PROVE  rows[id].path \in cleaned
    BY DEF RowsBacked
  <2>1. origin[id].content \in Contents
    BY DEF CallsInv, TypeOK, RowInv, Origin
  <2> QED
    BY <2>1, ArtifactsAssumption DEF BackedInv, Backed
<1> QED
  BY <1>1, BackedInvariant, PTL

\* And whoever found a row reads the content the artifact was created with, unless
\* it was deleted or cleaned up meanwhile (artifact_get and download_artifact).
THEOREM ReadersGetOwnContent ==
  ASSUME ~Reuse
  PROVE  Spec => ReadsOwnContent
<1>1. ASSUME CallsInv, BackedInv, NEW c \in Clients, ReadContent(c),
             OnDisk(call[c].row) \/ call[c].step = "get"
      PROVE  \/ Answer(call[c].step, call[c].row) = origin[call[c].id].content
             \/ rows[call[c].id] = None
             \/ call[c].row.path \in cleaned
  <2>1. /\ call[c].step \in {"get", "download"} /\ call[c].id \in Ids
        /\ rows[call[c].id] # None => rows[call[c].id] = call[c].row
    BY <1>1 DEF ReadContent, CallsInv, CallInv, aux
  <2> QED
    BY <1>1, <2>1 DEF BackedInv, Backed, Answer
<1>2. CallsInv /\ BackedInv =>
        [\A c \in Clients :
           ReadContent(c) /\ (OnDisk(call[c].row) \/ call[c].step = "get") =>
             \/ Answer(call[c].step, call[c].row) = origin[call[c].id].content
             \/ rows[call[c].id] = None
             \/ call[c].row.path \in cleaned]_vars
  BY <1>1
<1> QED
  BY <1>2, BackedInvariant, PTL DEF ReadsOwnContent

-------------------------------------------------------------------------------
\* The store that the calls implement.

\* An artifact is on disk if it is large.
Sized(id, row) == OnDisk(row) <=> origin[id].content \in Large

\* A file is what an artifact of its path came with, or torn; then no large artifact
\* has the path.
ContentInv ==
  /\ \A p \in Path : files[p] \notin {Torn, None} =>
       \E id \in Ids : /\ origin[id] # None /\ origin[id].path = p
                       /\ files[p] = origin[id].content
  /\ \A id \in Ids : origin[id] # None /\ origin[id].content \in Large
                       => files[origin[id].path] # Torn
  /\ \A id \in Ids : rows[id] # None => Sized(id, rows[id])
  /\ \A c \in Clients : call[c].step = "insert" => Sized(call[c].id, call[c].row)

LEMMA StoreContent ==
  ASSUME ~Reuse, CallsInv, ContentInv, NEW c \in Clients, NEW id \in Ids, NEW path \in Path,
         NEW content \in Contents, Store(c, id, path, content)
  PROVE  ContentInv'
<1> DEFINE row == [path |-> path, inline |-> IF content \in Large THEN None ELSE content]
           new == [step |-> "insert", id |-> id, row |-> row]
           came == [path |-> path, content |-> content]
<1>1. /\ call[c] = Idle /\ origin[id] = None
      /\ files' = IF content \in Large THEN [files EXCEPT ![path] = content] ELSE files
      /\ call' = [call EXCEPT ![c] = new]
      /\ origin' = [origin EXCEPT ![id] = came]
      /\ rows' = rows /\ \A i \in Ids : origin[i] # None => origin[i].path # path
  BY DEF Store, Proceed, Free
<1>2. /\ call \in [Clients -> Call] /\ origin \in [Ids -> Origin \cup {None}]
      /\ files \in [Path -> Contents \cup {Torn, None}] /\ CallInv /\ RowInv
      /\ came # None /\ came.path = path /\ came.content = content
  BY ArtifactsAssumption DEF CallsInv, TypeOK, Origin
<1>3. /\ new.step = "insert" /\ new.id = id /\ new.row = row
      /\ OnDisk(row) <=> content \in Large
  BY ArtifactsAssumption DEF OnDisk
<1> HIDE DEF came, new, row
<1>4. /\ call'[c] = new /\ \A d \in Clients \ {c} : call'[d] = call[d]
      /\ origin'[id] = came /\ \A i \in Ids \ {id} : origin'[i] = origin[i]
      /\ \A i \in Ids : origin[i] # None => origin'[i] = origin[i]
  BY <1>1, <1>2
<1>5. ASSUME NEW p \in Path, files'[p] \notin {Torn, None}
      PROVE  \E i \in Ids : /\ origin'[i] # None /\ origin'[i].path = p
                            /\ files'[p] = origin'[i].content
  <2>1. CASE files'[p] = files[p]
    <3>1. PICK i \in Ids : /\ origin[i] # None /\ origin[i].path = p
                           /\ files[p] = origin[i].content
      BY <1>5, <2>1 DEF ContentInv
    <3> QED
      BY <1>4, <2>1, <3>1
  <2>2. CASE files'[p] # files[p]
    <3>1. p = path /\ files'[p] = content
      BY <1>1, <1>2, <2>2
    <3> QED
      BY <1>2, <1>4, <3>1
  <2> QED
    BY <2>1, <2>2
<1>6. ASSUME NEW i \in Ids, rows'[i] # None
      PROVE  OnDisk(rows'[i]) <=> origin'[i].content \in Large
  BY <1>1, <1>2, <1>4, <1>6 DEF ContentInv, Sized, RowInv
<1>7. ASSUME NEW d \in Clients, call'[d].step = "insert"
      PROVE  OnDisk(call'[d].row) <=> origin'[call'[d].id].content \in Large
  <2>1. CASE d = c
    BY <1>2, <1>3, <1>4, <2>1
  <2>2. CASE d # c
    <3>1. call[d].step = "insert" /\ call'[d] = call[d]
      BY <1>4, <1>7, <2>2
    <3>2. call[d].id \in Ids /\ origin[call[d].id] # None
      BY <1>2, <3>1 DEF CallInv
    <3> QED
      BY <1>4, <3>1, <3>2 DEF ContentInv, Sized
  <2> QED
    BY <2>1, <2>2
<1>8. ASSUME NEW i \in Ids, origin'[i] # None, origin'[i].content \in Large
      PROVE  files'[origin'[i].path] # Torn
  <2>1. CASE i = id
    BY <1>1, <1>2, <1>4, <1>8, <2>1, ArtifactsAssumption
  <2>2. CASE i # id
    <3>1. /\ origin'[i] = origin[i] /\ origin[i] # None /\ origin[i].path # path
          /\ origin[i].path \in Path
      BY <1>1, <1>2, <1>4, <1>8, <2>2 DEF Origin
    <3> QED
      BY <1>1, <1>2, <1>8, <3>1 DEF ContentInv
  <2> QED
    BY <2>1, <2>2
<1> QED
  BY <1>5, <1>6, <1>7, <1>8 DEF ContentInv, Sized, OnDisk

\* A step that stores nothing.
LEMMA ContentStays ==
  ASSUME CallsInv, ContentInv, UNCHANGED origin,
         \A p \in Path :
            \/ files'[p] \in {files[p], None}
            \/ files'[p] = Torn /\ \A id \in Ids : origin[id] # None => origin[id].path # p,
         \A c \in Clients : call'[c].step = "insert" => call'[c] = call[c],
         \A id \in Ids : rows'[id] # None =>
            \/ rows'[id] = rows[id]
            \/ \E c \in Clients : /\ call[c].step = "insert" /\ call[c].id = id
                                  /\ rows'[id] = call[c].row
  PROVE  ContentInv'
<1>1. Torn # None /\ \A id \in Ids : origin[id] # None => origin[id].path \in Path
  BY ArtifactsAssumption DEF CallsInv, TypeOK, Origin
<1>2. ASSUME NEW p \in Path, files'[p] \notin {Torn, None}
      PROVE  \E id \in Ids : /\ origin'[id] # None /\ origin'[id].path = p
                             /\ files'[p] = origin'[id].content
  BY <1>2 DEF ContentInv
<1>3. ASSUME NEW id \in Ids, origin'[id] # None, origin'[id].content \in Large
      PROVE  files'[origin'[id].path] # Torn
  BY <1>1, <1>3 DEF ContentInv
<1>4. /\ \A id \in Ids : rows'[id] # None => Sized(id, rows[id])'
      /\ \A c \in Clients : call'[c].step = "insert" => Sized(call[c].id, call[c].row)'
  BY DEF ContentInv, Sized, OnDisk
<1> QED
  BY <1>2, <1>3, <1>4 DEF ContentInv

LEMMA ContentStep ==
  ASSUME ~Reuse, CallsInv, ContentInv, [Next]_vars
  PROVE  ContentInv'
<1>0. /\ call \in [Clients -> Call] /\ files \in [Path -> Contents \cup {Torn, None}]
      /\ rows \in [Ids -> Row \cup {None}] /\ Idle.step = "idle"
  BY DEF CallsInv, TypeOK, Idle
<1>1. ASSUME NEW c \in Clients, NEW id \in Ids, NEW p \in Path, NEW content \in Contents,
             Store(c, id, p, content)
      PROVE  ContentInv'
  BY <1>1, StoreContent
<1>2. ASSUME NEW c \in Clients, NEW id \in Ids,
             SelectRow(c, id, "get") \/ SelectRow(c, id, "download") \/ GetStorageInfo(c, id)
      PROVE  ContentInv'
  <2>1. /\ UNCHANGED <<rows, files, origin>>
        /\ call'[c].step # "insert" /\ \A d \in Clients \ {c} : call'[d] = call[d]
    BY <1>0, <1>2 DEF GetStorageInfo, SelectRow, Proceed, aux
  <2> QED
    BY <2>1, ContentStays
<1>3. ASSUME NEW c \in Clients, InsertRow(c)
      PROVE  ContentInv'
  <2>1. /\ call[c].step = "insert" /\ UNCHANGED <<files, origin>>
        /\ rows' = [rows EXCEPT ![call[c].id] = call[c].row]
        /\ call'[c] = Idle /\ \A d \in Clients \ {c} : call'[d] = call[d]
    BY <1>0, <1>3 DEF InsertRow, Return, aux
  <2>2. \A id \in Ids : rows'[id] = rows[id] \/ (id = call[c].id /\ rows'[id] = call[c].row)
    BY <1>0, <2>1
  <2> QED
    BY <1>0, <2>1, <2>2, ContentStays
<1>4. ASSUME NEW c \in Clients, InsertFails(c) \/ ReadContent(c) \/ DeleteRow(c)
                                    \/ RemoveFile(c) \/ RemoveFails(c)
      PROVE  ContentInv'
  <2>1. /\ origin' = origin
        /\ \A p \in Path : files'[p] \in {files[p], None}
        /\ \A id \in Ids : rows'[id] \in {rows[id], None}
    BY <1>0, <1>4 DEF InsertFails, ReadContent, DeleteRow, RemoveFile, RemoveFails, aux
  <2>2. call'[c].step # "insert" /\ \A d \in Clients \ {c} : call'[d] = call[d]
    BY <1>0, <1>4 DEF InsertFails, ReadContent, DeleteRow, RemoveFile, RemoveFails,
       Proceed, Return, aux
  <2> QED
    BY <2>1, <2>2, ContentStays
<1>5. ASSUME NEW e \in Executions, NEW gone, CleanupForExecution(e, gone)
      PROVE  ContentInv'
  <2>1. UNCHANGED <<rows, call, origin>> /\ \A p \in Path : files'[p] \in {files[p], None}
    BY <1>0, <1>5 DEF CleanupForExecution
  <2> QED
    BY <2>1, ContentStays
<1>6. ASSUME NEW c \in Clients, NEW p \in Path, NEW content \in Contents,
             StoreFails(c, p, content)
      PROVE  ContentInv'
  <2>1. /\ UNCHANGED <<rows, call, origin>> /\ files' = [files EXCEPT ![p] = Torn]
        /\ \A i \in Ids : origin[i] # None => origin[i].path # p
    BY <1>6 DEF StoreFails, Free
  <2>2. \A q \in Path : files'[q] = files[q] \/ (q = p /\ files'[q] = Torn)
    BY <1>0, <2>1
  <2> QED
    BY <2>1, <2>2, ContentStays
<1>7. CASE Crash
  <2>1. UNCHANGED <<rows, files, origin>> /\ \A c \in Clients : call'[c] = Idle
    BY <1>7 DEF Crash
  <2> QED
    BY <1>0, <2>1, ContentStays
<1>8. CASE UNCHANGED vars
  <2>1. UNCHANGED <<rows, files, call, origin>>
    BY <1>8 DEF vars, aux
  <2> QED
    BY <2>1, ContentStays
<1> QED
  BY <1>1, <1>2, <1>3, <1>4, <1>5, <1>6, <1>7, <1>8 DEF Next

\* What is read of an artifact whose row and file stay does not change.
LEMMA ReadableStays ==
  ASSUME CallsInv, NEW id \in Ids, rows'[id] = rows[id],
         rows[id] # None /\ OnDisk(rows[id])
           => files'[origin[id].path] = files[origin[id].path]
  PROVE  Readable'[id] = Readable[id]
<1>1. rows[id] # None => rows[id].path = origin[id].path
  BY DEF CallsInv, RowInv
<1> QED
  BY <1>1 DEF Readable, Answer, OnDisk

LEMMA ReadableSame ==
  ASSUME \A id \in Ids : Readable'[id] = Readable[id]
  PROVE  Readable' = Readable
BY DEF Readable

LEMMA PendingSome ==
  ASSUME NEW id
  PROVE  /\ id \in Pending <=> \E c \in Clients : call[c].step = "insert" /\ call[c].id = id
         /\ id \in Pending' <=> \E c \in Clients : call'[c].step = "insert" /\ call'[c].id = id
BY DEF Pending

\* A call that is not inserting before or after the step.
LEMMA PendingSame ==
  ASSUME \A c \in Clients : \/ call'[c] = call[c]
                            \/ call[c].step # "insert" /\ call'[c].step # "insert"
  PROVE  Pending' = Pending
BY PendingSome

LEMMA GivenSame ==
  ASSUME UNCHANGED origin
  PROVE  Given' = Given
BY DEF Given

\* The call of c was to insert its artifact, and ends: nobody else inserts it.
LEMMA PendingEnds ==
  ASSUME CallsInv, NEW c \in Clients, call[c].step = "insert", Return(c)
  PROVE  call[c].id \in Pending /\ Pending' = Pending \ {call[c].id}
<1>1. /\ call'[c].step # "insert" /\ \A d \in Clients \ {c} : call'[d] = call[d]
  BY ReturnType DEF Idle
<1>2. \A d \in Clients \ {c} : call[d].step = "insert" => call[d].id # call[c].id
  BY DEF CallsInv, InsertInv
<1>3. call[c].id \in Pending
  BY PendingSome
<1>4. ASSUME NEW id PROVE id \in Pending' <=> id \in Pending \ {call[c].id}
  BY <1>1, <1>2, PendingSome
<1> QED
  BY <1>3, <1>4

LEMMA StoreAccepts ==
  ASSUME ~Reuse, CallsInv, NEW c \in Clients, NEW id \in Ids, NEW path \in Path,
         NEW content \in Contents, Store(c, id, path, content)
  PROVE  Promise!Accept(id, path.execution, content)
<1> DEFINE row == [path |-> path, inline |-> IF content \in Large THEN None ELSE content]
           new == [step |-> "insert", id |-> id, row |-> row]
           came == [path |-> path, content |-> content]
<1>1. /\ call[c] = Idle /\ origin[id] = None
      /\ \A i \in Ids : origin[i] # None => origin[i].path # path
      /\ files' = IF content \in Large THEN [files EXCEPT ![path] = content] ELSE files
      /\ call' = [call EXCEPT ![c] = new]
      /\ origin' = [origin EXCEPT ![id] = came]
      /\ rows' = rows
  BY DEF Store, Proceed, Free
<1>2. /\ call \in [Clients -> Call] /\ origin \in [Ids -> Origin \cup {None}]
      /\ files \in [Path -> Contents \cup {Torn, None}] /\ CallInv /\ RowInv
      /\ call[c].step = "idle" /\ came # None
      /\ came.path = path /\ came.content = content
  BY <1>1, ArtifactsAssumption DEF CallsInv, TypeOK, Idle, Origin
<1>3. new.step = "insert" /\ new.id = id
  OBVIOUS
<1> HIDE DEF came, new
<1>4. /\ call'[c] = new /\ \A d \in Clients \ {c} : call'[d] = call[d]
      /\ origin'[id] = came /\ \A i \in Ids \ {id} : origin'[i] = origin[i]
  BY <1>1, <1>2
<1>5. Given[id] = None
  BY <1>1 DEF Given
<1>6. Given' = [Given EXCEPT ![id] = [execution |-> path.execution, content |-> content]]
  BY <1>2, <1>4 DEF Given
<1>7. Pending' = Pending \cup {id}
  <2>1. ASSUME NEW i PROVE i \in Pending' <=> i \in Pending \cup {id}
    BY <1>2, <1>3, <1>4, PendingSome
  <2> QED
    BY <2>1
<1>8. Readable' = Readable
  <2>1. ASSUME NEW i \in Ids PROVE Readable'[i] = Readable[i]
    <3>1. ASSUME rows[i] # None
          PROVE  files'[origin[i].path] = files[origin[i].path]
      <4>1. origin[i] # None /\ origin[i].path # path /\ origin[i].path \in Path
        BY <1>1, <1>2, <3>1 DEF RowInv, Origin
      <4> QED
        BY <1>1, <1>2, <4>1
    <3> QED
      BY <1>1, <3>1, ReadableStays
  <2> QED
    BY <2>1, ReadableSame
<1> QED
  BY <1>5, <1>6, <1>7, <1>8 DEF Promise!Accept

\* A file that was cleaned up before its row came is none.
LEMMA InsertPublishes ==
  ASSUME CallsInv, BackedInv, ContentInv, NEW c \in Clients, InsertRow(c)
  PROVE  Promise!Publish(call[c].id) \/ Promise!Drop({call[c].id})
<1> DEFINE id == call[c].id
           row == call[c].row
<1>1. /\ call[c].step = "insert" /\ rows' = [rows EXCEPT ![id] = row] /\ Return(c)
      /\ UNCHANGED <<files, origin, cleaned>>
  BY DEF InsertRow, aux
<1>2. /\ id \in Ids /\ row \in Row /\ row # None /\ rows[id] = None
      /\ origin[id] # None /\ row.path = origin[id].path /\ Backed(id, row)
      /\ rows \in [Ids -> Row \cup {None}]
      /\ files \in [Path -> Contents \cup {Torn, None}] /\ row.path \in Path
  BY <1>1, ArtifactsAssumption DEF CallsInv, TypeOK, CallInv, InsertInv, BackedInv, Row
<1>3. id \in Pending /\ Pending' = Pending \ {id} /\ Given' = Given
  BY <1>1, PendingEnds, GivenSame
<1> HIDE DEF id, row
<1>4. ASSUME NEW i \in Ids, i # id PROVE Readable'[i] = Readable[i]
  BY <1>1, <1>2, <1>4, ReadableStays
<1>5. Readable[id] = None /\ Readable'[id] = (IF OnDisk(row) THEN files[row.path] ELSE row.inline)
  BY <1>1, <1>2 DEF Readable, Answer
<1>6. Given[id].content = origin[id].content
  BY <1>2 DEF Given
<1>7. CASE Readable'[id] = origin[id].content
  <2>1. Readable' = [Readable EXCEPT ![id] = Given[id].content]
    BY <1>2, <1>4, <1>6, <1>7 DEF Readable
  <2> QED
    BY <1>3, <2>1 DEF Promise!Publish, id
<1>8. CASE Readable'[id] = None
  <2>1. Readable' = Readable
    BY <1>4, <1>5, <1>8, ReadableSame
  <2> QED
    BY <1>3, <2>1 DEF Promise!Drop, id
<1>9. Readable'[id] \in {origin[id].content, None}
  <2>1. CASE OnDisk(row) /\ files[row.path] # None
    <3>0. Sized(id, row)
      BY <1>1 DEF ContentInv, id, row
    <3>1. PICK i \in Ids : /\ origin[i] # None /\ origin[i].path = row.path
                           /\ files[row.path] = origin[i].content
      BY <1>2, <2>1, <3>0 DEF ContentInv, Sized
    <3>2. i = id
      BY <1>2, <3>1 DEF BackedInv
    <3> QED
      BY <1>5, <2>1, <3>1, <3>2
  <2>2. CASE OnDisk(row) /\ files[row.path] = None
    BY <1>5, <2>2
  <2>3. CASE ~OnDisk(row)
    BY <1>2, <1>5, <2>3 DEF Backed
  <2> QED
    BY <2>1, <2>2, <2>3
<1> QED
  BY <1>7, <1>8, <1>9

\* Nobody inserts what another is deleting.
LEMMA DeleteDeletes ==
  ASSUME CallsInv, NEW c \in Clients, DeleteRow(c)
  PROVE  Promise!Delete(call[c].id)
<1> DEFINE id == call[c].id
<1>1. /\ call[c].step = "delete" /\ rows' = [rows EXCEPT ![id] = None]
      /\ UNCHANGED <<files, origin>>
  BY DEF DeleteRow, aux
<1>2. call \in [Clients -> Call] /\ rows \in [Ids -> Row \cup {None}] /\ id \in Ids
  BY <1>1 DEF CallsInv, TypeOK, CallInv
<1>3. call'[c].step # "insert" /\ \A d \in Clients \ {c} : call'[d] = call[d]
  BY <1>2 DEF DeleteRow, Proceed, Return, Idle, aux
<1> HIDE DEF id
<1>4. Pending' = Pending /\ Given' = Given
  BY <1>1, <1>3, PendingSame, GivenSame
<1>5. Readable' = [Readable EXCEPT ![id] = None]
  <2>1. \A i \in Ids \ {id} : Readable'[i] = Readable[i]
    BY <1>1, <1>2, ReadableStays
  <2>2. Readable'[id] = None
    BY <1>1, <1>2 DEF Readable
  <2> QED
    BY <1>2, <2>1, <2>2 DEF Readable
<1> QED
  BY <1>4, <1>5 DEF Promise!Delete, id

\* The file that is removed was that of a row already gone.
LEMMA RemoveStutters ==
  ASSUME CallsInv, BackedInv, NEW c \in Clients, RemoveFile(c)
  PROVE  UNCHANGED <<Given, Pending, Readable>>
<1> DEFINE id == call[c].id
<1>1. /\ call[c].step = "remove" /\ UNCHANGED <<rows, origin>> /\ Return(c)
      /\ files' = [files EXCEPT ![call[c].row.path] = None]
  BY DEF RemoveFile, aux
<1>2. /\ id \in Ids /\ origin[id] # None /\ call[c].row.path = origin[id].path
      /\ rows[id] = None /\ files \in [Path -> Contents \cup {Torn, None}]
      /\ origin \in [Ids -> Origin \cup {None}] /\ RowInv
  BY <1>1 DEF CallsInv, CallInv, TypeOK
<1>3. call'[c].step # "insert" /\ \A d \in Clients \ {c} : call'[d] = call[d]
  BY <1>1, ReturnType DEF Idle
<1> HIDE DEF id
<1>4. ASSUME NEW i \in Ids PROVE Readable'[i] = Readable[i]
  <2>1. ASSUME rows[i] # None
        PROVE  files'[origin[i].path] = files[origin[i].path]
    <3>1. i # id /\ origin[i] # None /\ origin[i].path \in Path
      BY <1>2, <2>1 DEF RowInv, Origin
    <3>2. origin[i].path # origin[id].path
      BY <1>2, <3>1 DEF BackedInv
    <3> QED
      BY <1>1, <1>2, <3>1, <3>2
  <2> QED
    BY <1>1, <2>1, ReadableStays
<1> QED
  BY <1>1, <1>3, <1>4, ReadableSame, PendingSame, GivenSame

\* A file that could not be removed is read as before.
LEMMA RemoveFailsStutters ==
  ASSUME CallsInv, NEW c \in Clients, RemoveFails(c)
  PROVE  UNCHANGED <<Given, Pending, Readable>>
<1>1. /\ call[c].step = "remove" /\ UNCHANGED <<rows, files, origin>> /\ Return(c)
  BY DEF RemoveFails
<1>2. call'[c].step # "insert" /\ \A d \in Clients \ {c} : call'[d] = call[d]
  BY <1>1, ReturnType DEF Idle
<1> QED
  BY <1>1, <1>2, PendingSame, GivenSame, ReadableStays, ReadableSame

\* A torn file has no artifact.
LEMMA StoreFailsStutters ==
  ASSUME ~Reuse, CallsInv, NEW c \in Clients, NEW path \in Path, NEW content \in Contents,
         StoreFails(c, path, content)
  PROVE  UNCHANGED <<Given, Pending, Readable>>
<1>1. /\ UNCHANGED <<rows, call, origin>> /\ files' = [files EXCEPT ![path] = Torn]
      /\ \A i \in Ids : origin[i] # None => origin[i].path # path
  BY DEF StoreFails, Free
<1>2. /\ files \in [Path -> Contents \cup {Torn, None}] /\ RowInv
      /\ origin \in [Ids -> Origin \cup {None}]
  BY DEF CallsInv, TypeOK
<1>3. ASSUME NEW i \in Ids, rows[i] # None
      PROVE  files'[origin[i].path] = files[origin[i].path]
  <2>1. origin[i].path \in Path \ {path}
    BY <1>1, <1>2, <1>3 DEF RowInv, Origin
  <2> QED
    BY <1>1, <1>2, <2>1
<1> QED
  BY <1>1, <1>3, PendingSame, GivenSame, ReadableStays, ReadableSame

\* What is gone is large and of the execution.
LEMMA CleanupCleans ==
  ASSUME CallsInv, ContentInv, NEW e \in Executions, NEW gone, CleanupForExecution(e, gone)
  PROVE  Promise!CleanUp(e)
<1> DEFINE ids == {id \in Ids : /\ rows[id] # None /\ OnDisk(rows[id])
                               /\ rows[id].path \in gone}
<1>1. /\ UNCHANGED <<rows, call, origin>> /\ \A p \in gone : p.execution = e
      /\ files' = [p \in Path |-> IF p \in gone THEN None ELSE files[p]]
  BY DEF CleanupForExecution, Tree
<1>2. rows \in [Ids -> Row \cup {None}] /\ origin \in [Ids -> Origin \cup {None}] /\ RowInv
  BY DEF CallsInv, TypeOK
<1>3. Pending' = Pending /\ Given' = Given
  BY <1>1, PendingSame, GivenSame
<1>4. ASSUME NEW id \in ids
      PROVE  Given[id] # None /\ Given[id].execution = e /\ Given[id].content \in Large
  <2>1. /\ id \in Ids /\ origin[id] # None /\ origin[id] \in Origin
        /\ origin[id].path.execution = e /\ origin[id].content \in Large
    BY <1>1, <1>2 DEF RowInv, ContentInv, Sized
  <2>2. Given[id] = [execution |-> origin[id].path.execution, content |-> origin[id].content]
    BY <2>1 DEF Given
  <2>3. Given[id] \in [execution : Executions, content : Contents]
    BY <2>1, <2>2 DEF Origin, Path
  <2> QED
    BY <2>1, <2>2, <2>3, ArtifactsAssumption
<1>5. ASSUME NEW id \in Ids
      PROVE  Readable'[id] = IF id \in ids THEN None ELSE Readable[id]
  <2>1. CASE rows[id] = None
    BY <1>1, <2>1 DEF Readable
  <2>2. CASE rows[id] # None
    <3>1. rows[id].path \in Path
      BY <1>2, <2>2 DEF Row
    <3>2. /\ Readable[id] = IF OnDisk(rows[id]) THEN files[rows[id].path] ELSE rows[id].inline
          /\ Readable'[id] = IF OnDisk(rows[id]) THEN files'[rows[id].path] ELSE rows[id].inline
      BY <1>1, <2>2 DEF Readable, Answer, OnDisk
    <3> QED
      BY <1>1, <2>2, <3>1, <3>2
  <2> QED
    BY <2>1, <2>2
<1>6. ids \subseteq Ids
  OBVIOUS
<1> HIDE DEF ids
<1>7. Readable' = [id \in Ids |-> IF id \in ids THEN None ELSE Readable[id]]
  BY <1>5 DEF Readable
<1>8. ids \in SUBSET {id \in Ids : /\ Given[id] # None /\ Given[id].execution = e
                                   /\ Given[id].content \in Large}
  BY <1>4, <1>6
<1> QED
  BY <1>3, <1>7, <1>8 DEF Promise!CleanUp

LEMMA PromiseStep ==
  ASSUME ~Reuse, CallsInv, BackedInv, ContentInv, [Next]_vars
  PROVE  Promise!Next \/ UNCHANGED <<Given, Pending, Readable>>
<1>0. /\ call \in [Clients -> Call] /\ \A p \in Path : p.execution \in Executions
      /\ Idle.step = "idle"
      /\ \A c \in Clients : call[c].step # "idle" => call[c].id \in Ids
  BY DEF CallsInv, TypeOK, CallInv, Path, Idle
<1>1. ASSUME NEW c \in Clients, NEW id \in Ids, NEW p \in Path, NEW content \in Contents,
             Store(c, id, p, content)
      PROVE  Promise!Next
  BY <1>0, <1>1, StoreAccepts DEF Promise!Next
<1>2. ASSUME NEW c \in Clients, NEW id \in Ids,
             SelectRow(c, id, "get") \/ SelectRow(c, id, "download") \/ GetStorageInfo(c, id)
      PROVE  UNCHANGED <<Given, Pending, Readable>>
  <2>1. /\ UNCHANGED <<rows, files, origin>> /\ call[c].step # "insert"
        /\ call'[c].step # "insert" /\ \A d \in Clients \ {c} : call'[d] = call[d]
    BY <1>0, <1>2 DEF GetStorageInfo, SelectRow, Proceed, aux
  <2> QED
    BY <2>1, PendingSame, GivenSame, ReadableStays, ReadableSame
<1>3. ASSUME NEW c \in Clients, InsertRow(c)
      PROVE  Promise!Next
  <2>1. call[c].id \in Ids
    BY <1>0, <1>3 DEF InsertRow, aux
  <2> QED
    BY <1>3, <2>1, InsertPublishes DEF Promise!Next
<1>4. ASSUME NEW c \in Clients, InsertFails(c)
      PROVE  Promise!Next
  <2>1. /\ call[c].step = "insert" /\ Return(c) /\ UNCHANGED <<rows, files, origin>>
        /\ call[c].id \in Ids
    BY <1>0, <1>4 DEF InsertFails
  <2>2. Promise!Drop({call[c].id})
    BY <2>1, PendingEnds, GivenSame, ReadableStays, ReadableSame DEF Promise!Drop
  <2> QED
    BY <2>1, <2>2 DEF Promise!Next
<1>5. ASSUME NEW c \in Clients, ReadContent(c)
      PROVE  UNCHANGED <<Given, Pending, Readable>>
  <2>1. /\ UNCHANGED <<rows, files, origin>> /\ call[c].step # "insert"
        /\ call'[c].step # "insert" /\ \A d \in Clients \ {c} : call'[d] = call[d]
    BY <1>0, <1>5 DEF ReadContent, Return, aux
  <2> QED
    BY <2>1, PendingSame, GivenSame, ReadableStays, ReadableSame
<1>6. ASSUME NEW c \in Clients, DeleteRow(c)
      PROVE  Promise!Next
  <2>1. call[c].id \in Ids
    BY <1>0, <1>6 DEF DeleteRow, aux
  <2> QED
    BY <1>6, <2>1, DeleteDeletes DEF Promise!Next
<1>7. ASSUME NEW c \in Clients, RemoveFile(c)
      PROVE  UNCHANGED <<Given, Pending, Readable>>
  BY <1>7, RemoveStutters
<1>8. ASSUME NEW e \in Executions, NEW gone, CleanupForExecution(e, gone)
      PROVE  Promise!Next
  BY <1>8, CleanupCleans DEF Promise!Next
<1>9. ASSUME NEW c \in Clients, RemoveFails(c)
      PROVE  UNCHANGED <<Given, Pending, Readable>>
  BY <1>9, RemoveFailsStutters
<1>10. ASSUME NEW c \in Clients, NEW p \in Path, NEW content \in Contents,
              StoreFails(c, p, content)
       PROVE  UNCHANGED <<Given, Pending, Readable>>
  BY <1>10, StoreFailsStutters
<1>11. CASE Crash
  <2>1. UNCHANGED <<rows, files, origin>> /\ \A c \in Clients : call'[c].step # "insert"
    BY <1>0, <1>11 DEF Crash
  <2>2. Pending' = Pending \ Pending /\ Pending \in SUBSET Ids
    <3>1. Pending' = {}
      BY <2>1 DEF Pending
    <3>2. Pending \subseteq Ids
      BY <1>0 DEF Pending
    <3> QED
      BY <3>1, <3>2
  <2>3. Promise!Drop(Pending)
    BY <2>1, <2>2, GivenSame, ReadableStays, ReadableSame DEF Promise!Drop
  <2> QED
    BY <2>2, <2>3 DEF Promise!Next
<1>12. CASE UNCHANGED vars
  <2>1. UNCHANGED <<rows, files, call, origin>>
    BY <1>12 DEF vars, aux
  <2> QED
    BY <2>1, PendingSame, GivenSame, ReadableStays, ReadableSame
<1> QED
  BY <1>1, <1>2, <1>3, <1>4, <1>5, <1>6, <1>7, <1>8, <1>9, <1>10, <1>11, <1>12 DEF Next

\* If a stage uses no name twice, the calls with all their steps, failures and crashes
\* implement a store that keeps each artifact as it came (artifact_handler.rs,
\* artifact_service.rs, delete_artifact).
THEOREM ArtifactsImplementStore ==
  ASSUME ~Reuse
  PROVE  Spec => ImplementsStore
<1>1. Init => ContentInv /\ Promise!Init
  <2> SUFFICES ASSUME Init PROVE ContentInv /\ Promise!Init
    OBVIOUS
  <2>1. /\ \A id \in Ids : rows[id] = None /\ origin[id] = None
        /\ \A p \in Path : files[p] = None
        /\ \A c \in Clients : call[c].step # "insert"
    BY DEF Init, Idle
  <2>2. ContentInv
    BY <2>1 DEF ContentInv
  <2>3. Promise!Init
    BY <2>1 DEF Promise!Init, Given, Pending, Readable
  <2> QED
    BY <2>2, <2>3
<1>2. CallsInv /\ ContentInv /\ [Next]_vars => ContentInv'
  BY ContentStep
<1>3. CallsInv /\ BackedInv /\ ContentInv /\ [Next]_vars
        => [Promise!Next]_<<Given, Pending, Readable>>
  BY PromiseStep
<1>4. Promise!store = <<Given, Pending, Readable>>
  BY DEF Promise!store
<1> QED
  BY <1>1, <1>2, <1>3, <1>4, BackedInvariant, PTL DEF Spec, ImplementsStore, Promise!Spec, Promise!store
===============================================================================
