----------------------------- MODULE ArtifactStore -----------------------------
(***************************************************************************)
(* What the artifact calls promise together.  An artifact comes with its   *)
(* content once.  It becomes readable with that content or is dropped, and *)
(* stays readable until it is deleted or, if it is large, its execution is *)
(* cleaned up; then it is gone for good.  A call on one artifact changes   *)
(* what is read of no other.                                               *)
(***************************************************************************)
CONSTANTS Ids, Executions, Contents, Large, None

VARIABLES
  given,    (* the execution and the content each artifact came with *)
  pending,  (* the artifacts that may still become readable          *)
  readable  (* what is read of each                                  *)

store == <<given, pending, readable>>

Init ==
  /\ given = [id \in Ids |-> None]
  /\ pending = {}
  /\ readable = [id \in Ids |-> None]

Accept(id, e, content) ==
  /\ given[id] = None
  /\ given' = [given EXCEPT ![id] = [execution |-> e, content |-> content]]
  /\ pending' = pending \cup {id}
  /\ UNCHANGED readable

Publish(id) ==
  /\ id \in pending
  /\ pending' = pending \ {id}
  /\ readable' = [readable EXCEPT ![id] = given[id].content]
  /\ UNCHANGED given

Drop(ids) ==
  /\ pending' = pending \ ids
  /\ UNCHANGED <<given, readable>>

Delete(id) ==
  /\ readable' = [readable EXCEPT ![id] = None]
  /\ UNCHANGED <<given, pending>>

CleanUp(e) ==
  /\ \E ids \in SUBSET {id \in Ids : /\ given[id] # None /\ given[id].execution = e
                                   /\ given[id].content \in Large} :
       readable' = [id \in Ids |-> IF id \in ids THEN None ELSE readable[id]]
  /\ UNCHANGED <<given, pending>>

Next ==
  \/ \E id \in Ids :
       \/ \E e \in Executions, content \in Contents : Accept(id, e, content)
       \/ Publish(id) \/ Delete(id)
  \/ \E ids \in SUBSET Ids : Drop(ids)
  \/ \E e \in Executions : CleanUp(e)

Spec == Init /\ [][Next]_store
===============================================================================
