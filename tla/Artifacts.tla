------------------------------- MODULE Artifacts -------------------------------
(***************************************************************************)
(* The artifacts of executions: a row per artifact and, for contents of    *)
(* 1 MB and more, a file at <execution>/<stage>/<name>.  The handlers      *)
(* write and remove the two in separate steps, which interleave, may fail  *)
(* (a file that is only partly written, a directory only partly removed)   *)
(* and may be cut off by the end of the process.                           *)
(*                                                                         *)
(* call[c] is the handler serving client c: the step it takes next, the    *)
(* artifact, and the row it is about to insert or has read.                *)
(*                                                                         *)
(* Abstracted: stage and name are one Name; writing a file and removing a  *)
(* directory are single steps, with the outcomes they may have; ARNs       *)
(* (timestamps) do not repeat.  A failed SELECT or DELETE ends the call    *)
(* and changes nothing else; it is left out.                               *)
(***************************************************************************)
EXTENDS Naturals

CONSTANTS
  Clients,
  Ids,         (* the artifact ARNs                                       *)
  Executions,
  Name,
  Contents,
  Large,       (* the contents of at least SIZE_THRESHOLD                 *)
  Torn,        (* a file of which only a part is written                  *)
  Reuse,       (* TRUE: a stage may produce an artifact of a name again   *)
  None

Path == [execution : Executions, name : Name]

Row == [path : Path, inline : Contents \cup {None}]

Origin == [path : Path, content : Contents]

ASSUME ArtifactsAssumption ==
  /\ Large \subseteq Contents
  /\ Reuse \in BOOLEAN
  /\ Torn \notin Contents \cup {None}
  /\ None \notin Contents \cup Row \cup Ids \cup Origin
  /\ None \notin [execution : Executions, content : Contents]

VARIABLES
  rows,      (* the table                                                *)
  files,     (* the directory tree                                       *)
  call,      (* the calls in progress                                    *)
  origin,    (* auxiliary: the path and content each artifact came with  *)
  lost,      (* auxiliary: paths whose create failed, or a call cut off  *)
  leaked,    (* auxiliary: paths whose removal failed                    *)
  cleaned    (* auxiliary: paths the abort route removed                 *)

aux == <<origin, lost, leaked, cleaned>>
vars == <<rows, files, call, aux>>

Idle == [step |-> "idle", id |-> None, row |-> None]

Call == [step : {"idle", "insert", "get", "download", "delete", "remove"},
         id : Ids \cup {None}, row : Row \cup {None}]

TypeOK ==
  /\ rows \in [Ids -> Row \cup {None}]
  /\ files \in [Path -> Contents \cup {Torn, None}]
  /\ call \in [Clients -> Call]
  /\ origin \in [Ids -> Origin \cup {None}]
  /\ {lost, leaked, cleaned} \subseteq SUBSET Path

Init ==
  /\ rows = [id \in Ids |-> None]
  /\ files = [p \in Path |-> None]
  /\ call = [c \in Clients |-> Idle]
  /\ origin = [id \in Ids |-> None]
  /\ lost = {} /\ leaked = {} /\ cleaned = {}

Proceed(c, step, id, row) ==
  call' = [call EXCEPT ![c] = [step |-> step, id |-> id, row |-> row]]

Return(c) == call' = [call EXCEPT ![c] = Idle]

-------------------------------------------------------------------------------
\* artifact_create.

OnDisk(row) == row.inline = None

\* The files that the calls of C are at work on.
OwnedBy(C) ==
  {call[c].row.path : c \in {d \in C : /\ call[d].step \in {"insert", "remove"}
                                       /\ OnDisk(call[d].row)}}

\* Whether a stage may produce an artifact at the path.
Free(path) == Reuse \/ \A i \in Ids : origin[i] # None => origin[i].path # path

\* ArtifactService::store.
Store(c, id, path, content) ==
  /\ call[c] = Idle /\ origin[id] = None /\ Free(path)
  /\ files' = IF content \in Large THEN [files EXCEPT ![path] = content] ELSE files
  /\ Proceed(c, "insert", id,
             [path |-> path, inline |-> IF content \in Large THEN None ELSE content])
  /\ origin' = [origin EXCEPT ![id] = [path |-> path, content |-> content]]
  /\ UNCHANGED <<rows, lost, leaked, cleaned>>

\* fs::write fails on the way: the call returns an error, and part of a file stays.
StoreFails(c, path, content) ==
  /\ call[c] = Idle /\ content \in Large /\ Free(path)
  /\ files' = [files EXCEPT ![path] = Torn]
  /\ lost' = lost \cup {path}
  /\ UNCHANGED <<rows, call, origin, leaked, cleaned>>

\* Mutant of InsertRow: the ARN goes into the location column.
InsertRowSwapped(c) ==
  /\ call[c].step = "insert"
  /\ rows' = [rows EXCEPT ![call[c].id] = [call[c].row EXCEPT !.inline = call[c].id]]
  /\ Return(c)
  /\ UNCHANGED <<files, aux>>

InsertRow(c) ==
  /\ call[c].step = "insert"
  /\ rows' = [rows EXCEPT ![call[c].id] = call[c].row]
  /\ Return(c)
  /\ UNCHANGED <<files, aux>>

\* The INSERT fails: the call returns an error, and what store wrote stays.
InsertFails(c) ==
  /\ call[c].step = "insert"
  /\ lost' = lost \cup OwnedBy({c})
  /\ Return(c)
  /\ UNCHANGED <<rows, files, origin, leaked, cleaned>>

-------------------------------------------------------------------------------
\* artifact_get and download_artifact: the row, then its content.

SelectRow(c, id, step) ==
  /\ call[c] = Idle /\ rows[id] # None
  /\ Proceed(c, step, id, rows[id])
  /\ UNCHANGED <<rows, files, aux>>

ReadContent(c) ==
  /\ call[c].step \in {"get", "download"}
  /\ Return(c)
  /\ UNCHANGED <<rows, files, aux>>

\* Mutant of Answer: artifact_get does not decode what is stored inline.
AnswerUndecoded(step, row) ==
  IF OnDisk(row) THEN files[row.path] ELSE [json |-> row.inline]

\* What artifact_get returns, None for an error; and what download_artifact
\* sends, None for an empty body.  A download of an inline artifact is the
\* stored JSON text of its bytes.
Answer(step, row) ==
  IF OnDisk(row) THEN files[row.path]
  ELSE IF step = "get" THEN row.inline ELSE [json |-> row.inline]

-------------------------------------------------------------------------------
\* delete_artifact.

\* Mutant of GetStorageInfo: the file is removed before the row.
RemoveFileFirst(c, id) ==
  /\ call[c] = Idle /\ rows[id] # None
  /\ Proceed(c, "delete", id, rows[id])
  /\ files' = IF OnDisk(rows[id]) THEN [files EXCEPT ![rows[id].path] = None] ELSE files
  /\ UNCHANGED <<rows, aux>>

GetStorageInfo(c, id) == SelectRow(c, id, "delete")

\* Mutant of DeleteRow: nothing is left to do after the row.
DeleteRowOnly(c) ==
  /\ call[c].step = "delete"
  /\ rows' = [rows EXCEPT ![call[c].id] = None]
  /\ Return(c)
  /\ UNCHANGED <<files, aux>>

\* Mutant of DeleteRow: the rows of the execution go.
DeleteRowsOfExecution(c) ==
  /\ call[c].step = "delete"
  /\ rows' = [id \in Ids |->
                IF rows[id] # None /\ rows[id].path.execution = call[c].row.path.execution
                THEN None ELSE rows[id]]
  /\ IF rows[call[c].id] # None /\ OnDisk(call[c].row)
     THEN Proceed(c, "remove", call[c].id, call[c].row)
     ELSE Return(c)
  /\ UNCHANGED <<files, aux>>

\* Someone else may have deleted it meanwhile.
DeleteRow(c) ==
  /\ call[c].step = "delete"
  /\ rows' = [rows EXCEPT ![call[c].id] = None]
  /\ IF rows[call[c].id] # None /\ OnDisk(call[c].row)
     THEN Proceed(c, "remove", call[c].id, call[c].row)
     ELSE Return(c)
  /\ UNCHANGED <<files, aux>>

RemoveFile(c) ==
  /\ call[c].step = "remove"
  /\ files' = [files EXCEPT ![call[c].row.path] = None]
  /\ Return(c)
  /\ UNCHANGED <<rows, aux>>

\* The error of remove_file is dropped: the call succeeds, and the file stays.
RemoveFails(c) ==
  /\ call[c].step = "remove" /\ files[call[c].row.path] # None
  /\ leaked' = leaked \cup {call[c].row.path}
  /\ Return(c)
  /\ UNCHANGED <<rows, files, origin, lost, cleaned>>

-------------------------------------------------------------------------------
\* The files of an execution.
Tree(e) == {p \in Path : p.execution = e /\ files[p] # None}

\* cleanup_for_execution, which the abort route calls; the rows stay.  It may stop
\* on the way: the route prints the error and goes on.
CleanupForExecution(e, gone) ==
  /\ gone \subseteq Tree(e)
  /\ files' = [p \in Path |-> IF p \in gone THEN None ELSE files[p]]
  /\ cleaned' = cleaned \cup gone
  /\ UNCHANGED <<rows, call, origin, lost, leaked>>

\* The process ends; the database and the files stay.
Crash ==
  /\ \E c \in Clients : call[c] # Idle
  /\ call' = [c \in Clients |-> Idle]
  /\ lost' = lost \cup OwnedBy(Clients)
  /\ UNCHANGED <<rows, files, origin, leaked, cleaned>>

Next ==
  \/ \E c \in Clients, id \in Ids :
       \/ \E p \in Path, content \in Contents : Store(c, id, p, content)
       \/ SelectRow(c, id, "get")
       \/ SelectRow(c, id, "download")
       \/ GetStorageInfo(c, id)
  \/ \E c \in Clients :
       \/ InsertRow(c) \/ InsertFails(c)
       \/ ReadContent(c)
       \/ DeleteRow(c) \/ RemoveFile(c) \/ RemoveFails(c)
       \/ \E p \in Path, content \in Contents : StoreFails(c, p, content)
  \/ \E e \in Executions : \E gone \in SUBSET Tree(e) : CleanupForExecution(e, gone)
  \/ Crash

Spec == Init /\ [][Next]_vars

-------------------------------------------------------------------------------
\* Safety.

\* A row that says its content is on disk has its file, after any failure and
\* crash too, unless the abort route removed it: create writes the file before
\* the row, and delete removes the row before the file.
RowsBacked ==
  \A id \in Ids :
    rows[id] # None /\ OnDisk(rows[id]) /\ files[rows[id].path] = None
      => rows[id].path \in cleaned

\* A file belongs to a row or to a call that is still at work on it.  Otherwise a
\* failed create or the end of the process has left it behind, or a delete that could
\* not remove it: nothing else leaks files.
FilesOwned ==
  \A p \in Path : files[p] # None =>
    \/ \E id \in Ids : rows[id] # None /\ OnDisk(rows[id]) /\ rows[id].path = p
    \/ p \in OwnedBy(Clients) \cup lost \cup leaked

-------------------------------------------------------------------------------
\* Action properties.

\* Whoever found the row of an artifact gets the content it was created with,
\* unless it was deleted or its execution cleaned up meanwhile (GAP-006: "Then
\* the result contains the actual artifact content").  The download of an inline
\* artifact is not meant: it is an encoding of the content.
ReadsOwnContent ==
  [][\A c \in Clients :
       ReadContent(c) /\ (OnDisk(call[c].row) \/ call[c].step = "get") =>
         \/ Answer(call[c].step, call[c].row) = origin[call[c].id].content
         \/ rows[call[c].id] = None
         \/ call[c].row.path \in cleaned]_vars

-------------------------------------------------------------------------------
\* The store that the calls implement while no stage uses a name twice.

Given ==
  [id \in Ids |-> IF origin[id] = None THEN None
                 ELSE [execution |-> origin[id].path.execution, content |-> origin[id].content]]

Pending == {call[c].id : c \in {d \in Clients : call[d].step = "insert"}}

\* What artifact_get answers in this state.
Readable == [id \in Ids |-> IF rows[id] = None THEN None ELSE Answer("get", rows[id])]

Promise == INSTANCE ArtifactStore WITH
             given <- Given, pending <- Pending, readable <- Readable

\* The steps of calls that interleave, fail and are cut off add up to what the store
\* promises: no artifact changes its content, takes that of another, disappears with
\* another or comes back (artifact_create, delete_artifact, cleanup_for_execution).
ImplementsStore == Promise!Spec
===============================================================================
