-------------------------------- MODULE Files --------------------------------
(***************************************************************************)
(* The row of one project and its files (src/controller/files.go and       *)
(* projects.go over src/storage/sql.go), under the mutations of the        *)
(* resolver.                                                               *)
(*                                                                         *)
(* A mutation is a sequence of database statements, each atomic, with no   *)
(* transaction around them: it reads the project to authorise, changes     *)
(* something, and then updates the row of the project so that its          *)
(* updated_at is later than the change.                                    *)
(***************************************************************************)
EXTENDS Integers, FiniteSets

CONSTANTS
  Procs,      \* requests that may be in progress at once
  Types,      \* types of file
  Templates,  \* Templates[t]: files of type t the project is created with
  Titles,     \* titles of the project
  MaxFiles,   \* bound on the number of files inserted
  Faults      \* what may fail: subset of {"query", "run"}

ASSUME FilesAssumption ==
  /\ IsFiniteSet(Types)
  /\ Templates \in [Types -> Nat]
  /\ Titles # {}
  /\ MaxFiles \in Nat

VARIABLES
  exists,    \* the project has a row
  title,     \* the title in it
  files,     \* rows of files, with the order they were inserted in
  inserted,  \* number of files inserted so far
  deleted,   \* files of each type deleted so far
  pc,        \* next step of each request
  op,        \* its operation
  type,      \* type of the file it creates
  index,     \* the index it counted for the file
  after,     \* number of files inserted when it counted
  file,      \* the file it created, updates or deletes
  text,      \* the title it sets, or has read
  answer,    \* what the request was answered
  stale,     \* requests that changed the project since its updated_at was moved
  restored,  \* requests that were in progress when a deleted project was inserted again
  acked,     \* files whose creation was answered with success
  written,   \* the title a user set last
  overtaken  \* an execution had read the row before that title was set

row    == <<exists, title>>
table  == <<files, inserted, deleted>>
asked  == <<op, type>>
ghosts == <<stale, restored, acked, written, overtaken>>
vars   == <<row, table, pc, asked, index, after, file, text, answer, ghosts>>

FileOps == {"updateFile", "deleteFile"}
RunOps  == {"createTransactionExecution", "createScriptExecution", "createContractDeployment"}

Operations ==
  FileOps \cup RunOps \cup {"createFile", "updateProject", "deleteProject", "none"}

Steps == {"idle", "access", "authorize", "count", "insert", "change", "reread", "run", "find",
          "save", "get", "delete", "update", "read"}

NoType  == "no type"
NoTitle == "no title"

FileRow == [id : Nat, type : Types, index : Nat, after : Nat]
NoFile  == [id |-> 0, type |-> NoType, index |-> 0, after |-> 0]

TypeOK ==
  /\ exists \in BOOLEAN
  /\ title \in Titles
  /\ files \subseteq FileRow
  /\ inserted \in 0..MaxFiles
  /\ deleted \in [Types -> Nat]
  /\ pc \in [Procs -> Steps]
  /\ op \in [Procs -> Operations]
  /\ type \in [Procs -> Types \cup {NoType}]
  /\ index \in [Procs -> Nat]
  /\ after \in [Procs -> Nat]
  /\ file \in [Procs -> FileRow \cup {NoFile}]
  /\ text \in [Procs -> Titles \cup {NoTitle}]
  /\ answer \in [Procs -> {"none", "ok", "error"}]
  /\ stale \subseteq Procs
  /\ restored \subseteq Procs
  /\ acked \subseteq Nat
  /\ written \in Titles
  /\ overtaken \in BOOLEAN

\* A project has just been created, with the files of its templates: each has its position.
Init ==
  /\ exists = TRUE
  /\ title \in Titles
  /\ files = UNION {{[id |-> 0, type |-> t, index |-> i, after |-> 0] : i \in 0..Templates[t] - 1} :
                      t \in Types}
  /\ inserted = 0
  /\ deleted = [t \in Types |-> 0]
  /\ pc = [p \in Procs |-> "idle"]
  /\ op = [p \in Procs |-> "none"]
  /\ type = [p \in Procs |-> NoType]
  /\ index = [p \in Procs |-> 0]
  /\ after = [p \in Procs |-> 0]
  /\ file = [p \in Procs |-> NoFile]
  /\ text = [p \in Procs |-> NoTitle]
  /\ answer = [p \in Procs |-> "none"]
  /\ stale = {}
  /\ restored = {}
  /\ acked = {}
  /\ written = title
  /\ overtaken = FALSE

OfType(t) == {f \in files : f.type = t}

Goto(p, step) == pc' = [pc EXCEPT ![p] = step]

May(fault) == fault \in Faults

\* The request is over, and its answer known.
Answer(p, a) ==
  /\ pc' = [pc EXCEPT ![p] = "idle"]
  /\ op' = [op EXCEPT ![p] = "none"]
  /\ type' = [type EXCEPT ![p] = NoType]
  /\ index' = [index EXCEPT ![p] = 0]
  /\ after' = [after EXCEPT ![p] = 0]
  /\ file' = [file EXCEPT ![p] = NoFile]
  /\ text' = [text EXCEPT ![p] = NoTitle]
  /\ answer' = [answer EXCEPT ![p] = a]

Fail(p) ==
  /\ Answer(p, "error")
  /\ UNCHANGED <<row, table, ghosts>>

\* Writing the row of the project moves its updated_at past every change so far; there may be no row.
Touch == stale' = IF exists THEN {} ELSE stale

-----------------------------------------------------------------------------
(* Authorisation *)

Request(p) ==
  /\ pc[p] = "idle"
  /\ \/ /\ \E t \in Types : type' = [type EXCEPT ![p] = t]
        /\ op' = [op EXCEPT ![p] = "createFile"]
        /\ UNCHANGED <<file, text>>
     \/ /\ \E f \in files : file' = [file EXCEPT ![p] = f]
        /\ \E o \in FileOps : op' = [op EXCEPT ![p] = o]
        /\ UNCHANGED <<type, text>>
     \/ /\ \E t \in Titles : text' = [text EXCEPT ![p] = t]
        /\ op' = [op EXCEPT ![p] = "updateProject"]
        /\ UNCHANGED <<type, file>>
     \/ /\ \E o \in RunOps \cup {"deleteProject"} : op' = [op EXCEPT ![p] = o]
        /\ UNCHANGED <<type, file, text>>
  /\ Goto(p, "access")
  /\ answer' = [answer EXCEPT ![p] = "none"]
  /\ stale' = stale \ {p}
  /\ restored' = restored \ {p}
  /\ UNCHANGED <<row, table, index, after, acked, written, overtaken>>

\* Reading a project sets its accessed_at, and gorm its updated_at with it.
ProjectAccessed(p) ==
  /\ pc[p] = "access"
  /\ \/ Goto(p, "authorize") /\ Touch
        /\ UNCHANGED <<row, table, asked, index, after, file, text, answer>>
        /\ UNCHANGED <<restored, acked, written, overtaken>>
     \/ May("query") /\ Fail(p)

FirstStep(o) ==
  CASE o = "createFile" -> "count"
    [] o \in FileOps -> "change"
    [] o \in RunOps -> "run"
    [] o = "updateProject" -> "update"
    [] OTHER -> "get"

Authorize(p) ==
  /\ pc[p] = "authorize"
  /\ \/ exists /\ Goto(p, FirstStep(op[p]))
        /\ UNCHANGED <<row, table, asked, index, after, file, text, answer, ghosts>>
     \/ (~exists \/ May("query")) /\ Fail(p)

-----------------------------------------------------------------------------
(* Files *)

\* The index of a new file is the number of files of its type.
CountFiles(p) ==
  /\ pc[p] = "count"
  /\ \/ /\ index' = [index EXCEPT ![p] = Cardinality(OfType(type[p]))]
        /\ after' = [after EXCEPT ![p] = inserted]
        /\ Goto(p, "insert")
        /\ UNCHANGED <<row, table, asked, file, text, answer, ghosts>>
     \/ May("query") /\ Fail(p)

\* Mutant of InsertFile: the index is not set.
InsertFileAtZero(p) ==
  /\ pc[p] = "insert"
  /\ inserted < MaxFiles
  /\ inserted' = inserted + 1
  /\ file' = [file EXCEPT ![p] = [id |-> inserted', type |-> type[p], index |-> 0, after |-> after[p]]]
  /\ files' = files \cup {file'[p]}
  /\ stale' = stale \cup {p}
  /\ Goto(p, "update")
  /\ UNCHANGED <<row, deleted, asked, index, after, text, answer, restored, acked, written, overtaken>>

\* The file is inserted, whether its project is still there or not.
InsertFile(p) ==
  /\ pc[p] = "insert"
  /\ \/ /\ inserted < MaxFiles
        /\ inserted' = inserted + 1
        /\ file' = [file EXCEPT ![p] =
                      [id |-> inserted', type |-> type[p], index |-> index[p], after |-> after[p]]]
        /\ files' = files \cup {file'[p]}
        /\ stale' = stale \cup {p}
        /\ Goto(p, "update")
        /\ UNCHANGED <<row, deleted, asked, index, after, text, answer, restored, acked, written, overtaken>>
     \/ (May("query") \/ inserted = MaxFiles) /\ Fail(p)

\* The script and title of the file are replaced; that its row is gone is no error.
UpdateFile(p) ==
  /\ pc[p] = "change" /\ op[p] = "updateFile"
  /\ \/ /\ stale' = IF file[p] \in files THEN stale \cup {p} ELSE stale
        /\ Goto(p, "reread")
        /\ UNCHANGED <<row, table, asked, index, after, file, text, answer>>
        /\ UNCHANGED <<restored, acked, written, overtaken>>
     \/ May("query") /\ Fail(p)

\* The row is read back, and one that is gone is not found.
ReadFile(p) ==
  /\ pc[p] = "reread"
  /\ \/ /\ file[p] \in files
        /\ Goto(p, "update")
        /\ UNCHANGED <<row, table, asked, index, after, file, text, answer, ghosts>>
     \/ (file[p] \notin files \/ May("query")) /\ Fail(p)

\* Deleting the rows of a set of files.
Remove(gone) ==
  /\ files' = files \ gone
  /\ deleted' = [t \in Types |-> deleted[t] + Cardinality(OfType(t) \cap gone)]
  /\ UNCHANGED inserted

\* Mutant of DeleteFile: the project is not updated afterwards.
DeleteFileOnly(p) ==
  /\ pc[p] = "change" /\ op[p] = "deleteFile"
  /\ Remove({file[p]})
  /\ stale' = stale \cup {p}
  /\ Answer(p, "ok")
  /\ UNCHANGED <<row, restored, acked, written, overtaken>>

\* Deleting a file that is gone is no error.
DeleteFile(p) ==
  /\ pc[p] = "change" /\ op[p] = "deleteFile"
  /\ \/ /\ Remove({file[p]})
        /\ stale' = IF file[p] \in files THEN stale \cup {p} ELSE stale
        /\ Goto(p, "update")
        /\ UNCHANGED <<row, asked, index, after, file, text, answer, restored, acked, written, overtaken>>
     \/ May("query") /\ Fail(p)

-----------------------------------------------------------------------------
(* The row of the project *)

\* Mutant of UpdateRow: an update without a title writes an empty one.
UpdateRowWhole(p) ==
  /\ pc[p] = "update"
  /\ title' = IF exists THEN text[p] ELSE title
  /\ written' = IF exists /\ op[p] = "updateProject" THEN text[p] ELSE written
  /\ overtaken' = IF exists /\ op[p] = "updateProject" THEN \E q \in Procs : pc[q] = "save" ELSE overtaken
  /\ Touch
  /\ Goto(p, "read")
  /\ UNCHANGED <<exists, table, asked, index, after, file, text, answer, restored, acked>>

\* UpdateProject, and fileChanged after every change, which passes nothing but the project's ID:
\* only the title that was given is written.
UpdateRow(p) ==
  LET sets == exists /\ op[p] = "updateProject" IN
  /\ pc[p] = "update"
  /\ \/ /\ title' = IF sets THEN text[p] ELSE title
        /\ written' = IF sets THEN text[p] ELSE written
        /\ overtaken' = IF sets THEN \E q \in Procs : pc[q] = "save" ELSE overtaken
        /\ Touch
        /\ Goto(p, "read")
        /\ UNCHANGED <<exists, table, asked, index, after, file, text, answer, restored, acked>>
     \/ May("query") /\ Fail(p)

\* Mutant of ReadBack: a row that is gone is no error.
ReadBackAnything(p) ==
  /\ pc[p] = "read"
  /\ Answer(p, "ok")
  /\ acked' = IF op[p] = "createFile" THEN acked \cup {file[p].id} ELSE acked
  /\ UNCHANGED <<row, table, stale, restored, written, overtaken>>

\* The row is read back, and with that the request is answered.
ReadBack(p) ==
  /\ pc[p] = "read"
  /\ \/ /\ exists
        /\ Answer(p, "ok")
        /\ acked' = IF op[p] = "createFile" THEN acked \cup {file[p].id} ELSE acked
        /\ UNCHANGED <<row, table, stale, restored, written, overtaken>>
     \/ (~exists \/ May("query")) /\ Fail(p)

\* Delete reads the project before it deletes it.
GetProject(p) ==
  /\ pc[p] = "get"
  /\ \/ exists /\ Goto(p, "delete")
        /\ UNCHANGED <<row, table, asked, index, after, file, text, answer, ghosts>>
     \/ (~exists \/ May("query")) /\ Fail(p)

\* The project is deleted with its files, in one database transaction.
DeleteProject(p) ==
  /\ pc[p] = "delete"
  /\ \/ /\ exists' = FALSE
        /\ Remove(files)
        /\ Answer(p, "ok")
        /\ UNCHANGED <<title, ghosts>>
     \/ May("query") /\ Fail(p)

\* A script is executed or a contract deployed: module Projects has the rows that this adds.
Run(p) ==
  /\ pc[p] = "run"
  /\ \/ /\ IF op[p] = "createTransactionExecution"
             THEN Goto(p, "find") /\ UNCHANGED stale
             ELSE Goto(p, "update") /\ stale' = stale \cup {p}
        /\ UNCHANGED <<row, table, asked, index, after, file, text, answer>>
        /\ UNCHANGED <<restored, acked, written, overtaken>>
     \/ May("run") /\ Fail(p)

\* InsertTransactionExecution reads the row of the project, outside the transaction that follows.
FindProject(p) ==
  /\ pc[p] = "find"
  /\ \/ /\ exists
        /\ text' = [text EXCEPT ![p] = title]
        /\ Goto(p, "save")
        /\ UNCHANGED <<row, table, asked, index, after, file, answer, ghosts>>
     \/ (~exists \/ May("query")) /\ Fail(p)

\* It saves the row it read, whole, with the new count of executions.  A project deleted since is
\* inserted again, with the updated_at that was read.
SaveProject(p) ==
  /\ pc[p] = "save"
  /\ \/ /\ exists' = TRUE
        /\ title' = text[p]
        /\ IF exists
             THEN stale' = {p} /\ UNCHANGED restored
             ELSE stale' = stale \cup {p} /\ restored' = restored \cup {q \in Procs : pc[q] # "idle"}
        /\ Goto(p, "update")
        /\ UNCHANGED <<table, asked, index, after, file, text, answer, acked, written, overtaken>>
     \/ May("query") /\ Fail(p)

-----------------------------------------------------------------------------
Next ==
  \E p \in Procs :
    \/ Request(p) \/ ProjectAccessed(p) \/ Authorize(p)
    \/ CountFiles(p) \/ InsertFile(p) \/ UpdateFile(p) \/ ReadFile(p) \/ DeleteFile(p)
    \/ UpdateRow(p) \/ ReadBack(p)
    \/ GetProject(p) \/ DeleteProject(p)
    \/ Run(p) \/ FindProject(p) \/ SaveProject(p)

Spec == Init /\ [][Next]_vars

-----------------------------------------------------------------------------
(* Properties *)

\* Files are listed by index, and the index of a new one is the number of files of its type
\* (src/storage/sql.go:352).  A file counted for when another was there comes after it in the
\* list, or as many places earlier as files of the type were deleted; requests that count at the
\* same time may share an index.
NewFilesAfterOld ==
  \A f, g \in files :
    g.type = f.type /\ g.id > 0 /\ f # g /\ f.id <= g.after => g.index > f.index - deleted[f.type]

\* A file that was created with success goes with its project: what is left of a deleted project
\* is only the files of requests that were answered with an error (src/controller/files.go:74).
OrphansFailed == ~exists => \A f \in files : f.id # 0 /\ f.id \notin acked

\* A request is answered with success only after the updated_at of the project has moved past
\* its change (src/controller/files.go:96), whatever else writes or deletes the row, unless an
\* execution inserted the deleted project again in the meantime, with an updated_at read before.
TouchedBeforeSuccess == \A p \in Procs : answer[p] = "ok" => p \notin stale \/ p \in restored

\* The title is the one a user set last, unless a transaction execution had read the row before
\* it was set and saves it after (src/storage/sql.go:455).
TitleKept == exists => title = written \/ overtaken
=============================================================================
