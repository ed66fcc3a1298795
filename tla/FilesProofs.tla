----------------------------- MODULE FilesProofs -----------------------------
(***************************************************************************)
(* The properties of Files for any number of requests, types of files,     *)
(* templates and titles, whatever fails.                                   *)
(***************************************************************************)
EXTENDS Files, FiniteSetTheorems, TLAPS

\* A request has what its next step needs.
AskedInv ==
  \A p \in Procs :
    /\ op[p] = "createFile" => type[p] \in Types
    /\ op[p] = "updateProject" => text[p] \in Titles
    /\ pc[p] \in {"count", "insert"} => op[p] = "createFile"
    /\ pc[p] = "save" => text[p] \in Titles

TypeInv == TypeOK /\ AskedInv

LEMMA TypeInit == Init => TypeInv
<1> SUFFICES ASSUME Init PROVE TypeInv
  OBVIOUS
<1> USE FilesAssumption
<1>1. files \subseteq FileRow
  <2>1. ASSUME NEW t \in Types, NEW i \in 0..Templates[t] - 1
        PROVE  [id |-> 0, type |-> t, index |-> i, after |-> 0] \in FileRow
    <3>1. Templates[t] \in Nat
      OBVIOUS
    <3> QED
      BY <3>1 DEF FileRow
  <2> QED
    BY <2>1 DEF Init
<1>2. /\ exists \in BOOLEAN /\ title \in Titles /\ inserted \in 0..MaxFiles
      /\ stale \subseteq Procs /\ restored \subseteq Procs /\ acked \subseteq Nat /\ written \in Titles /\ overtaken \in BOOLEAN
  <2>1. /\ exists = TRUE /\ title \in Titles /\ inserted = 0 /\ stale = {} /\ acked = {}
        /\ written = title /\ overtaken = FALSE /\ restored = {}
    BY DEF Init
  <2>2. exists \in BOOLEAN /\ overtaken \in BOOLEAN
    BY <2>1
  <2>3. inserted \in 0..MaxFiles
    BY <2>1
  <2> QED
    BY <2>1, <2>2, <2>3
<1>3. /\ deleted \in [Types -> Nat]
      /\ pc \in [Procs -> Steps]
      /\ op \in [Procs -> Operations]
      /\ type \in [Procs -> Types \cup {NoType}]
      /\ index \in [Procs -> Nat] /\ after \in [Procs -> Nat]
  BY DEF Init, Steps, Operations
<1>4. /\ file \in [Procs -> FileRow \cup {NoFile}]
      /\ text \in [Procs -> Titles \cup {NoTitle}]
      /\ answer \in [Procs -> {"none", "ok", "error"}]
  BY DEF Init
<1>5. TypeOK
  BY <1>1, <1>2, <1>3, <1>4 DEF TypeOK
<1> QED
  BY <1>5 DEF Init, TypeInv, AskedInv

\* A request that ends keeps the types of what requests remember.
LEMMA AnswerTypes ==
  ASSUME TypeInv, NEW p \in Procs, NEW a \in {"ok", "error"}, Answer(p, a)
  PROVE  /\ pc' \in [Procs -> Steps]
         /\ op' \in [Procs -> Operations]
         /\ type' \in [Procs -> Types \cup {NoType}]
         /\ index' \in [Procs -> Nat] /\ after' \in [Procs -> Nat]
         /\ file' \in [Procs -> FileRow \cup {NoFile}]
         /\ text' \in [Procs -> Titles \cup {NoTitle}]
         /\ answer' \in [Procs -> {"none", "ok", "error"}]
         /\ AskedInv'
<1> USE DEF TypeInv, TypeOK, Answer
<1>1. AskedInv'
  BY DEF AskedInv
<1> QED
  BY <1>1 DEF Steps, Operations

LEMMA FailTypes ==
  ASSUME TypeInv, NEW p \in Procs, Fail(p)
  PROVE  TypeInv'
<1>1. Answer(p, "error") /\ UNCHANGED <<row, table, ghosts>>
  BY DEF Fail
<1>2. TypeOK'
  BY <1>1, AnswerTypes DEF TypeInv, TypeOK, row, table, ghosts
<1> QED
  BY <1>1, <1>2, AnswerTypes DEF TypeInv

\* The number of files of one type is a number.
Sized == \A t \in Types : IsFiniteSet(OfType(t)) /\ Cardinality(OfType(t)) \in Nat

\* Deleting rows keeps the sum of the files there are and those deleted.
LEMMA RemoveSizes ==
  ASSUME TypeInv, Sized, NEW gone, Remove(gone)
  PROVE  /\ files' \subseteq FileRow
         /\ deleted' \in [Types -> Nat]
         /\ Sized'
         /\ \A t \in Types :
              /\ Cardinality(OfType(t)') + deleted'[t] = Cardinality(OfType(t)) + deleted[t]
              /\ deleted'[t] >= deleted[t]
<1> USE DEF TypeInv, TypeOK, Remove
<1>1. ASSUME NEW t \in Types
      PROVE  /\ IsFiniteSet(OfType(t)') /\ Cardinality(OfType(t)') \in Nat
             /\ Cardinality(OfType(t) \cap gone) \in Nat
             /\ Cardinality(OfType(t)') = Cardinality(OfType(t)) - Cardinality(OfType(t) \cap gone)
  <2>1. OfType(t)' = OfType(t) \ gone
    BY DEF OfType
  <2>2. IsFiniteSet(OfType(t)) /\ Cardinality(OfType(t)) \in Nat
    BY DEF Sized
  <2>3. /\ IsFiniteSet(OfType(t) \ gone)
        /\ Cardinality(OfType(t) \ gone) = Cardinality(OfType(t)) - Cardinality(OfType(t) \cap gone)
    BY <2>2, FS_Difference
  <2>4. IsFiniteSet(OfType(t) \cap gone)
    BY <2>2, FS_Subset
  <2> QED
    BY <2>1, <2>2, <2>3, <2>4, FS_CardinalityType
<1>2. deleted' = [t \in Types |-> deleted[t] + Cardinality(OfType(t) \cap gone)]
  OBVIOUS
<1>3. files' \subseteq FileRow
  OBVIOUS
<1>4. deleted' \in [Types -> Nat]
  BY <1>1, <1>2
<1>5. Sized'
  BY <1>1 DEF Sized
<1>6. ASSUME NEW t \in Types
      PROVE  /\ Cardinality(OfType(t)') + deleted'[t] = Cardinality(OfType(t)) + deleted[t]
             /\ deleted'[t] >= deleted[t]
  <2> DEFINE n == Cardinality(OfType(t))
             m == Cardinality(OfType(t)')
             k == Cardinality(OfType(t) \cap gone)
  <2>1. m = n - k /\ k \in Nat /\ m \in Nat
    BY <1>1
  <2>2. n \in Nat /\ deleted[t] \in Nat
    BY DEF Sized
  <2>3. deleted'[t] = deleted[t] + k
    BY <1>2
  <2> HIDE DEF n, m, k
  <2>4. m + deleted'[t] = n + deleted[t] /\ deleted'[t] >= deleted[t]
    BY <2>1, <2>2, <2>3
  <2> QED
    BY <2>4 DEF n, m, k
<1> QED
  BY <1>3, <1>4, <1>5, <1>6

\* A new file adds one to the files of its type.
LEMMA InsertSizes ==
  ASSUME TypeInv, Sized, NEW r \in FileRow, r \notin files, files' = files \cup {r}
  PROVE  /\ Sized'
         /\ Cardinality(OfType(r.type)') = Cardinality(OfType(r.type)) + 1
         /\ \A t \in Types \ {r.type} : OfType(t)' = OfType(t)
<1>1. OfType(r.type)' = OfType(r.type) \cup {r}
  BY DEF OfType
<1>2. ASSUME NEW t \in Types \ {r.type} PROVE OfType(t)' = OfType(t)
  BY DEF OfType
<1>3. r.type \in Types /\ r \notin OfType(r.type)
  BY DEF FileRow, OfType
<1>4. IsFiniteSet(OfType(r.type)) /\ Cardinality(OfType(r.type)) \in Nat
  BY <1>3 DEF Sized
<1>5. /\ IsFiniteSet(OfType(r.type)')
      /\ Cardinality(OfType(r.type)') = Cardinality(OfType(r.type)) + 1
  BY <1>1, <1>3, <1>4, FS_AddElement
<1>6. Sized'
  BY <1>2, <1>4, <1>5 DEF Sized
<1> QED
  BY <1>2, <1>5, <1>6

-----------------------------------------------------------------------------
(* Type correctness *)

\* Every step keeps the types.
LEMMA TypeStep ==
  ASSUME TypeInv, Sized, [Next]_vars
  PROVE  TypeInv'
<1> USE FilesAssumption DEF TypeInv, TypeOK, Goto, Steps
<1>1. CASE UNCHANGED vars
  BY <1>1 DEF vars, row, table, asked, ghosts, AskedInv
<1>2. ASSUME NEW p \in Procs, Request(p) PROVE TypeInv'
  <2>1. /\ op' \in [Procs -> Operations]
        /\ type' \in [Procs -> Types \cup {NoType}]
        /\ file' \in [Procs -> FileRow \cup {NoFile}]
        /\ text' \in [Procs -> Titles \cup {NoTitle}]
    BY <1>2 DEF Request, Operations
  <2>2. UNCHANGED <<row, table, index, after, acked, written, overtaken>>
        /\ pc' = [pc EXCEPT ![p] = "access"] /\ answer' = [answer EXCEPT ![p] = "none"]
        /\ stale' = stale \ {p} /\ restored' = restored \ {p}
    BY <1>2 DEF Request
  <2>3. AskedInv'
    BY <1>2 DEF Request, AskedInv, FileOps, RunOps
  <2> QED
    BY <2>1, <2>2, <2>3 DEF row, table
<1>3. ASSUME NEW p \in Procs, Fail(p) PROVE TypeInv'
  BY <1>3, FailTypes
<1>4. ASSUME NEW p \in Procs, ProjectAccessed(p) PROVE TypeInv'
  BY <1>4, <1>3 DEF ProjectAccessed, Touch, row, table, asked, AskedInv
<1>5. ASSUME NEW p \in Procs, Authorize(p) PROVE TypeInv'
  <2>1. CASE Fail(p)
    BY <2>1, <1>3
  <2>2. CASE Goto(p, FirstStep(op[p])) /\ pc[p] = "authorize"
             /\ UNCHANGED <<row, table, asked, index, after, file, text, answer, ghosts>>
    <3>1. /\ FirstStep(op[p]) \in Steps
          /\ FirstStep(op[p]) = "count" => op[p] = "createFile"
          /\ FirstStep(op[p]) \notin {"insert", "save"}
      BY DEF FirstStep
    <3> QED
      BY <2>2, <3>1 DEF row, table, asked, ghosts, AskedInv
  <2> QED
    BY <1>5, <2>1, <2>2 DEF Authorize
<1>6. ASSUME NEW p \in Procs, CountFiles(p), Sized PROVE TypeInv'
  <2>1. CASE Fail(p)
    BY <2>1, <1>3
  <2>2. CASE /\ index' = [index EXCEPT ![p] = Cardinality(OfType(type[p]))]
             /\ after' = [after EXCEPT ![p] = inserted]
             /\ Goto(p, "insert") /\ pc[p] = "count"
             /\ UNCHANGED <<row, table, asked, file, text, answer, ghosts>>
    <3>1. op[p] = "createFile" /\ type[p] \in Types
      BY <2>2 DEF AskedInv
    <3>2. Cardinality(OfType(type[p])) \in Nat
      BY <3>1, <1>6 DEF Sized
    <3> QED
      BY <2>2, <3>1, <3>2 DEF row, table, asked, ghosts, AskedInv
  <2> QED
    BY <1>6, <2>1, <2>2 DEF CountFiles
<1>7. ASSUME NEW p \in Procs, InsertFile(p) PROVE TypeInv'
  <2>1. CASE Fail(p)
    BY <2>1, <1>3
  <2>2. CASE ~Fail(p)
    <3> DEFINE r == [id |-> inserted + 1, type |-> type[p], index |-> index[p], after |-> after[p]]
    <3>1. /\ pc[p] = "insert" /\ inserted < MaxFiles /\ inserted' = inserted + 1
          /\ file' = [file EXCEPT ![p] = r]
          /\ files' = files \cup {r}
          /\ stale' = stale \cup {p}
          /\ pc' = [pc EXCEPT ![p] = "update"]
          /\ UNCHANGED <<row, deleted, asked, index, after, text, answer, restored, acked, written, overtaken>>
      BY <1>7, <2>2 DEF InsertFile
    <3>2. op[p] = "createFile" /\ type[p] \in Types
      BY <3>1 DEF AskedInv
    <3>3. r \in FileRow
      BY <3>2 DEF FileRow
    <3>4. AskedInv'
      BY <3>1 DEF AskedInv, row, asked
    <3> HIDE DEF r
    <3> QED
      BY <3>1, <3>3, <3>4 DEF row, asked
  <2> QED
    BY <2>1, <2>2
<1>8. ASSUME NEW p \in Procs, UpdateFile(p) PROVE TypeInv'
  BY <1>8, <1>3 DEF UpdateFile, row, table, asked, AskedInv
<1>9. ASSUME NEW p \in Procs, DeleteFile(p), Sized PROVE TypeInv'
  <2>1. CASE Fail(p)
    BY <2>1, <1>3
  <2>2. CASE ~Fail(p)
    <3>1. /\ Remove({file[p]})
          /\ stale' = IF file[p] \in files THEN stale \cup {p} ELSE stale
          /\ pc' = [pc EXCEPT ![p] = "update"]
          /\ UNCHANGED <<row, asked, index, after, file, text, answer, restored, acked, written, overtaken>>
      BY <1>9, <2>2 DEF DeleteFile
    <3>2. files' \subseteq FileRow /\ deleted' \in [Types -> Nat] /\ inserted' = inserted
      BY <3>1, <1>9, RemoveSizes DEF Remove
    <3>3. AskedInv'
      BY <3>1 DEF AskedInv, asked
    <3> QED
      BY <3>1, <3>2, <3>3 DEF row, asked
  <2> QED
    BY <2>1, <2>2
<1>10. ASSUME NEW p \in Procs, UpdateRow(p) PROVE TypeInv'
  <2>1. CASE Fail(p)
    BY <2>1, <1>3
  <2>2. CASE ~Fail(p)
    <3>1. op[p] = "updateProject" => text[p] \in Titles
      BY DEF AskedInv
    <3>2. /\ title' \in Titles /\ written' \in Titles /\ overtaken' \in BOOLEAN
          /\ pc' = [pc EXCEPT ![p] = "read"] /\ stale' \subseteq Procs
          /\ UNCHANGED <<exists, table, asked, index, after, file, text, answer, restored, acked>>
      BY <1>10, <2>2, <3>1 DEF UpdateRow, Touch
    <3>3. AskedInv'
      BY <3>2 DEF AskedInv, asked
    <3> QED
      BY <3>2, <3>3 DEF table, asked
  <2> QED
    BY <2>1, <2>2
<1>11. ASSUME NEW p \in Procs, ReadBack(p) PROVE TypeInv'
  <2>1. CASE Fail(p)
    BY <2>1, <1>3
  <2>2. CASE ~Fail(p)
    <3>1. /\ Answer(p, "ok")
          /\ acked' = IF op[p] = "createFile" THEN acked \cup {file[p].id} ELSE acked
          /\ UNCHANGED <<row, table, stale, restored, written, overtaken>>
      BY <1>11, <2>2 DEF ReadBack
    <3>2. file[p].id \in Nat
      BY DEF FileRow, NoFile
    <3> QED
      BY <3>1, <3>2, AnswerTypes DEF row, table
  <2> QED
    BY <2>1, <2>2
<1>12. ASSUME NEW p \in Procs, GetProject(p) PROVE TypeInv'
  BY <1>12, <1>3 DEF GetProject, row, table, asked, ghosts, AskedInv
<1>13. ASSUME NEW p \in Procs, DeleteProject(p), Sized PROVE TypeInv'
  <2>1. CASE Fail(p)
    BY <2>1, <1>3
  <2>2. CASE ~Fail(p)
    <3>1. exists' = FALSE /\ Remove(files) /\ Answer(p, "ok") /\ UNCHANGED <<title, ghosts>>
      BY <1>13, <2>2 DEF DeleteProject
    <3>2. files' \subseteq FileRow /\ deleted' \in [Types -> Nat] /\ inserted' = inserted
      BY <3>1, <1>13, RemoveSizes DEF Remove
    <3> QED
      BY <3>1, <3>2, AnswerTypes DEF ghosts
  <2> QED
    BY <2>1, <2>2
<1>14. ASSUME NEW p \in Procs, Run(p) PROVE TypeInv'
  <2>1. CASE Fail(p)
    BY <2>1, <1>3
  <2>2. CASE ~Fail(p)
    <3>1. /\ \E step \in {"find", "update"} : pc' = [pc EXCEPT ![p] = step]
          /\ stale' \in {stale, stale \cup {p}}
          /\ UNCHANGED <<row, table, asked, index, after, file, text, answer, restored, acked, written, overtaken>>
      BY <1>14, <2>2 DEF Run
    <3>2. AskedInv'
      BY <3>1 DEF asked, AskedInv
    <3> QED
      BY <3>1, <3>2 DEF row, table, asked
  <2> QED
    BY <2>1, <2>2
<1>15. ASSUME NEW p \in Procs, FindProject(p) PROVE TypeInv'
  <2>1. CASE Fail(p)
    BY <2>1, <1>3
  <2>2. CASE ~Fail(p)
    BY ZenonT(40), <1>15, <2>2 DEF FindProject, row, table, asked, ghosts, AskedInv
  <2> QED
    BY <2>1, <2>2
<1>16. ASSUME NEW p \in Procs, SaveProject(p) PROVE TypeInv'
  <2>1. CASE Fail(p)
    BY <2>1, <1>3
  <2>2. CASE ~Fail(p)
    <3>1. /\ pc[p] = "save" /\ exists' = TRUE /\ title' = text[p]
          /\ pc' = [pc EXCEPT ![p] = "update"]
          /\ UNCHANGED <<table, asked, index, after, file, text, answer, acked, written, overtaken>>
      BY <1>16, <2>2 DEF SaveProject
    <3>2. stale' \subseteq Procs /\ restored' \subseteq Procs
      BY <1>16, <2>2 DEF SaveProject
    <3>3. AskedInv' /\ title' \in Titles
      BY <3>1 DEF asked, AskedInv
    <3> QED
      BY <3>1, <3>2, <3>3 DEF table, asked
  <2> QED
    BY <2>1, <2>2
<1>17. ASSUME NEW p \in Procs, ReadFile(p) PROVE TypeInv'
  BY <1>17, <1>3 DEF ReadFile, row, table, asked, ghosts, AskedInv
<1> QED
  BY <1>1, <1>2, <1>4, <1>5, <1>6, <1>7, <1>8, <1>9, <1>10, <1>11, <1>12, <1>13, <1>14, <1>15,
     <1>16, <1>17 DEF Next

-----------------------------------------------------------------------------
(* What the properties rest on *)

\* A request knows that its change is older than the updated_at of the project once that is read.
TouchedInv ==
  \A p \in Procs :
    /\ pc[p] \notin {"idle", "reread", "update", "read"} => p \notin stale
    /\ pc[p] = "read" /\ exists => p \notin stale \/ p \in restored
    /\ answer[p] = "ok" => pc[p] = "idle" /\ (p \notin stale \/ p \in restored)

\* An execution that has read the row saves the title a user set last, unless one was set since.
TitleInv ==
  /\ TitleKept
  /\ \A p \in Procs : pc[p] = "save" => overtaken \/ text[p] = written

\* Files are numbered as they are inserted; indices are less than the number of files there ever were.
Numbered ==
  /\ \A f \in files :
       /\ f.id <= inserted /\ f.after <= inserted
       /\ f.index < Cardinality(OfType(f.type)) + deleted[f.type]
  /\ \A p \in Procs : file[p].id <= inserted

\* What a request has counted stays behind the files there were, whatever is deleted.
Counted(p) ==
  /\ after[p] <= inserted
  /\ index[p] <= Cardinality(OfType(type[p])) + deleted[type[p]]
  /\ \A f \in OfType(type[p]) : f.id <= after[p] => index[p] > f.index - deleted[type[p]]

OrderInv ==
  /\ Sized
  /\ Numbered
  /\ \A p \in Procs : pc[p] = "insert" => Counted(p)
  /\ NewFilesAfterOld

\* Files that were created with success are numbered too.
AckedInv ==
  /\ OrphansFailed
  /\ \A i \in acked : i <= inserted

FilesInv == TypeInv /\ TouchedInv /\ TitleInv /\ OrderInv /\ AckedInv

-----------------------------------------------------------------------------
(* A change and the updated_at of the project *)

LEMMA TouchedStep ==
  ASSUME TypeInv, TouchedInv, [Next]_vars
  PROVE  TouchedInv'
<1>0. /\ pc \in [Procs -> Steps] /\ answer \in [Procs -> {"none", "ok", "error"}]
      /\ stale \subseteq Procs
  BY DEF TypeInv, TypeOK
<1>1. CASE UNCHANGED vars
  BY <1>1 DEF vars, row, ghosts, TouchedInv
<1>2. ASSUME NEW p \in Procs, Fail(p) PROVE TouchedInv'
  BY <1>0, <1>2 DEF Fail, Answer, row, ghosts, TouchedInv
<1>3. ASSUME NEW p \in Procs, Request(p) PROVE TouchedInv'
  BY <1>0, <1>3 DEF Request, Goto, row, TouchedInv
<1>4. ASSUME NEW p \in Procs, ProjectAccessed(p) PROVE TouchedInv'
  BY <1>0, <1>2, <1>4 DEF ProjectAccessed, Goto, Touch, row, TouchedInv
<1>5. ASSUME NEW p \in Procs, Authorize(p) PROVE TouchedInv'
  <2>1. FirstStep(op[p]) \notin {"idle", "reread", "update", "read"} \/ op[p] = "updateProject"
    BY DEF FirstStep
  <2>2. CASE Fail(p)
    BY <2>2, <1>2
  <2>3. CASE ~Fail(p)
    BY <1>0, <1>5, <2>3 DEF Authorize, Goto, row, ghosts, TouchedInv
  <2> QED
    BY <2>2, <2>3
<1>6. ASSUME NEW p \in Procs, CountFiles(p) PROVE TouchedInv'
  BY <1>0, <1>2, <1>6 DEF CountFiles, Goto, row, ghosts, TouchedInv
<1>7. ASSUME NEW p \in Procs, InsertFile(p) PROVE TouchedInv'
  BY <1>0, <1>2, <1>7 DEF InsertFile, Goto, row, TouchedInv
<1>8. ASSUME NEW p \in Procs, UpdateFile(p) PROVE TouchedInv'
  BY <1>0, <1>2, <1>8 DEF UpdateFile, Goto, row, TouchedInv
<1>9. ASSUME NEW p \in Procs, DeleteFile(p) PROVE TouchedInv'
  BY <1>0, <1>2, <1>9 DEF DeleteFile, Goto, row, TouchedInv
<1>10. ASSUME NEW p \in Procs, UpdateRow(p) PROVE TouchedInv'
  BY <1>0, <1>2, <1>10 DEF UpdateRow, Goto, Touch, TouchedInv
<1>11. ASSUME NEW p \in Procs, ReadBack(p) PROVE TouchedInv'
  BY <1>0, <1>2, <1>11 DEF ReadBack, Answer, row, TouchedInv
<1>12. ASSUME NEW p \in Procs, GetProject(p) PROVE TouchedInv'
  BY <1>0, <1>2, <1>12 DEF GetProject, Goto, row, ghosts, TouchedInv
<1>13. ASSUME NEW p \in Procs, DeleteProject(p) PROVE TouchedInv'
  BY <1>0, <1>2, <1>13 DEF DeleteProject, Answer, ghosts, TouchedInv
<1>14. ASSUME NEW p \in Procs, Run(p) PROVE TouchedInv'
  BY <1>0, <1>2, <1>14 DEF Run, Goto, row, TouchedInv
<1>15. ASSUME NEW p \in Procs, FindProject(p) PROVE TouchedInv'
  BY <1>0, <1>2, <1>15 DEF FindProject, Goto, row, ghosts, TouchedInv
<1>16. ASSUME NEW p \in Procs, SaveProject(p) PROVE TouchedInv'
  BY <1>0, <1>2, <1>16 DEF SaveProject, Goto, TouchedInv
<1>17. ASSUME NEW p \in Procs, ReadFile(p) PROVE TouchedInv'
  BY <1>0, <1>2, <1>17 DEF ReadFile, Goto, row, ghosts, TouchedInv
<1> QED
  BY <1>1, <1>3, <1>4, <1>5, <1>6, <1>7, <1>8, <1>9, <1>10, <1>11, <1>12, <1>13, <1>14, <1>15,
     <1>16, <1>17 DEF Next

-----------------------------------------------------------------------------
(* The title *)

LEMMA TitleStep ==
  ASSUME TypeInv, TitleInv, [Next]_vars
  PROVE  TitleInv'
<1>0. pc \in [Procs -> Steps] /\ text \in [Procs -> Titles \cup {NoTitle}]
  BY DEF TypeInv, TypeOK
<1> USE DEF TitleInv, TitleKept
<1>1. CASE UNCHANGED vars
  BY <1>1 DEF vars, row, ghosts
<1>2. ASSUME NEW p \in Procs, Fail(p) PROVE TitleInv'
  BY <1>0, <1>2 DEF Fail, Answer, row, ghosts
<1>3. ASSUME NEW p \in Procs, Request(p) PROVE TitleInv'
  BY <1>0, <1>3 DEF Request, Goto, row
<1>4. ASSUME NEW p \in Procs, ProjectAccessed(p) PROVE TitleInv'
  BY <1>0, <1>2, <1>4 DEF ProjectAccessed, Goto, row
<1>5. ASSUME NEW p \in Procs, Authorize(p) PROVE TitleInv'
  <2>1. FirstStep(op[p]) # "save"
    BY DEF FirstStep
  <2> QED
    BY <1>0, <1>2, <1>5, <2>1 DEF Authorize, Goto, row, ghosts
<1>6. ASSUME NEW p \in Procs, CountFiles(p) PROVE TitleInv'
  BY <1>0, <1>2, <1>6 DEF CountFiles, Goto, row, ghosts
<1>7. ASSUME NEW p \in Procs, InsertFile(p) PROVE TitleInv'
  BY <1>0, <1>2, <1>7 DEF InsertFile, Goto, row
<1>8. ASSUME NEW p \in Procs, UpdateFile(p) PROVE TitleInv'
  BY <1>0, <1>2, <1>8 DEF UpdateFile, Goto, row
<1>9. ASSUME NEW p \in Procs, DeleteFile(p) PROVE TitleInv'
  BY <1>0, <1>2, <1>9 DEF DeleteFile, Goto, row
<1>10. ASSUME NEW p \in Procs, UpdateRow(p) PROVE TitleInv'
  <2>1. CASE Fail(p)
    BY <2>1, <1>2
  <2>2. CASE ~Fail(p) /\ exists /\ op[p] = "updateProject"
    <3>1. /\ title' = text[p] /\ written' = text[p]
          /\ overtaken' = \E q \in Procs : pc[q] = "save"
          /\ pc' = [pc EXCEPT ![p] = "read"] /\ pc[p] = "update" /\ text' = text
      BY <1>10, <2>2 DEF UpdateRow, Goto
    <3>2. ASSUME NEW q \in Procs, pc'[q] = "save" PROVE overtaken'
      BY <1>0, <3>1, <3>2
    <3> QED
      BY <3>1, <3>2
  <2>3. CASE ~Fail(p) /\ ~(exists /\ op[p] = "updateProject")
    <3>1. /\ title' = title /\ written' = written /\ overtaken' = overtaken
          /\ pc' = [pc EXCEPT ![p] = "read"] /\ text' = text /\ exists' = exists
      BY <1>10, <2>3, ZenonT(60) DEF UpdateRow, Goto
    <3> QED
      BY <1>0, <3>1
  <2> QED
    BY <2>1, <2>2, <2>3
<1>11. ASSUME NEW p \in Procs, ReadBack(p) PROVE TitleInv'
  BY <1>0, <1>2, <1>11 DEF ReadBack, Answer, row
<1>12. ASSUME NEW p \in Procs, GetProject(p) PROVE TitleInv'
  BY <1>0, <1>2, <1>12 DEF GetProject, Goto, row, ghosts
<1>13. ASSUME NEW p \in Procs, DeleteProject(p) PROVE TitleInv'
  BY <1>0, <1>2, <1>13 DEF DeleteProject, Answer, ghosts
<1>14. ASSUME NEW p \in Procs, Run(p) PROVE TitleInv'
  BY <1>0, <1>2, <1>14 DEF Run, Goto, row
<1>15. ASSUME NEW p \in Procs, FindProject(p) PROVE TitleInv'
  BY <1>0, <1>2, <1>15 DEF FindProject, Goto, row, ghosts
<1>16. ASSUME NEW p \in Procs, SaveProject(p) PROVE TitleInv'
  BY <1>0, <1>2, <1>16 DEF SaveProject, Goto
<1>17. ASSUME NEW p \in Procs, ReadFile(p) PROVE TitleInv'
  BY <1>0, <1>2, <1>17 DEF ReadFile, Goto, row, ghosts
<1> QED
  BY <1>1, <1>3, <1>4, <1>5, <1>6, <1>7, <1>8, <1>9, <1>10, <1>11, <1>12, <1>13, <1>14, <1>15,
     <1>16, <1>17 DEF Next

-----------------------------------------------------------------------------
(* The order of files *)

\* What a request has counted is left alone, or it is over.
Quiet ==
  \A q \in Procs :
    /\ pc'[q] = "insert" =>
         pc[q] = "insert" /\ index'[q] = index[q] /\ after'[q] = after[q] /\ type'[q] = type[q]
    /\ file'[q].id <= inserted

\* What a request counts is of a type, and a number.
LEMMA CountedTypes ==
  ASSUME TypeInv, NEW p \in Procs, pc[p] = "insert"
  PROVE  type[p] \in Types /\ index[p] \in Nat /\ after[p] \in Nat
BY DEF TypeInv, TypeOK, AskedInv

LEMMA OrderKept ==
  ASSUME TypeInv, OrderInv, Quiet, UNCHANGED table
  PROVE  OrderInv'
<1>1. files' = files /\ inserted' = inserted /\ deleted' = deleted
  BY DEF table
<1>2. \A t : OfType(t)' = OfType(t)
  BY <1>1 DEF OfType
<1>3. Sized' /\ Numbered' /\ NewFilesAfterOld'
  BY <1>1, <1>2 DEF OrderInv, Sized, Numbered, NewFilesAfterOld, Quiet
<1>4. ASSUME NEW q \in Procs, pc'[q] = "insert" PROVE Counted(q)'
  <2>1. Counted(q) /\ index'[q] = index[q] /\ after'[q] = after[q] /\ type'[q] = type[q]
    BY <1>4 DEF OrderInv, Quiet
  <2> QED
    BY <2>1, <1>1, <1>2 DEF Counted
<1> QED
  BY <1>3, <1>4 DEF OrderInv

\* Deleting files leaves the places of the others, and the bound on them.
LEMMA OrderRemoved ==
  ASSUME TypeInv, OrderInv, Quiet, NEW gone, Remove(gone)
  PROVE  OrderInv'
<1>1. inserted' = inserted /\ files' \subseteq files
  BY DEF Remove
<1>2. /\ files' \subseteq FileRow /\ deleted' \in [Types -> Nat] /\ Sized'
      /\ \A t \in Types :
           /\ Cardinality(OfType(t)') + deleted'[t] = Cardinality(OfType(t)) + deleted[t]
           /\ deleted'[t] >= deleted[t]
  BY RemoveSizes DEF OrderInv
<1>3. /\ files \subseteq FileRow /\ deleted \in [Types -> Nat] /\ inserted \in Nat
      /\ \A t \in Types : Cardinality(OfType(t)) \in Nat /\ Cardinality(OfType(t)') \in Nat
  BY <1>2, FilesAssumption DEF TypeInv, TypeOK, OrderInv, Sized
<1>4. Numbered'
  <2>1. ASSUME NEW f \in files'
        PROVE  /\ f.id <= inserted' /\ f.after <= inserted'
               /\ f.index < Cardinality(OfType(f.type)') + deleted'[f.type]
    <3>1. f \in files /\ f.type \in Types /\ f.index \in Nat
      BY <1>1, <1>3 DEF FileRow
    <3>2. f.index < Cardinality(OfType(f.type)) + deleted[f.type] /\ f.id <= inserted /\ f.after <= inserted
      BY <3>1 DEF OrderInv, Numbered
    <3>3. f.index < Cardinality(OfType(f.type)') + deleted'[f.type]
      BY <1>2, <3>1, <3>2
    <3> QED
      BY <1>1, <3>2, <3>3
  <2> QED
    BY <1>1, <2>1 DEF Numbered, Quiet
<1>5. ASSUME NEW q \in Procs, pc'[q] = "insert" PROVE Counted(q)'
  <2>1. /\ pc[q] = "insert" /\ Counted(q)
        /\ index'[q] = index[q] /\ after'[q] = after[q] /\ type'[q] = type[q]
    BY <1>5 DEF OrderInv, Quiet
  <2> PICK t \in Types : t = type[q]
    BY <2>1, CountedTypes
  <2>2. index[q] \in Nat /\ t = type'[q]
    BY <2>1, CountedTypes
  <2>3. index[q] <= Cardinality(OfType(t)') + deleted'[t]
    <3>1. index[q] <= Cardinality(OfType(t)) + deleted[t]
      BY <2>1 DEF Counted
    <3> QED
      BY <1>2, <3>1
  <2>4. ASSUME NEW f \in OfType(t)', f.id <= after[q]
        PROVE  index[q] > f.index - deleted'[t]
    <3>1. f \in OfType(t) /\ f.index \in Nat
      BY <1>1, <1>3 DEF OfType, FileRow
    <3>2. index[q] > f.index - deleted[t] /\ deleted'[t] >= deleted[t]
      BY <1>2, <2>1, <2>4, <3>1 DEF Counted
    <3>3. deleted[t] \in Nat /\ deleted'[t] \in Nat
      BY <1>2, <1>3
    <3> QED
      BY <2>2, <3>1, <3>2, <3>3
  <2> QED
    BY <1>1, <2>1, <2>2, <2>3, <2>4 DEF Counted
<1>6. NewFilesAfterOld'
  <2>1. SUFFICES ASSUME NEW f \in files', NEW g \in files',
                        g.type = f.type, g.id > 0, f # g, f.id <= g.after
                 PROVE  g.index > f.index - deleted'[f.type]
    BY DEF NewFilesAfterOld
  <2>2. /\ f \in files /\ g \in files /\ f.type \in Types /\ f.index \in Nat /\ g.index \in Nat
        /\ deleted[f.type] \in Nat /\ deleted'[f.type] \in Nat
    BY <1>1, <1>2, <1>3 DEF FileRow
  <2>3. g.index > f.index - deleted[f.type] /\ deleted'[f.type] >= deleted[f.type]
    BY <1>2, <2>1, <2>2 DEF OrderInv, NewFilesAfterOld
  <2> QED
    BY <2>2, <2>3
<1> QED
  BY <1>2, <1>4, <1>5, <1>6 DEF OrderInv

\* A new file has a number of its own, and its place is after those it was counted behind.
LEMMA OrderInserted ==
  ASSUME TypeInv, OrderInv, NEW p \in Procs, NEW r,
         r = [id |-> inserted + 1, type |-> type[p], index |-> index[p], after |-> after[p]],
         pc[p] = "insert", inserted' = inserted + 1, file' = [file EXCEPT ![p] = r],
         files' = files \cup {r}, pc' = [pc EXCEPT ![p] = "update"],
         UNCHANGED <<deleted, type, index, after>>
  PROVE  OrderInv'
<1>1. Counted(p)
  BY DEF OrderInv
<1>2. type[p] \in Types /\ index[p] \in Nat /\ after[p] \in Nat
  BY CountedTypes
<1> PICK t \in Types : t = type[p]
  BY <1>2
<1>3. /\ files \subseteq FileRow /\ deleted \in [Types -> Nat] /\ inserted \in Nat
      /\ pc \in [Procs -> Steps] /\ file \in [Procs -> FileRow \cup {NoFile}]
  BY FilesAssumption DEF TypeInv, TypeOK
<1>4. r \in FileRow /\ r \notin files
  BY <1>2, <1>3 DEF FileRow, OrderInv, Numbered
<1>5. r.id = inserted + 1 /\ r.type = t /\ r.index = index[p] /\ r.after = after[p]
  OBVIOUS
<1>6. /\ Sized'
      /\ Cardinality(OfType(t)') = Cardinality(OfType(t)) + 1
      /\ \A u \in Types \ {t} : OfType(u)' = OfType(u)
  BY <1>4, <1>5, InsertSizes DEF OrderInv
<1>7. ASSUME NEW u \in Types
      PROVE  /\ Cardinality(OfType(u)) \in Nat /\ Cardinality(OfType(u)') \in Nat
             /\ Cardinality(OfType(u)') >= Cardinality(OfType(u))
  <2>1. Cardinality(OfType(u)) \in Nat /\ Cardinality(OfType(u)') \in Nat
    BY <1>6 DEF OrderInv, Sized
  <2>2. CASE u = t
    BY <1>6, <2>1, <2>2
  <2>3. CASE u # t
    BY <1>6, <2>1, <2>3
  <2> QED
    BY <2>1, <2>2, <2>3
<1>8. Numbered'
  <2>1. ASSUME NEW f \in files
        PROVE  /\ f.id <= inserted' /\ f.after <= inserted'
               /\ f.index < Cardinality(OfType(f.type)') + deleted'[f.type]
    <3>1. /\ f.id \in Nat /\ f.after \in Nat /\ f.type \in Types /\ f.index \in Nat
          /\ deleted[f.type] \in Nat
      BY <1>3 DEF FileRow
    <3>2. /\ f.id <= inserted /\ f.after <= inserted
          /\ f.index < Cardinality(OfType(f.type)) + deleted[f.type]
      BY DEF OrderInv, Numbered
    <3> QED
      BY <1>3, <1>7, <3>1, <3>2
  <2>2. /\ r.id <= inserted' /\ r.after <= inserted'
        /\ r.index < Cardinality(OfType(t)') + deleted'[t]
    <3>1. after[p] <= inserted /\ index[p] <= Cardinality(OfType(t)) + deleted[t]
      BY <1>1 DEF Counted
    <3>2. deleted[t] \in Nat /\ deleted'[t] = deleted[t]
      BY <1>3
    <3> QED
      BY <1>2, <1>3, <1>5, <1>6, <1>7, <3>1, <3>2
  <2>3. ASSUME NEW q \in Procs PROVE file'[q].id <= inserted'
    <3>1. file[q].id <= inserted /\ file[q].id \in Nat
      BY <1>3 DEF OrderInv, Numbered, FileRow, NoFile
    <3> QED
      BY <1>3, <1>5, <3>1
  <2> QED
    BY <1>5, <2>1, <2>2, <2>3 DEF Numbered
<1>9. ASSUME NEW q \in Procs, pc'[q] = "insert" PROVE Counted(q)'
  <2>1. pc[q] = "insert" /\ Counted(q)
    BY <1>3, <1>9 DEF OrderInv
  <2> PICK u \in Types : u = type[q]
    BY <2>1, CountedTypes
  <2>2. index[q] \in Nat /\ after[q] \in Nat /\ u = type'[q]
    BY <2>1, CountedTypes
  <2>3. after[q] <= inserted /\ index[q] <= Cardinality(OfType(u)) + deleted[u]
    BY <2>1 DEF Counted
  <2>4. after'[q] <= inserted' /\ index'[q] <= Cardinality(OfType(u)') + deleted'[u]
    <3>1. deleted[u] \in Nat /\ deleted'[u] = deleted[u]
      BY <1>3
    <3> QED
      BY <1>3, <1>7, <2>2, <2>3, <3>1
  <2>5. ASSUME NEW f \in OfType(u)', f.id <= after[q]
        PROVE  index[q] > f.index - deleted[u]
    <3>1. f # r
      BY <1>3, <1>5, <2>2, <2>3, <2>5
    <3>2. f \in OfType(u)
      BY <3>1 DEF OfType
    <3> QED
      BY <2>1, <2>5, <3>2 DEF Counted
  <2> QED
    BY <2>2, <2>4, <2>5 DEF Counted
<1>10. NewFilesAfterOld'
  <2>1. SUFFICES ASSUME NEW f \in files', NEW g \in files',
                        g.type = f.type, g.id > 0, f # g, f.id <= g.after
                 PROVE  g.index > f.index - deleted[f.type]
    BY DEF NewFilesAfterOld
  <2>2. CASE f \in files /\ g \in files
    BY <2>1, <2>2 DEF OrderInv, NewFilesAfterOld
  <2>3. CASE g = r
    <3>1. f \in OfType(t) /\ f.id <= after[p] /\ f.type = t
      BY <1>5, <2>1, <2>3 DEF OfType
    <3> QED
      BY <1>1, <1>5, <2>3, <3>1 DEF Counted
  <2>4. CASE f = r /\ g \in files
    <3>1. g.after <= inserted /\ g.after \in Nat
      BY <1>3, <2>4 DEF OrderInv, Numbered, FileRow
    <3> QED
      BY <1>3, <1>5, <2>1, <2>4, <3>1
  <2> QED
    BY <2>2, <2>3, <2>4
<1> QED
  BY <1>6, <1>8, <1>9, <1>10 DEF OrderInv

\* The files of the templates of a type fill the places up to their number.
LEMMA TemplatePlaces ==
  ASSUME Init, NEW t \in Types
  PROVE  /\ IsFiniteSet(OfType(t))
         /\ Cardinality(OfType(t)) = Templates[t]
         /\ \A f \in OfType(t) : f.id = 0 /\ f.after = 0 /\ f.index < Templates[t]
<1> DEFINE S == 0..Templates[t] - 1
           place == [i \in S |-> [id |-> 0, type |-> t, index |-> i, after |-> 0]]
<1>1. Templates[t] \in Nat
  BY FilesAssumption
<1>2. OfType(t) = {place[i] : i \in S}
  <2>1. files = UNION {{[id |-> 0, type |-> u, index |-> i, after |-> 0] : i \in 0..Templates[u] - 1} :
                        u \in Types}
    BY DEF Init
  <2>2. ASSUME NEW f \in OfType(t) PROVE f \in {place[i] : i \in S}
    <3>1. f \in files /\ f.type = t
      BY DEF OfType
    <3>2. PICK u \in Types : f \in {[id |-> 0, type |-> u, index |-> i, after |-> 0] :
                                      i \in 0..Templates[u] - 1}
      BY <2>1, <3>1
    <3>3. PICK i \in 0..Templates[u] - 1 : f = [id |-> 0, type |-> u, index |-> i, after |-> 0]
      BY <3>2
    <3>4. u = t
      BY <3>1, <3>3
    <3> QED
      BY <3>3, <3>4
  <2>3. ASSUME NEW i \in S PROVE place[i] \in OfType(t)
    <3>1. place[i] = [id |-> 0, type |-> t, index |-> i, after |-> 0]
      OBVIOUS
    <3>2. place[i] \in files
      BY <2>1, <3>1
    <3> QED
      BY <3>1, <3>2 DEF OfType
  <2> QED
    BY <2>2, <2>3
<1>3. place \in Bijection(S, OfType(t))
  <2>1. place \in [S -> OfType(t)]
    BY <1>2
  <2>2. \A i, j \in S : place[i] = place[j] => i = j
    <3>1. \A i \in S : place[i].index = i
      OBVIOUS
    <3> QED
      BY <3>1
  <2>3. \A f \in OfType(t) : \E i \in S : place[i] = f
    BY <1>2
  <2> HIDE DEF place, S
  <2> QED
    BY <2>1, <2>2, <2>3 DEF Bijection, Injection, Surjection, IsInjective
<1>4. IsFiniteSet(S) /\ Cardinality(S) = Templates[t]
  <2>1. 0 \in Int /\ Templates[t] - 1 \in Int
    BY <1>1
  <2>2. IsFiniteSet(S) /\ Cardinality(S) = IF 0 > Templates[t] - 1 THEN 0 ELSE (Templates[t] - 1) - 0 + 1
    BY <2>1, FS_Interval
  <2> QED
    BY <1>1, <2>2
<1>5. IsFiniteSet(OfType(t)) /\ Cardinality(OfType(t)) = Cardinality(S)
  BY <1>3, <1>4, FS_Bijection DEF ExistsBijection
<1>6. \A i \in S : place[i].id = 0 /\ place[i].after = 0 /\ place[i].index < Templates[t]
  BY <1>1
<1> QED
  BY <1>2, <1>4, <1>5, <1>6

LEMMA OrderInit == Init => OrderInv
<1> SUFFICES ASSUME Init PROVE OrderInv
  OBVIOUS
<1>1. /\ inserted = 0 /\ deleted = [t \in Types |-> 0]
      /\ file = [p \in Procs |-> NoFile] /\ pc = [p \in Procs |-> "idle"]
  BY DEF Init
<1>2. files \subseteq FileRow
  BY TypeInit DEF TypeInv, TypeOK
<1>3. Sized
  BY TemplatePlaces, FilesAssumption DEF Sized
<1>4. ASSUME NEW f \in files
      PROVE  /\ f.id = 0 /\ f.after = 0
             /\ f.index < Cardinality(OfType(f.type)) + deleted[f.type]
  <2> PICK t \in Types : t = f.type
    BY <1>2 DEF FileRow
  <2>1. /\ f \in OfType(t)
        /\ f.id = 0 /\ f.after = 0 /\ f.index < Templates[t] /\ Cardinality(OfType(t)) = Templates[t]
    BY TemplatePlaces DEF OfType
  <2>2. deleted[t] = 0 /\ Templates[t] \in Nat
    BY <1>1, FilesAssumption
  <2> QED
    BY <2>1, <2>2
<1>5. Numbered
  BY <1>1, <1>4 DEF Numbered, NoFile
<1>6. NewFilesAfterOld
  BY <1>4 DEF NewFilesAfterOld
<1> QED
  BY <1>1, <1>3, <1>5, <1>6 DEF OrderInv

LEMMA OrderStep ==
  ASSUME TypeInv, OrderInv, [Next]_vars
  PROVE  OrderInv'
<1>0. /\ pc \in [Procs -> Steps] /\ file \in [Procs -> FileRow \cup {NoFile}]
      /\ index \in [Procs -> Nat] /\ after \in [Procs -> Nat]
      /\ \A p \in Procs : file[p].id <= inserted
  BY DEF TypeInv, TypeOK, OrderInv, Numbered
<1>1. NoFile.id <= inserted
  BY FilesAssumption DEF NoFile, TypeInv, TypeOK
<1>2. ASSUME NEW p \in Procs, NEW a, Answer(p, a) PROVE Quiet
  BY <1>0, <1>1, <1>2 DEF Answer, Quiet, TypeInv, TypeOK
<1>3. ASSUME NEW p \in Procs, Fail(p) PROVE OrderInv'
  <2>1. Quiet /\ UNCHANGED table
    BY <1>2, <1>3 DEF Fail
  <2> QED
    BY <2>1, OrderKept
<1>4. ASSUME UNCHANGED table, UNCHANGED <<asked, index, after, file>>,
             NEW p \in Procs, NEW step, step # "insert", Goto(p, step)
      PROVE  OrderInv'
  <2>1. Quiet
    BY <1>0, <1>4 DEF Goto, asked, Quiet
  <2> QED
    BY <2>1, <1>4, OrderKept
<1>5. CASE UNCHANGED vars
  <2>1. Quiet /\ UNCHANGED table
    BY <1>0, <1>5 DEF vars, asked, Quiet
  <2> QED
    BY <2>1, OrderKept
<1>6. ASSUME NEW p \in Procs, Request(p) PROVE OrderInv'
  <2>1. UNCHANGED table /\ UNCHANGED <<index, after>> /\ pc' = [pc EXCEPT ![p] = "access"]
    BY <1>6 DEF Request, Goto
  <2>2. \A q \in Procs \ {p} : type'[q] = type[q] /\ file'[q] = file[q]
    BY <1>0, <1>6 DEF Request, TypeInv, TypeOK
  <2>3. file'[p] = file[p] \/ file'[p] \in files
    BY <1>0, <1>6 DEF Request
  <2>4. Quiet
    BY <1>0, <2>1, <2>2, <2>3 DEF Quiet, OrderInv, Numbered
  <2> QED
    BY <2>1, <2>4, OrderKept
<1>7. ASSUME NEW p \in Procs, ProjectAccessed(p) PROVE OrderInv'
  BY <1>3, <1>4, <1>7 DEF ProjectAccessed
<1>8. ASSUME NEW p \in Procs, Authorize(p) PROVE OrderInv'
  <2>1. FirstStep(op[p]) # "insert"
    BY DEF FirstStep
  <2> QED
    BY <1>3, <1>4, <1>8, <2>1 DEF Authorize
<1>9. ASSUME NEW p \in Procs, CountFiles(p) PROVE OrderInv'
  <2>1. CASE Fail(p)
    BY <2>1, <1>3
  <2>2. CASE ~Fail(p)
    <3>1. /\ index' = [index EXCEPT ![p] = Cardinality(OfType(type[p]))]
          /\ after' = [after EXCEPT ![p] = inserted]
          /\ pc' = [pc EXCEPT ![p] = "insert"] /\ pc[p] = "count"
          /\ files' = files /\ inserted' = inserted /\ deleted' = deleted /\ type' = type /\ file' = file
      BY <1>9, <2>2 DEF CountFiles, Goto, table, asked
    <3> PICK t \in Types : t = type[p]
      BY <3>1 DEF TypeInv, AskedInv
    <3>2. \A u : OfType(u)' = OfType(u)
      BY <3>1 DEF OfType
    <3>3. Sized' /\ Numbered' /\ NewFilesAfterOld'
      BY <3>1, <3>2 DEF OrderInv, Sized, Numbered, NewFilesAfterOld
    <3>4. Counted(p)'
      <4>1. Cardinality(OfType(t)) \in Nat /\ deleted[t] \in Nat /\ inserted \in Nat
        BY FilesAssumption DEF OrderInv, Sized, TypeInv, TypeOK
      <4>2. index'[p] = Cardinality(OfType(t)) /\ after'[p] = inserted
        BY <1>0, <3>1
      <4>3. ASSUME NEW f \in OfType(t) PROVE Cardinality(OfType(t)) > f.index - deleted[t]
        <5>1. f.index < Cardinality(OfType(t)) + deleted[t]
          BY DEF OfType, OrderInv, Numbered
        <5>2. f.index \in Nat
          BY DEF OfType, TypeInv, TypeOK, FileRow
        <5> QED
          BY <4>1, <5>1, <5>2
      <4> QED
        BY <3>1, <3>2, <4>1, <4>2, <4>3 DEF Counted
    <3>5. ASSUME NEW q \in Procs \ {p}, pc'[q] = "insert" PROVE Counted(q)'
      <4>1. Counted(q) /\ index'[q] = index[q] /\ after'[q] = after[q]
        BY <1>0, <3>1, <3>5 DEF OrderInv
      <4> QED
        BY <3>1, <3>2, <4>1 DEF Counted
    <3> QED
      BY <3>3, <3>4, <3>5 DEF OrderInv
  <2> QED
    BY <2>1, <2>2
<1>10. ASSUME NEW p \in Procs, InsertFile(p) PROVE OrderInv'
  <2>1. CASE Fail(p)
    BY <2>1, <1>3
  <2>2. CASE ~Fail(p)
    <3>1. PICK r : r = [id |-> inserted + 1, type |-> type[p], index |-> index[p], after |-> after[p]]
      OBVIOUS
    <3>2. /\ pc[p] = "insert" /\ inserted' = inserted + 1 /\ file' = [file EXCEPT ![p] = r]
          /\ pc' = [pc EXCEPT ![p] = "update"] /\ UNCHANGED <<deleted, type, index, after>>
          /\ files' = files \cup {file'[p]}
      BY <1>10, <2>2, <3>1 DEF InsertFile, Goto, asked
    <3>3. files' = files \cup {r}
      BY <1>0, <3>2
    <3> QED
      BY <3>1, <3>2, <3>3, OrderInserted
  <2> QED
    BY <2>1, <2>2
<1>11. ASSUME NEW p \in Procs, UpdateFile(p) PROVE OrderInv'
  BY <1>3, <1>4, <1>11 DEF UpdateFile
<1>12. ASSUME NEW p \in Procs, DeleteFile(p) PROVE OrderInv'
  <2>1. CASE Fail(p)
    BY <2>1, <1>3
  <2>2. CASE ~Fail(p)
    <3>1. /\ Remove({file[p]}) /\ pc' = [pc EXCEPT ![p] = "update"]
          /\ UNCHANGED <<type, index, after, file>>
      BY <1>12, <2>2 DEF DeleteFile, Goto, asked
    <3>2. Quiet
      BY <1>0, <3>1 DEF Quiet
    <3> QED
      BY <3>1, <3>2, OrderRemoved
  <2> QED
    BY <2>1, <2>2
<1>13. ASSUME NEW p \in Procs, UpdateRow(p) PROVE OrderInv'
  BY <1>3, <1>4, <1>13 DEF UpdateRow
<1>14. ASSUME NEW p \in Procs, ReadBack(p) PROVE OrderInv'
  <2>1. CASE Fail(p)
    BY <2>1, <1>3
  <2>2. CASE ~Fail(p)
    BY <1>2, <1>14, <2>2, OrderKept DEF ReadBack
  <2> QED
    BY <2>1, <2>2
<1>15. ASSUME NEW p \in Procs, GetProject(p) PROVE OrderInv'
  BY <1>3, <1>4, <1>15 DEF GetProject
<1>16. ASSUME NEW p \in Procs, DeleteProject(p) PROVE OrderInv'
  <2>1. CASE Fail(p)
    BY <2>1, <1>3
  <2>2. CASE ~Fail(p)
    BY <1>2, <1>16, <2>2, OrderRemoved DEF DeleteProject
  <2> QED
    BY <2>1, <2>2
<1>17. ASSUME NEW p \in Procs, Run(p) PROVE OrderInv'
  BY <1>3, <1>4, <1>17 DEF Run
<1>18. ASSUME NEW p \in Procs, FindProject(p) PROVE OrderInv'
  BY <1>3, <1>4, <1>18 DEF FindProject
<1>19. ASSUME NEW p \in Procs, SaveProject(p) PROVE OrderInv'
  BY <1>3, <1>4, <1>19 DEF SaveProject
<1>20. ASSUME NEW p \in Procs, ReadFile(p) PROVE OrderInv'
  BY <1>3, <1>4, <1>20 DEF ReadFile
<1> QED
  BY <1>5, <1>6, <1>7, <1>8, <1>9, <1>10, <1>11, <1>12, <1>13, <1>14, <1>15, <1>16, <1>17, <1>18,
     <1>19, <1>20 DEF Next

-----------------------------------------------------------------------------
(* Files of a deleted project *)

LEMMA AckedStep ==
  ASSUME TypeInv, OrderInv, AckedInv, [Next]_vars
  PROVE  AckedInv'
<1>0. /\ files \subseteq FileRow /\ inserted \in Nat /\ acked \subseteq Nat
      /\ \A p \in Procs : file[p].id <= inserted
  BY FilesAssumption DEF TypeInv, TypeOK, OrderInv, Numbered
<1> USE DEF AckedInv, OrphansFailed
<1>1. ASSUME exists' = exists, files' \subseteq files, inserted' = inserted, acked' = acked
      PROVE  AckedInv'
  BY <1>1
<1>2. ASSUME NEW p \in Procs, Fail(p) PROVE AckedInv'
  BY <1>1, <1>2 DEF Fail, row, table, ghosts
<1>3. CASE UNCHANGED vars
  BY <1>1, <1>3 DEF vars, row, table, ghosts
<1>4. ASSUME NEW p \in Procs, Request(p) PROVE AckedInv'
  BY <1>1, <1>4 DEF Request, row, table
<1>5. ASSUME NEW p \in Procs, ProjectAccessed(p) PROVE AckedInv'
  BY <1>1, <1>2, <1>5 DEF ProjectAccessed, row, table
<1>6. ASSUME NEW p \in Procs, Authorize(p) PROVE AckedInv'
  BY <1>1, <1>2, <1>6 DEF Authorize, row, table, ghosts
<1>7. ASSUME NEW p \in Procs, CountFiles(p) PROVE AckedInv'
  BY <1>1, <1>2, <1>7 DEF CountFiles, row, table, ghosts
<1>8. ASSUME NEW p \in Procs, InsertFile(p) PROVE AckedInv'
  <2>1. CASE Fail(p)
    BY <2>1, <1>2
  <2>2. CASE ~Fail(p)
    <3>1. PICK r : r = [id |-> inserted + 1, type |-> type[p], index |-> index[p], after |-> after[p]]
      OBVIOUS
    <3>2. /\ inserted' = inserted + 1 /\ file' = [file EXCEPT ![p] = r]
          /\ files' = files \cup {file'[p]} /\ exists' = exists /\ acked' = acked
      BY <1>8, <2>2, <3>1 DEF InsertFile, row
    <3>3. file'[p] = r /\ r.id = inserted + 1
      BY <3>1, <3>2 DEF TypeInv, TypeOK
    <3>4. r.id # 0 /\ r.id \notin acked
      BY <1>0, <3>3
    <3>5. \A i \in acked' : i <= inserted'
      BY <1>0, <3>2
    <3> QED
      BY <3>2, <3>3, <3>4, <3>5
  <2> QED
    BY <2>1, <2>2
<1>9. ASSUME NEW p \in Procs, UpdateFile(p) PROVE AckedInv'
  BY <1>1, <1>2, <1>9 DEF UpdateFile, row, table
<1>10. ASSUME NEW p \in Procs, DeleteFile(p) PROVE AckedInv'
  BY <1>1, <1>2, <1>10 DEF DeleteFile, Remove, row
<1>11. ASSUME NEW p \in Procs, UpdateRow(p) PROVE AckedInv'
  BY <1>1, <1>2, <1>11 DEF UpdateRow, table
<1>12. ASSUME NEW p \in Procs, ReadBack(p) PROVE AckedInv'
  <2>1. CASE Fail(p)
    BY <2>1, <1>2
  <2>2. CASE ~Fail(p)
    <3>1. /\ exists /\ exists' = exists /\ inserted' = inserted
          /\ acked' \subseteq acked \cup {file[p].id}
      BY <1>12, <2>2 DEF ReadBack, row, table
    <3> QED
      BY <1>0, <3>1
  <2> QED
    BY <2>1, <2>2
<1>13. ASSUME NEW p \in Procs, GetProject(p) PROVE AckedInv'
  BY <1>1, <1>2, <1>13 DEF GetProject, row, table, ghosts
<1>14. ASSUME NEW p \in Procs, DeleteProject(p) PROVE AckedInv'
  <2>1. CASE Fail(p)
    BY <2>1, <1>2
  <2>2. CASE ~Fail(p)
    BY <1>14, <2>2 DEF DeleteProject, Remove, ghosts
  <2> QED
    BY <2>1, <2>2
<1>15. ASSUME NEW p \in Procs, Run(p) PROVE AckedInv'
  BY <1>1, <1>2, <1>15 DEF Run, row, table
<1>16. ASSUME NEW p \in Procs, FindProject(p) PROVE AckedInv'
  BY <1>1, <1>2, <1>16 DEF FindProject, row, table, ghosts
<1>17. ASSUME NEW p \in Procs, SaveProject(p) PROVE AckedInv'
  BY <1>2, <1>17 DEF SaveProject, table
<1>18. ASSUME NEW p \in Procs, ReadFile(p) PROVE AckedInv'
  BY <1>1, <1>2, <1>18 DEF ReadFile, row, table, ghosts
<1> QED
  BY <1>3, <1>4, <1>5, <1>6, <1>7, <1>8, <1>9, <1>10, <1>11, <1>12, <1>13, <1>14, <1>15, <1>16,
     <1>17, <1>18 DEF Next

-----------------------------------------------------------------------------
(* Theorems *)

\* The inductive invariant.
LEMMA FilesInvariant == Spec => []FilesInv
<1>1. Init => FilesInv
  <2> SUFFICES ASSUME Init PROVE FilesInv
    OBVIOUS
  <2>1. TouchedInv
    BY DEF Init, TouchedInv
  <2>2. TitleInv
    BY DEF Init, TitleInv, TitleKept
  <2>3. AckedInv
    BY DEF Init, AckedInv, OrphansFailed
  <2> QED
    BY <2>1, <2>2, <2>3, TypeInit, OrderInit DEF FilesInv
<1>2. FilesInv /\ [Next]_vars => FilesInv'
  BY TypeStep, TouchedStep, TitleStep, OrderStep, AckedStep DEF FilesInv, OrderInv
<1> QED
  BY <1>1, <1>2, PTL DEF Spec

\* Every variable keeps its type, for any requests, types of files, templates and titles.
THEOREM FilesTypeCorrect == Spec => []TypeOK
BY FilesInvariant, PTL DEF FilesInv, TypeInv

\* A file counted for when another was there comes after it, or as many places earlier as files
\* of its type were deleted (src/storage/sql.go:352).
THEOREM FilesInOrder == Spec => []NewFilesAfterOld
BY FilesInvariant, PTL DEF FilesInv, OrderInv

\* What is left of a deleted project is only files whose creation was answered with an error
\* (src/controller/files.go:74).
THEOREM OnlyFailedOrphans == Spec => []OrphansFailed
BY FilesInvariant, PTL DEF FilesInv, AckedInv

\* A success is answered after the updated_at of the project has moved past the change
\* (src/controller/files.go:96), unless an execution has inserted the deleted project again.
THEOREM SuccessIsTouched == Spec => []TouchedBeforeSuccess
<1>1. FilesInv => TouchedBeforeSuccess
  BY DEF FilesInv, TouchedInv, TouchedBeforeSuccess
<1> QED
  BY <1>1, FilesInvariant, PTL

\* No step but the save of an execution that read the row before loses the title a user set
\* (src/storage/sql.go:455).
THEOREM TitleNotLost == Spec => []TitleKept
BY FilesInvariant, PTL DEF FilesInv, TitleInv
=============================================================================
