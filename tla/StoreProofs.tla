----------------------------- MODULE StoreProofs -----------------------------
(***************************************************************************)
(* Transaction executions are listed in the order they ran, for any number *)
(* of requests and blocks and whatever fails, as long as no user resets    *)
(* the project while it is used.                                           *)
(***************************************************************************)
EXTENDS Store, TLAPS

LEMMA StoreInvInit == Init => StoreInv
<1> SUFFICES ASSUME Init PROVE StoreInv
  OBVIOUS
<1> USE StoreAssumption DEF Init
<1>1. TypeOK
  BY DEF TypeOK, Steps, Executions
<1>2. LockInv
  BY DEF LockInv, Holding
<1>3. IndexInv
  BY DEF IndexInv
<1>4. \A p \in Procs : WriterInv(p)
  BY DEF WriterInv
<1>5. ListedInOrder
  BY DEF ListedInOrder
<1> QED
  BY <1>1, <1>2, <1>3, <1>4, <1>5 DEF StoreInv

\* A request that ends keeps the types of what requests remember.
LEMMA ReturnTypes ==
  ASSUME TypeOK, NEW p \in Procs, Return(p)
  PROVE  /\ pc' \in [Procs -> Steps]
         /\ op' \in [Procs -> Locked \cup Others \cup {"none"}]
         /\ height' \in [Procs -> Int] /\ found' \in [Procs -> Int]
         /\ retried' \in [Procs -> BOOLEAN] /\ again' \in [Procs -> BOOLEAN]
BY DEF TypeOK, Return, Goto, Steps

\* Type correctness is preserved by the steps of every request.
LEMMA TypeStep ==
  ASSUME TypeOK, NEW p \in Procs, Request(p) \/ Acquire(p) \/ Proceed(p)
  PROVE  TypeOK'
<1> USE StoreAssumption DEF TypeOK, rows, Goto, Steps, Locked, Writers, Readers, Others
<1>1. CASE Request(p)
  BY <1>1 DEF Request
<1>2. CASE Acquire(p)
  BY <1>2 DEF Acquire
<1>3. CASE Load(p)
  BY <1>3 DEF Load
<1>4. CASE LoadFails(p)
  <2>1. CASE retried[p]
    BY <1>4, <2>1, ReturnTypes DEF LoadFails
  <2>2. CASE ~retried[p]
    BY <1>4, <2>2 DEF LoadFails
  <2> QED
    BY <2>1, <2>2
<1>5. CASE GetProject(p)
  <2>1. CASE ~exists
    BY <1>5, <2>1, ReturnTypes DEF GetProject
  <2>2. CASE exists
    BY <1>5, <2>2 DEF GetProject
  <2> QED
    BY <2>1, <2>2
<1>6. CASE ResetProjectState(p)
  <2>1. CASE op[p] = "Reset"
    BY <1>6, <2>1, ReturnTypes DEF ResetProjectState, SetCount
  <2>2. CASE op[p] # "Reset"
    <3>1. count' \in Int /\ executions' \subseteq Executions /\ deployments' \subseteq Int /\ exists' = exists
      BY <1>6 DEF ResetProjectState, SetCount
    <3>2. pc' \in [Procs -> Steps] /\ retried' \in [Procs -> BOOLEAN]
      BY <1>6, <2>2 DEF ResetProjectState
    <3> QED
      BY <1>6, <2>2, <3>1, <3>2 DEF ResetProjectState
  <2> QED
    BY <2>1, <2>2
<1>7. CASE DeleteProject(p)
  <2>1. count' \in Int /\ executions' \subseteq Executions /\ deployments' \subseteq Int /\ exists' = FALSE
    BY <1>7 DEF DeleteProject
  <2> QED
    BY <1>7, <2>1, ReturnTypes DEF DeleteProject
<1>8. CASE ExecuteScript(p)
  BY <1>8, ReturnTypes DEF ExecuteScript
<1>9. CASE AddBlock(p)
  BY <1>9 DEF AddBlock
<1>10. CASE FindDeployment(p)
  BY <1>10 DEF FindDeployment
<1>11. CASE Truncate(p)
  <2>1. count' \in Int
    BY <1>11 DEF Truncate, SetCount
  <2>2. executions' \subseteq Executions /\ deployments' \subseteq Int /\ exists' = exists
    BY <1>11 DEF Truncate
  <2>3. /\ pc' \in [Procs -> Steps]
        /\ retried' \in [Procs -> BOOLEAN] /\ again' \in [Procs -> BOOLEAN]
    BY <1>11 DEF Truncate
  <2> QED
    BY <1>11, <2>1, <2>2, <2>3 DEF Truncate
<1>12. CASE InsertContractDeployment(p)
  BY ZenonT(40), <1>12, ReturnTypes DEF InsertContractDeployment
<1>13. CASE FindProject(p)
  <2>1. CASE ~exists
    BY <1>13, <2>1, ReturnTypes DEF FindProject
  <2>2. CASE exists
    BY <1>13, <2>2 DEF FindProject
  <2> QED
    BY <2>1, <2>2
<1>14. CASE SaveExecution(p)
  <2>1. [height |-> height[p], index |-> found[p]] \in Executions
    BY DEF Executions
  <2> QED
    BY <1>14, <2>1, ReturnTypes DEF SaveExecution
<1>15. CASE Fails(p)
  BY <1>15, ReturnTypes DEF Fails
<1> QED
  BY <1>1, <1>2, <1>3, <1>4, <1>5, <1>6, <1>7, <1>8, <1>9, <1>10, <1>11, <1>12, <1>13, <1>14, <1>15
     DEF Proceed

\* A request that does not acquire the lock leaves the lock to those that had it.
LEMMA LockStep ==
  ASSUME TypeOK, LockInv, NEW p \in Procs, Request(p) \/ Acquire(p) \/ Proceed(p)
  PROVE  LockInv'
<1> USE DEF TypeOK, LockInv, Holding, rows, Goto, Return, Locked, Writers, Readers, Others
<1>1. CASE Request(p)
  BY <1>1, StoreAssumption DEF Request
<1>2. CASE Acquire(p)
  BY <1>2 DEF Acquire
<1>3. CASE Load(p)
  BY <1>3 DEF Load
<1>4. CASE LoadFails(p)
  BY <1>4 DEF LoadFails
<1>5. CASE GetProject(p)
  BY <1>5 DEF GetProject
<1>6. CASE ResetProjectState(p)
  BY <1>6 DEF ResetProjectState
<1>7. CASE DeleteProject(p)
  BY <1>7 DEF DeleteProject
<1>8. CASE ExecuteScript(p)
  BY <1>8 DEF ExecuteScript
<1>9. CASE AddBlock(p)
  BY <1>9 DEF AddBlock
<1>10. CASE FindDeployment(p)
  BY <1>10 DEF FindDeployment
<1>11. CASE Truncate(p)
  BY <1>11 DEF Truncate
<1>12. CASE InsertContractDeployment(p)
  BY <1>12 DEF InsertContractDeployment
<1>13. CASE FindProject(p)
  BY <1>13 DEF FindProject
<1>14. CASE SaveExecution(p)
  BY <1>14 DEF SaveExecution
<1>15. CASE Fails(p)
  BY <1>15 DEF Fails
<1> QED
  BY <1>1, <1>2, <1>3, <1>4, <1>5, <1>6, <1>7, <1>8, <1>9, <1>10, <1>11, <1>12, <1>13, <1>14, <1>15
     DEF Proceed

-----------------------------------------------------------------------------
\* What a step of p leaves alone.
OthersStay(p) ==
  \A q \in Procs \ {p} : /\ pc'[q] = pc[q] /\ op'[q] = op[q]
                         /\ height'[q] = height[q] /\ found'[q] = found[q]

LEMMA OthersStayStep ==
  ASSUME TypeOK, NEW p \in Procs, Request(p) \/ Acquire(p) \/ Proceed(p)
  PROVE  OthersStay(p)
<1> USE DEF TypeOK, OthersStay, rows, Goto, Return
<1>1. CASE Request(p) \/ Acquire(p)
  BY <1>1 DEF Request, Acquire
<1>2. CASE Load(p) \/ LoadFails(p)
  BY <1>2 DEF Load, LoadFails
<1>3. CASE GetProject(p) \/ DeleteProject(p)
  BY <1>3 DEF GetProject, DeleteProject
<1>4. CASE ResetProjectState(p)
  BY <1>4 DEF ResetProjectState
<1>5. CASE ExecuteScript(p) \/ AddBlock(p) \/ FindDeployment(p) \/ Truncate(p)
  BY <1>5 DEF ExecuteScript, AddBlock, FindDeployment, Truncate
<1>6. CASE InsertContractDeployment(p) \/ FindProject(p)
  BY <1>6 DEF InsertContractDeployment, FindProject
<1>7. CASE SaveExecution(p) \/ Fails(p)
  BY <1>7 DEF SaveExecution, Fails
<1> QED
  BY <1>1, <1>2, <1>3, <1>4, <1>5, <1>6, <1>7 DEF Proceed

\* While a request that loads has the lock, no other writer is past its load.
LEMMA WriterAlone ==
  ASSUME LockInv, NEW p \in Procs, Holding(p), NEW q \in Procs \ {p}
  PROVE  /\ pc[q] \notin {"truncate", "record", "save"}
         /\ ~(pc[q] = "run" /\ op[q] \in Writers)
BY DEF LockInv, Holding, Locked, Writers, Readers

\* The part of the invariant that a step of p keeps when it leaves the rows alone.
LEMMA RowsStay ==
  ASSUME StoreInv, NEW p \in Procs, OthersStay(p), UNCHANGED rows, WriterInv(p)'
  PROVE  IndexInv' /\ ListedInOrder' /\ \A q \in Procs : WriterInv(q)'
<1>1. UNCHANGED <<exists, count, executions, deployments, Heights>>
  BY DEF rows, Heights
<1>2. IndexInv' /\ ListedInOrder'
  BY <1>1 DEF StoreInv, IndexInv, ListedInOrder
<1>3. ASSUME NEW q \in Procs \ {p} PROVE WriterInv(q)'
  <2>1. WriterInv(q)
    BY <1>3 DEF StoreInv
  <2> QED
    BY <1>1, <1>3, <2>1 DEF WriterInv, Deleted, FilledTo, OthersStay
<1> QED
  BY <1>2, <1>3

\* The steps that leave the rows alone.
LEMMA CallStep ==
  ASSUME StoreInv, NEW p \in Procs, OthersStay(p),
         \/ Request(p) \/ Acquire(p) \/ Load(p) \/ LoadFails(p) \/ GetProject(p) \/ ExecuteScript(p)
         \/ AddBlock(p) \/ FindDeployment(p) \/ FindProject(p) \/ Fails(p)
  PROVE  IndexInv' /\ ListedInOrder' /\ \A q \in Procs : WriterInv(q)'
<1> USE DEF StoreInv, TypeOK, Goto, Return
<1>1. CASE Request(p) \/ Acquire(p)
  <2>1. pc'[p] \in {"waiting", "find", "load"} /\ UNCHANGED rows
    BY <1>1 DEF Request, Acquire
  <2> QED
    BY <2>1, RowsStay DEF WriterInv
<1>2. CASE LoadFails(p) \/ GetProject(p)
  <2>1. pc'[p] \in {"idle", "find", "delete", "reset"} /\ UNCHANGED rows
    BY <1>2 DEF LoadFails, GetProject
  <2> QED
    BY <2>1, RowsStay DEF WriterInv
<1>3. CASE ExecuteScript(p) \/ Fails(p)
  <2>1. pc'[p] = "idle" /\ UNCHANGED rows
    BY <1>3 DEF ExecuteScript, Fails
  <2> QED
    BY <2>1, RowsStay DEF WriterInv
<1>4. CASE Load(p)
  <2>1. UNCHANGED rows /\ pc'[p] = "run"
    BY <1>4 DEF Load
  <2>2. PICK h \in InitHeight..MaxHeight : FilledTo(h) /\ height' = [height EXCEPT ![p] = h]
    BY <1>4 DEF Load
  <2>3. height'[p] = h /\ Heights' = Heights
    BY <2>1, <2>2 DEF Heights, rows
  <2>4. height'[p] \in InitHeight..MaxHeight /\ FilledTo(height[p])'
    BY <2>2, <2>3 DEF FilledTo
  <2> QED
    BY <2>1, <2>4, RowsStay DEF WriterInv
<1>5. CASE AddBlock(p)
  <2>1. /\ UNCHANGED rows /\ pc'[p] = "record" /\ height'[p] = height[p] + 1
        /\ height[p] \in InitHeight..MaxHeight /\ (Deleted \/ FilledTo(height[p]))
    BY <1>5 DEF AddBlock, WriterInv
  <2>2. \A h \in Heights : h <= height[p]
    BY <2>1, StoreAssumption DEF Deleted, FilledTo
  <2>3. Heights' = Heights /\ \A h \in Heights : h \in Int
    BY <2>1 DEF rows, Heights, Executions
  <2>4. height'[p] > InitHeight /\ \A h \in Heights' : h < height'[p]
    BY <2>1, <2>2, <2>3, StoreAssumption
  <2> QED
    BY <2>1, <2>4, RowsStay DEF WriterInv
<1>6. CASE FindDeployment(p)
  <2>1. /\ UNCHANGED rows /\ pc'[p] = "truncate" /\ height'[p] \in deployments \cup {0}
        /\ height[p] \in InitHeight..MaxHeight /\ (Deleted \/ FilledTo(height[p]))
    BY <1>6 DEF FindDeployment, WriterInv, Writers
  <2>2. CASE Deleted
    BY <2>1, <2>2, RowsStay DEF WriterInv, Deleted, Heights, rows
  <2>3. CASE FilledTo(height[p])
    <3>1. height'[p] <= height[p]
      BY <2>1, <2>3, StoreAssumption DEF FilledTo, Heights
    <3>2. Heights' = Heights
      BY <2>1 DEF Heights, rows
    <3>3. \E h \in InitHeight..MaxHeight : FilledTo(h)' /\ height'[p] <= h
      BY <2>1, <2>3, <3>1, <3>2 DEF FilledTo
    <3> QED
      BY <2>1, <3>3, RowsStay DEF WriterInv
  <2> QED
    BY <2>1, <2>2, <2>3
<1>7. CASE FindProject(p)
  <2>1. CASE ~exists
    <3>1. UNCHANGED rows /\ pc'[p] = "idle"
      BY <1>7, <2>1 DEF FindProject
    <3> QED
      BY <3>1, RowsStay DEF WriterInv
  <2>2. CASE exists
    <3>1. UNCHANGED rows /\ pc'[p] = "save" /\ found'[p] = count /\ height'[p] = height[p]
      BY <1>7, <2>2 DEF FindProject
    <3>2. height[p] > InitHeight /\ \A h \in Heights : h < height[p]
      BY <1>7 DEF FindProject, WriterInv
    <3>3. count < height[p]
      <4>1. \A h \in Heights : h \in Int
        BY DEF Heights, Executions
      <4> QED
        BY <3>2, <4>1, StoreAssumption DEF IndexInv
    <3> QED
      BY <3>1, <3>2, <3>3, RowsStay DEF WriterInv, IndexInv, rows, Heights
  <2> QED
    BY <2>1, <2>2
<1> QED
  BY <1>1, <1>2, <1>3, <1>4, <1>5, <1>6, <1>7

-----------------------------------------------------------------------------
\* The steps that change the rows.

\* A load resets the project under the lock of its request, so no writer counts on the rows.
LEMMA ResetStep ==
  ASSUME StoreInv, "Reset" \notin Ops, NEW p \in Procs, OthersStay(p), ResetProjectState(p)
  PROVE  IndexInv' /\ ListedInOrder' /\ \A q \in Procs : WriterInv(q)'
<1>1. op[p] \in Locked /\ pc[p] = "reset" /\ Holding(p)
  BY DEF StoreInv, LockInv, ResetProjectState, Holding
<1>2. pc'[p] = "load" /\ executions' = {} /\ Heights' = {} /\ exists' = exists /\ (exists => count' = 0)
      /\ (~exists => count' = count)
  BY <1>1 DEF StoreInv, TypeOK, ResetProjectState, SetCount, Heights, Goto, Locked, Writers, Readers
<1>3. IndexInv' /\ ListedInOrder'
  BY <1>2, StoreAssumption DEF StoreInv, IndexInv, ListedInOrder
<1>4. ASSUME NEW q \in Procs PROVE WriterInv(q)'
  <2>1. CASE q = p
    BY <1>2, <2>1 DEF WriterInv
  <2>2. CASE q # p
    BY <1>1, <2>2, WriterAlone DEF StoreInv, WriterInv, OthersStay
  <2> QED
    BY <2>1, <2>2
<1> QED
  BY <1>3, <1>4

\* A deletion takes no lock: a writer goes on, with no row left to be in its way.
LEMMA DeleteStep ==
  ASSUME StoreInv, NEW p \in Procs, OthersStay(p), DeleteProject(p)
  PROVE  IndexInv' /\ ListedInOrder' /\ \A q \in Procs : WriterInv(q)'
<1>1. pc'[p] = "idle" /\ exists' = FALSE /\ count' = 0 /\ executions' = {} /\ Heights' = {}
  BY DEF StoreInv, TypeOK, DeleteProject, Heights, Goto, Return
<1>2. IndexInv' /\ ListedInOrder'
  BY <1>1, StoreAssumption DEF IndexInv, ListedInOrder
<1>3. ASSUME NEW q \in Procs PROVE WriterInv(q)'
  <2>1. CASE q = p
    BY <1>1, <2>1 DEF WriterInv
  <2>2. CASE q # p
    <3>1. WriterInv(q) /\ pc'[q] = pc[q] /\ op'[q] = op[q] /\ height'[q] = height[q] /\ found'[q] = found[q]
      BY <2>2 DEF StoreInv, OthersStay
    <3> QED
      BY <1>1, <3>1 DEF WriterInv, Deleted
  <2> QED
    BY <2>1, <2>2
<1> QED
  BY <1>2, <1>3

\* After a rollback the count is the height of the last block left, which no index reaches.
LEMMA TruncateStep ==
  ASSUME StoreInv, NEW p \in Procs, OthersStay(p), Truncate(p)
  PROVE  IndexInv' /\ ListedInOrder' /\ \A q \in Procs : WriterInv(q)'
<1> DEFINE at == height[p]
<1>1. Holding(p) /\ pc'[p] = "load" /\ exists' = exists
  BY DEF StoreInv, TypeOK, LockInv, Truncate, Holding, Goto, Locked
<1>2. /\ executions' = {e \in executions : e.height < at}
      /\ Heights' = {h \in Heights : h < at}
  BY DEF Truncate, Heights
<1>3. at \in Int /\ \A e \in executions : e.height \in Int /\ e.index \in Int /\ e.height \in Heights
  BY DEF StoreInv, TypeOK, Executions, Heights
<1>4. ListedInOrder'
  BY <1>2 DEF StoreInv, ListedInOrder
<1>5. IndexInv'
  <2>1. CASE ~exists
    <3>1. executions = {} /\ count' = count /\ count = 0
      BY <2>1 DEF StoreInv, IndexInv, Truncate, SetCount
    <3> QED
      BY <1>1, <1>2, <2>1, <3>1, StoreAssumption DEF IndexInv
  <2>2. CASE exists
    <3>1. count' = at - 1
      BY <2>2 DEF Truncate, SetCount
    <3>2. \A e \in executions' : e.index < e.height /\ e.index < count'
      BY <1>2, <1>3, <3>1 DEF StoreInv, IndexInv
    <3>3. PICK h \in InitHeight..MaxHeight : FilledTo(h) /\ at <= h
      BY <2>2 DEF StoreInv, WriterInv, Deleted, Truncate
    <3>4. at - 1 <= InitHeight \/ at - 1 \in Heights'
      BY <1>2, <1>3, <3>3, StoreAssumption DEF FilledTo
    <3>5. count' <= InitHeight \/ \E g \in Heights' : count' <= g
      BY <1>3, <3>1, <3>4, StoreAssumption
    <3> QED
      BY <1>1, <2>2, <3>2, <3>5 DEF IndexInv
  <2> QED
    BY <2>1, <2>2
<1>6. ASSUME NEW q \in Procs PROVE WriterInv(q)'
  <2>1. CASE q = p
    BY <1>1, <2>1 DEF WriterInv
  <2>2. CASE q # p
    BY <1>1, <2>2, WriterAlone DEF StoreInv, WriterInv, OthersStay
  <2> QED
    BY <2>1, <2>2
<1> QED
  BY <1>4, <1>5, <1>6

LEMMA InsertStep ==
  ASSUME StoreInv, NEW p \in Procs, OthersStay(p), InsertContractDeployment(p)
  PROVE  IndexInv' /\ ListedInOrder' /\ \A q \in Procs : WriterInv(q)'
<1>1. /\ Holding(p) /\ pc'[p] = "idle" /\ UNCHANGED <<exists, count, executions>>
      /\ Heights' = Heights \cup {height[p]}
  BY DEF StoreInv, TypeOK, InsertContractDeployment, Holding, Goto, Return, Heights, Locked, Writers
<1>2. IndexInv' /\ ListedInOrder'
  BY <1>1 DEF StoreInv, IndexInv, ListedInOrder
<1>3. ASSUME NEW q \in Procs PROVE WriterInv(q)'
  <2>1. CASE q = p
    BY <1>1, <2>1 DEF WriterInv
  <2>2. CASE q # p
    BY <1>1, <2>2, WriterAlone DEF StoreInv, WriterInv, OthersStay
  <2> QED
    BY <2>1, <2>2
<1> QED
  BY <1>2, <1>3

\* The index saved is above every index and below the height of the block.
LEMMA SaveStep ==
  ASSUME StoreInv, NEW p \in Procs, OthersStay(p), SaveExecution(p)
  PROVE  IndexInv' /\ ListedInOrder' /\ \A q \in Procs : WriterInv(q)'
<1> DEFINE new == [height |-> height[p], index |-> found[p]]
<1>1. /\ Holding(p) /\ pc'[p] = "idle" /\ exists' = TRUE /\ count' = found[p] + 1
      /\ executions' = executions \cup {new} /\ deployments' = deployments
  BY DEF StoreInv, TypeOK, LockInv, SaveExecution, Holding, Goto, Return, Locked
<1>2. /\ height[p] \in Int /\ found[p] \in Int
      /\ \A e \in executions : e.height \in Int /\ e.index \in Int /\ e.height \in Heights
  BY DEF StoreInv, TypeOK, Executions, Heights
<1>3. /\ found[p] < height[p]
      /\ \A e \in executions : e.index < found[p] /\ e.height < height[p]
  BY <1>2 DEF StoreInv, WriterInv, SaveExecution
<1>4. height[p] \in Heights'
  <2>1. new \in executions' /\ new.height = height[p]
    BY <1>1
  <2>2. \A e \in executions' : e.height \in Heights'
    BY DEF Heights
  <2> HIDE DEF new
  <2> QED
    BY <2>1, <2>2
<1>5. IndexInv'
  <2>1. \A e \in executions' : e.index < e.height /\ e.index < count'
    BY <1>1, <1>2, <1>3 DEF StoreInv, IndexInv
  <2>2. count' <= height[p]
    BY <1>1, <1>2, <1>3
  <2> QED
    BY <1>1, <1>4, <2>1, <2>2 DEF IndexInv
<1>6. ListedInOrder'
  <2> SUFFICES ASSUME NEW e \in executions', NEW f \in executions'
               PROVE  e.height < f.height <=> e.index < f.index
    BY DEF ListedInOrder
  <2>1. CASE e \in executions /\ f \in executions
    BY <2>1 DEF StoreInv, ListedInOrder
  <2>2. CASE e \in executions /\ f = new
    BY <1>2, <1>3, <2>2
  <2>3. CASE e = new /\ f \in executions
    BY <1>2, <1>3, <2>3
  <2>4. CASE e = new /\ f = new
    BY <1>2, <2>4
  <2> QED
    BY <1>1, <2>1, <2>2, <2>3, <2>4
<1>7. ASSUME NEW q \in Procs PROVE WriterInv(q)'
  <2>1. CASE q = p
    BY <1>1, <2>1 DEF WriterInv
  <2>2. CASE q # p
    BY <1>1, <2>2, WriterAlone DEF StoreInv, WriterInv, OthersStay
  <2> QED
    BY <2>1, <2>2
<1> QED
  BY <1>5, <1>6, <1>7

-----------------------------------------------------------------------------
\* The inductive invariant of the rows of a project, when no user resets it while it is used.
THEOREM StoreInvHolds ==
  ASSUME "Reset" \notin Ops
  PROVE  Spec => []StoreInv
<1>1. StoreInv /\ [Next]_vars => StoreInv'
  <2> SUFFICES ASSUME StoreInv, [Next]_vars PROVE StoreInv'
    OBVIOUS
  <2>1. CASE UNCHANGED vars
    BY <2>1 DEF vars, StoreInv, TypeOK, LockInv, Holding, IndexInv, Heights, WriterInv, Deleted,
                FilledTo, ListedInOrder
  <2>2. ASSUME NEW p \in Procs, Request(p) \/ Acquire(p) \/ Proceed(p)
        PROVE  StoreInv'
    <3>1. TypeOK' /\ LockInv' /\ OthersStay(p)
      BY <2>2, TypeStep, LockStep, OthersStayStep DEF StoreInv
    <3>2. IndexInv' /\ ListedInOrder' /\ \A q \in Procs : WriterInv(q)'
      <4>1. CASE ResetProjectState(p)
        BY <3>1, <4>1, ResetStep
      <4>2. CASE DeleteProject(p)
        BY <3>1, <4>2, DeleteStep
      <4>3. CASE Truncate(p)
        BY <3>1, <4>3, TruncateStep
      <4>4. CASE InsertContractDeployment(p)
        BY <3>1, <4>4, InsertStep
      <4>5. CASE SaveExecution(p)
        BY <3>1, <4>5, SaveStep
      <4> QED
        BY <2>2, <3>1, <4>1, <4>2, <4>3, <4>4, <4>5, CallStep DEF Proceed
    <3> QED
      BY <3>1, <3>2 DEF StoreInv
  <2> QED
    BY <2>1, <2>2 DEF Next
<1> QED
  BY <1>1, StoreInvInit, PTL DEF Spec

\* Transaction executions are listed in the order of their blocks (src/storage/sql.go:476-481),
\* although Truncate sets the count to a block height (src/storage/sql.go:494).
THEOREM ExecutionsListedInOrder ==
  ASSUME "Reset" \notin Ops
  PROVE  Spec => []ListedInOrder
<1>1. StoreInv => ListedInOrder
  BY DEF StoreInv
<1> QED
  BY <1>1, StoreInvHolds, PTL
=============================================================================
