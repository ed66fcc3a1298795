-------------------------------- MODULE Store --------------------------------
(***************************************************************************)
(* The rows of one project in the database (src/storage/sql.go), and the   *)
(* requests that change them: the project itself with its count of         *)
(* transaction executions, the executions, each with a block height and    *)
(* the index it is listed by, and the contract deployments.                *)
(*                                                                         *)
(* A process is one request at one replica.  A step is one query or one    *)
(* database transaction: requests interleave between them.  The emulator   *)
(* is seen through the height it has after a load; how a load gives the    *)
(* emulator that height is module Projects.                                *)
(***************************************************************************)
EXTENDS Integers, FiniteSets

CONSTANTS
  Procs,       \* requests that may be in progress at once
  InitHeight,  \* height of a bootstrapped emulator
  MaxHeight,   \* bound on the height of a block
  Ops,         \* operations the users call
  Faults       \* what may fail: subset of FaultKinds

Writers == {"ExecuteTransaction", "DeployContract"}
Readers == {"ExecuteScript"}
Locked  == Writers \cup Readers
Others  == {"DeleteProject", "Reset"}

FaultKinds == {"load", "write", "script"}

ASSUME StoreAssumption ==
  /\ InitHeight \in Nat
  /\ MaxHeight \in Nat
  /\ Ops \subseteq Locked \cup Others
  /\ Faults \subseteq FaultKinds

VARIABLES
  exists,       \* the project is in the database
  count,        \* its transactionExecutionCount
  executions,   \* transaction executions
  deployments,  \* heights of the contract deployments
  pc,           \* next step of each request
  op,           \* operation of each request
  height,       \* height of its emulator, or of the deployment it found
  found,        \* the count it read
  retried,      \* its load has already reset the project once
  again         \* it has rolled back

rows == <<exists, count, executions, deployments>>
vars == <<exists, count, executions, deployments, pc, op, height, found, retried, again>>

Steps == {"idle", "waiting", "load", "find", "reset", "delete", "run", "truncate", "record", "save"}

Executions == [height : Int, index : Int]

TypeOK ==
  /\ exists \in BOOLEAN
  /\ count \in Int
  /\ executions \in SUBSET Executions
  /\ deployments \in SUBSET Int
  /\ pc \in [Procs -> Steps]
  /\ op \in [Procs -> Locked \cup Others \cup {"none"}]
  /\ height \in [Procs -> Int]
  /\ found \in [Procs -> Int]
  /\ retried \in [Procs -> BOOLEAN]
  /\ again \in [Procs -> BOOLEAN]

\* A project that was just created.
Init ==
  /\ exists = TRUE
  /\ count = 0
  /\ executions = {}
  /\ deployments = {}
  /\ pc = [p \in Procs |-> "idle"]
  /\ op = [p \in Procs |-> "none"]
  /\ height = [p \in Procs |-> 0]
  /\ found = [p \in Procs |-> 0]
  /\ retried = [p \in Procs |-> FALSE]
  /\ again = [p \in Procs |-> FALSE]

\* Heights of the blocks that have a row.
Heights == {e.height : e \in executions} \cup deployments

\* The rows number the blocks up to a height without a gap.
FilledTo(h) == h >= InitHeight /\ Heights = (InitHeight + 1)..h

-----------------------------------------------------------------------------
(* Control *)

Goto(p, step) == pc' = [pc EXCEPT ![p] = step]

\* The request is answered, with a result or with an error, and releases its lock.
Return(p) ==
  /\ Goto(p, "idle")
  /\ op' = [op EXCEPT ![p] = "none"]
  /\ height' = [height EXCEPT ![p] = 0]
  /\ found' = [found EXCEPT ![p] = 0]
  /\ retried' = [retried EXCEPT ![p] = FALSE]
  /\ again' = [again EXCEPT ![p] = FALSE]

\* authorize reads the project: a request for one that is gone is refused at once.
Request(p) ==
  /\ pc[p] = "idle"
  /\ exists
  /\ \E o \in Ops :
       /\ op' = [op EXCEPT ![p] = o]
       /\ Goto(p, IF o \in Locked THEN "waiting" ELSE "find")
  /\ UNCHANGED <<rows, height, found, retried, again>>

\* The request has the lock of the project.
Holding(p) == pc[p] \notin {"idle", "waiting"} /\ op[p] \in Locked

Acquire(p) ==
  /\ pc[p] = "waiting"
  /\ \A q \in Procs \ {p} : Holding(q) => (op[p] \in Readers /\ op[q] \in Readers)
  /\ Goto(p, "load")
  /\ UNCHANGED <<rows, op, height, found, retried, again>>

-----------------------------------------------------------------------------
(* load, seen from the database *)

\* The emulator is brought up to the last row.
Load(p) ==
  /\ pc[p] = "load"
  /\ \E h \in InitHeight..MaxHeight : FilledTo(h) /\ height' = [height EXCEPT ![p] = h]
  /\ Goto(p, "run")
  /\ UNCHANGED <<rows, op, found, retried, again>>

\* The first load that fails, for want of a row or otherwise, goes on to reset the project; the
\* second one ends the request.
LoadFails(p) ==
  /\ pc[p] = "load"
  /\ "load" \in Faults \/ \A h \in InitHeight..MaxHeight : ~FilledTo(h)
  /\ \/ /\ retried[p]
        /\ Return(p)
     \/ /\ ~retried[p]
        /\ Goto(p, "find")
        /\ UNCHANGED <<op, height, found, retried, again>>
  /\ UNCHANGED rows

-----------------------------------------------------------------------------
(* Reset and DeleteProject *)

\* Both read the project first, and so does the reset of a load.
GetProject(p) ==
  /\ pc[p] = "find"
  /\ \/ /\ ~exists
        /\ Return(p)
     \/ /\ exists
        /\ Goto(p, IF op[p] = "DeleteProject" THEN "delete" ELSE "reset")
        /\ UNCHANGED <<op, height, found, retried, again>>
  /\ UNCHANGED rows

\* An update of a project that is gone updates no row.
SetCount(n) == count' = IF exists THEN n ELSE count

ResetProjectState(p) ==
  /\ pc[p] = "reset"
  /\ executions' = {}
  /\ deployments' = {}
  /\ SetCount(0)
  /\ UNCHANGED exists
  /\ IF op[p] = "Reset"
       THEN Return(p)
       ELSE /\ Goto(p, "load")
            /\ retried' = [retried EXCEPT ![p] = TRUE]
            /\ UNCHANGED <<op, height, found, again>>

DeleteProject(p) ==
  /\ pc[p] = "delete"
  /\ exists' = FALSE
  /\ count' = 0
  /\ executions' = {}
  /\ deployments' = {}
  /\ Return(p)

-----------------------------------------------------------------------------
(* The operations, once loaded *)

ExecuteScript(p) ==
  /\ pc[p] = "run" /\ op[p] = "ExecuteScript"
  /\ Return(p)
  /\ UNCHANGED rows

\* A transaction, or a deployment of a contract the emulator does not have, adds a block.
AddBlock(p) ==
  /\ pc[p] = "run" /\ op[p] \in Writers
  /\ height[p] < MaxHeight
  /\ Goto(p, "record")
  /\ height' = [height EXCEPT ![p] = @ + 1]
  /\ UNCHANGED <<rows, op, found, retried, again>>

\* The contract is there: its deployment gives the height to roll back to, 0 when it has no row.
FindDeployment(p) ==
  /\ pc[p] = "run" /\ op[p] = "DeployContract" /\ ~again[p]
  /\ Goto(p, "truncate")
  /\ \E h \in deployments \cup {0} : height' = [height EXCEPT ![p] = h]
  /\ UNCHANGED <<rows, op, found, retried, again>>

\* Mutant of Truncate: the count starts over.
TruncateAndRestart(p) ==
  /\ pc[p] = "truncate"
  /\ executions' = {e \in executions : e.height < height[p]}
  /\ deployments' = {h \in deployments : h < height[p]}
  /\ SetCount(0)
  /\ UNCHANGED exists
  /\ Goto(p, "load")
  /\ retried' = [retried EXCEPT ![p] = FALSE]
  /\ again' = [again EXCEPT ![p] = TRUE]
  /\ UNCHANGED <<op, height, found>>

\* TruncateDeploymentsAndExecutionsAtBlockHeight, and the project is loaded again.
Truncate(p) ==
  /\ pc[p] = "truncate"
  /\ executions' = {e \in executions : e.height < height[p]}
  /\ deployments' = {h \in deployments : h < height[p]}
  /\ SetCount(height[p] - 1)
  /\ UNCHANGED exists
  /\ Goto(p, "load")
  /\ retried' = [retried EXCEPT ![p] = FALSE]
  /\ again' = [again EXCEPT ![p] = TRUE]
  /\ UNCHANGED <<op, height, found>>

InsertContractDeployment(p) ==
  /\ pc[p] = "record" /\ op[p] = "DeployContract"
  /\ deployments' = deployments \cup {height[p]}
  /\ Return(p)
  /\ UNCHANGED <<exists, count, executions>>

\* InsertTransactionExecution reads the project outside of its database transaction.
FindProject(p) ==
  /\ pc[p] = "record" /\ op[p] = "ExecuteTransaction"
  /\ \/ /\ ~exists
        /\ Return(p)
     \/ /\ exists
        /\ Goto(p, "save")
        /\ found' = [found EXCEPT ![p] = count]
        /\ UNCHANGED <<op, height, retried, again>>
  /\ UNCHANGED rows

\* Mutant of SaveExecution: the count is not increased.
SaveExecutionOnly(p) ==
  /\ pc[p] = "save"
  /\ exists' = TRUE
  /\ count' = found[p]
  /\ executions' = executions \cup {[height |-> height[p], index |-> found[p]]}
  /\ UNCHANGED deployments
  /\ Return(p)

\* The project as it was read is saved whole, which inserts it if it was deleted in between.
SaveExecution(p) ==
  /\ pc[p] = "save"
  /\ exists' = TRUE
  /\ count' = found[p] + 1
  /\ executions' = executions \cup {[height |-> height[p], index |-> found[p]]}
  /\ UNCHANGED deployments
  /\ Return(p)

\* A query, a deletion, an insertion or a script fails, and the request with it.
Fails(p) ==
  /\ \/ "write" \in Faults /\ pc[p] \in {"find", "reset", "delete", "truncate", "record", "save"}
     \/ "script" \in Faults /\ pc[p] = "run"
     \/ pc[p] = "save" /\ ~exists
  /\ Return(p)
  /\ UNCHANGED rows

-----------------------------------------------------------------------------
Proceed(p) ==
  \/ Load(p) \/ LoadFails(p)
  \/ GetProject(p) \/ ResetProjectState(p) \/ DeleteProject(p)
  \/ ExecuteScript(p) \/ AddBlock(p) \/ FindDeployment(p) \/ Truncate(p)
  \/ InsertContractDeployment(p) \/ FindProject(p) \/ SaveExecution(p)
  \/ Fails(p)

Next == \E p \in Procs : Request(p) \/ Acquire(p) \/ Proceed(p)

Spec == Init /\ [][Next]_vars

-----------------------------------------------------------------------------
(* Properties *)

\* Transaction executions are listed by index: that is the order their blocks ran in, although a
\* rollback sets the count to a block height, and the project is read before the transaction
\* that saves it.
ListedInOrder ==
  \A e, f \in executions : e.height < f.height <=> e.index < f.index

-----------------------------------------------------------------------------
(* What ListedInOrder rests on *)

\* The lock: a writer that holds it is alone.
LockInv ==
  \A p \in Procs :
    /\ op[p] \in Ops \cup {"none"}
    /\ pc[p] \in {"waiting", "load", "run"} => op[p] \in Locked
    /\ pc[p] \in {"truncate", "record", "save"} => op[p] \in Writers
    /\ pc[p] = "find" => op[p] \in Locked \cup Others
    /\ pc[p] = "reset" => op[p] \in Locked \cup {"Reset"}
    /\ \A q \in Procs \ {p} : (Holding(p) /\ Holding(q)) => (op[p] \in Readers /\ op[q] \in Readers)

\* An index is below its block's height and below the count, and the count is no more than the
\* height of the last block.
IndexInv ==
  /\ executions # {} => exists
  /\ ~exists => count = 0
  /\ \A e \in executions : e.index < e.height /\ e.index < count
  /\ count <= InitHeight \/ \E h \in Heights : count <= h

\* The project was deleted after the writer loaded it.
Deleted == ~exists /\ Heights = {}

\* A writer that has loaded is at the last row, then above every row.
WriterInv(p) ==
  /\ (pc[p] = "run" /\ op[p] \in Writers) =>
       height[p] \in InitHeight..MaxHeight /\ (Deleted \/ FilledTo(height[p]))
  /\ pc[p] = "truncate" =>
       Deleted \/ \E h \in InitHeight..MaxHeight : FilledTo(h) /\ height[p] <= h
  /\ pc[p] \in {"record", "save"} =>
       height[p] > InitHeight /\ \A h \in Heights : h < height[p]
  /\ pc[p] = "save" =>
       found[p] < height[p] /\ \A e \in executions : e.index < found[p]

StoreInv ==
  /\ TypeOK
  /\ LockInv
  /\ IndexInv
  /\ \A p \in Procs : WriterInv(p)
  /\ ListedInOrder
=============================================================================
