--------------------------- MODULE ProjectsProofs ---------------------------
(***************************************************************************)
(* Theorems about Projects.                                                *)
(*                                                                         *)
(* For any constants: its variables keep their types, and a replay is      *)
(* never behind the height it counts.                                      *)
(*                                                                         *)
(* At one replica whose calls take the project's lock, whatever fails: Inv *)
(* is inductive, so the rows stay contiguous and a transaction or a        *)
(* deployment runs on an emulator that ran exactly the rows; and the rows  *)
(* are a history, which implements ProjectHistory and holds one deployment *)
(* of a contract at most.                                                  *)
(*                                                                         *)
(* When reads of the database do not fail, besides: no load resets the     *)
(* project, every call is served the rows, the readers that share an       *)
(* emulator too, no emulator runs a block twice, and only deploying a      *)
(* contract again removes rows.                                            *)
(*                                                                         *)
(* At any number of replicas whose calls take turns, with a database that  *)
(* answers and no contract deployed twice: TurnsInv is inductive, so every *)
(* call is served the rows whichever replica it reaches, the rows only     *)
(* grow, and they are a history.                                           *)
(***************************************************************************)
EXTENDS ProjectsInvariant, FiniteSetTheorems, SequenceTheorems, TLAPS

-----------------------------------------------------------------------------
(* Type correctness, for any replicas, calls, operations and failures. *)

TypeInv == TypeOK /\ CallInv

\* Forgetting the emulators nothing refers to keeps the chains well-typed.
LEMMA CollectType ==
  ASSUME NEW blocks \in [FlowKits -> Seq(Blocks)], Collect(blocks)
  PROVE  chain' \in [FlowKits -> Seq(Blocks)]
BY DEF Collect

\* So does a block sent to an emulator.
LEMMA MineType ==
  ASSUME TypeOK, NEW k \in FlowKits, NEW b \in Blocks
  PROVE  Mine(k, b) \in [FlowKits -> Seq(Blocks)]
BY DEF Mine, TypeOK

LEMMA TopType ==
  ASSUME TypeOK, NEW k \in FlowKits
  PROVE  Top(k) \in Nat
BY ConstantsAssumption DEF Top, TypeOK

LEMMA RowsAtType ==
  ASSUME NEW rows \in SUBSET Rows, NEW h, NEW r \in RowsAt(rows, h)
  PROVE  r \in rows /\ r.height = h /\ r.script \in Scripts /\ r.script \in Blocks
BY DEF RowsAt, TxRows, DeployRows, Rows, Blocks

LEMMA ReturnType ==
  ASSUME TypeInv, NEW p \in Procs, Return(p),
         log' \in SUBSET Rows, cache' \in [Replicas -> FlowKits \cup {NoKit}],
         chain' \in [FlowKits -> Seq(Blocks)]
  PROVE  TypeInv'
<1>1. TypeOK'
  BY DEF TypeInv, TypeOK, Return, Goto, Steps
<1>2. CallInv'
  BY DEF TypeInv, TypeOK, CallInv, Return, Goto
<1> QED
  BY <1>1, <1>2 DEF TypeInv

LEMMA LoadType ==
  ASSUME TypeInv, NEW p \in Procs, Load(p, FALSE) \/ Load(p, TRUE), UNCHANGED again \/ again' = [again EXCEPT ![p] = TRUE],
         log' \in SUBSET Rows, cache' \in [Replicas -> FlowKits \cup {NoKit}],
         chain' \in [FlowKits -> Seq(Blocks)]
  PROVE  TypeInv'
<1>1. PICK b \in BOOLEAN : Load(p, b)
  OBVIOUS
<1>2. again' \in [Procs -> BOOLEAN] /\ "readExecutions" \in Steps
  BY DEF TypeInv, TypeOK, Steps
<1>3. TypeOK'
  BY <1>1, <1>2 DEF TypeInv, TypeOK, Load, Goto
<1>4. CallInv'
  BY <1>1 DEF TypeInv, TypeOK, CallInv, Load, Goto
<1> QED
  BY <1>3, <1>4 DEF TypeInv

LEMMA FailLoadType ==
  ASSUME TypeInv, NEW p \in Procs, FailLoad(p), UNCHANGED log,
         cache' \in [Replicas -> FlowKits \cup {NoKit}],
         chain' \in [FlowKits -> Seq(Blocks)]
  PROVE  TypeInv'
<1>1. CASE Return(p)
  BY <1>1, ReturnType DEF TypeInv, TypeOK
<1>2. CASE /\ Goto(p, "reset")
           /\ seen' = [seen EXCEPT ![p] = {}]
           /\ kit' = [kit EXCEPT ![p] = NoKit]
           /\ height' = [height EXCEPT ![p] = 0]
           /\ UNCHANGED <<op, script, retried, again>>
  <2>1. TypeOK'
    BY <1>2 DEF TypeInv, TypeOK, Goto, Steps
  <2>2. CallInv'
    BY <1>2 DEF TypeInv, TypeOK, CallInv, Goto
  <2> QED
    BY <2>1, <2>2 DEF TypeInv
<1> QED
  BY <1>1, <1>2 DEF FailLoad

LEMMA LoadStepType ==
  ASSUME TypeInv, NEW p \in Procs, LoadStep(p)
  PROVE  TypeInv'
<1> USE ConstantsAssumption
<1>0. TypeOK
  BY DEF TypeInv
<1>1. CASE ReadExecutions(p)
  BY <1>1 DEF ReadExecutions, Goto, TypeInv, TypeOK, CallInv, TxRows, Steps
<1>2. CASE ReadDeployments(p)
  BY <1>2 DEF ReadDeployments, Goto, TypeInv, TypeOK, CallInv, DeployRows, Steps
<1>3. CASE UseCached(p)
  <2>1. cache[Home[p]] \in FlowKits
    BY <1>3 DEF UseCached, TypeInv, TypeOK
  <2>2. Top(cache[Home[p]]) \in Nat
    BY <2>1, <1>0, TopType
  <2> QED
    BY <1>3, <2>1, <2>2 DEF UseCached, Goto, TypeInv, TypeOK, CallInv, Steps
<1>4. CASE TakeNew(p)
  <2> DEFINE new == CHOOSE x \in Spare : TRUE
  <2>1. new \in FlowKits
    BY <1>4 DEF TakeNew, Spare
  <2>2. <<>> \in Seq(Blocks)
    OBVIOUS
  <2>3. [chain EXCEPT ![new] = <<>>] \in [FlowKits -> Seq(Blocks)]
    BY <2>1, <2>2, <1>0 DEF TypeOK
  <2>4. chain' \in [FlowKits -> Seq(Blocks)]
    BY <1>4, <2>3, CollectType DEF TakeNew
  <2> QED
    BY <1>4, <2>1, <2>4 DEF TakeNew, Goto, TypeInv, TypeOK, CallInv, Steps
<1>5. CASE RunMissingBlock(p)
  <2>1. PICK r \in RowsAt(seen[p], height[p] + 1) : chain' = Mine(kit[p], r.script)
    BY <1>5 DEF RunMissingBlock
  <2>2. kit[p] \in FlowKits /\ seen[p] \in SUBSET Rows
    BY <1>5 DEF RunMissingBlock, TypeInv, TypeOK, CallInv
  <2>3. chain' \in [FlowKits -> Seq(Blocks)]
    BY <2>1, <2>2, <1>0, RowsAtType, MineType
  <2> QED
    BY <1>5, <2>3 DEF RunMissingBlock, TypeInv, TypeOK, CallInv
<1>6. CASE AddToCache(p)
  <2>1. chain' \in [FlowKits -> Seq(Blocks)]
    BY <1>6, <1>0, CollectType DEF AddToCache, TypeOK
  <2> QED
    BY <1>6, <2>1 DEF AddToCache, Goto, TypeInv, TypeOK, CallInv, Steps
<1>7. CASE LoadErrs(p)
  <2>1. chain' \in [FlowKits -> Seq(Blocks)]
    BY <1>7, <1>0, CollectType DEF LoadErrs, TypeOK
  <2>2. cache' \in [Replicas -> FlowKits \cup {NoKit}]
    BY <1>7, <1>0 DEF LoadErrs, TypeOK
  <2> QED
    BY <1>7, <2>1, <2>2, FailLoadType DEF LoadErrs
<1>8. CASE MissingBlock(p)
  <2>1. chain' \in [FlowKits -> Seq(Blocks)]
    BY <1>8, <1>0, CollectType DEF MissingBlock, TypeOK
  <2> QED
    BY <1>8, <1>0, <2>1, FailLoadType DEF MissingBlock, TypeOK
<1>9. CASE BlockDiverges(p)
  <2>1. PICK r \in RowsAt(seen[p], height[p] + 1) : Collect(Mine(kit[p], r.script))
    BY <1>9 DEF BlockDiverges
  <2>2. kit[p] \in FlowKits /\ seen[p] \in SUBSET Rows
    BY <1>9 DEF BlockDiverges, TypeInv, TypeOK, CallInv
  <2>3. chain' \in [FlowKits -> Seq(Blocks)]
    BY <2>1, <2>2, <1>0, RowsAtType, MineType, CollectType
  <2> QED
    BY <1>9, <1>0, <2>3, FailLoadType DEF BlockDiverges, TypeOK
<1> QED
  BY <1>1, <1>2, <1>3, <1>4, <1>5, <1>6, <1>7, <1>8, <1>9 DEF LoadStep

LEMMA ResetStepType ==
  ASSUME TypeInv, NEW p \in Procs, ResetStep(p)
  PROVE  TypeInv'
<1> USE ConstantsAssumption
<1>1. CASE ResetCache(p)
  <2>1. chain' \in [FlowKits -> Seq(Blocks)]
    BY <1>1, CollectType DEF ResetCache, TypeInv, TypeOK
  <2> QED
    BY <1>1, <2>1 DEF ResetCache, Goto, TypeInv, TypeOK, CallInv, Steps
<1>2. CASE ResetState(p)
  BY <1>2, ReturnType, LoadType DEF ResetState, TypeInv, TypeOK
<1>3. CASE ResetErrs(p)
  BY <1>3, ReturnType DEF ResetErrs, TypeInv, TypeOK
<1> QED
  BY <1>1, <1>2, <1>3 DEF ResetStep

\* Only a transaction or a deployment is ever about to be recorded.
LEMMA RecordScript ==
  ASSUME TypeInv, NEW p \in Procs, pc[p] = "record"
  PROVE  script[p] \in Scripts
BY DEF TypeInv, CallInv, Scripts

LEMMA OpStepType ==
  ASSUME TypeInv, NEW p \in Procs, OpStep(p)
  PROVE  TypeInv'
<1> USE ConstantsAssumption
<1>0. TypeOK /\ CallInv
  BY DEF TypeInv
<1>a. pc[p] \in {"run", "storage", "record"} => kit[p] \in FlowKits
  BY <1>0 DEF CallInv
<1>b. Unrecorded \in Blocks /\ Scripts \subseteq Blocks
  BY DEF Blocks
<1>c. ASSUME Collect(chain) PROVE chain' \in [FlowKits -> Seq(Blocks)]
  BY <1>0, <1>c, CollectType DEF TypeOK
<1>d. ASSUME pc[p] = "run", Collect(Mine(kit[p], Unrecorded)) PROVE chain' \in [FlowKits -> Seq(Blocks)]
  BY <1>0, <1>a, <1>b, <1>d, MineType, CollectType
<1>e. ASSUME pc[p] = "run", script[p] \in Scripts, chain' = Mine(kit[p], script[p])
      PROVE  chain' \in [FlowKits -> Seq(Blocks)]
  BY <1>0, <1>a, <1>b, <1>e, MineType
<1>1. CASE ExecuteTransaction(p)
  <2>1. script[p] \in Scripts
    BY <1>0, <1>1 DEF ExecuteTransaction, CallInv, Scripts
  <2>2. chain' \in [FlowKits -> Seq(Blocks)]
    BY <1>1, <1>e, <2>1 DEF ExecuteTransaction
  <2> QED
    BY <1>1, <1>a, <2>2 DEF ExecuteTransaction, Goto, TypeInv, TypeOK, CallInv, Steps, Writers
<1>2. CASE ExecuteScript(p)
  BY <1>0, <1>2, <1>c, ReturnType DEF ExecuteScript, TypeOK
<1>3. CASE ReadAccount(p)
  <2>1. Top(kit[p]) \in Nat
    BY <1>0, <1>3, <1>a, TopType DEF ReadAccount
  <2> QED
    BY <1>3, <1>a, <2>1 DEF ReadAccount, Goto, TypeInv, TypeOK, CallInv, Steps
<1>4. CASE ReadStorage(p)
  BY <1>0, <1>4, <1>c, ReturnType, LoadType DEF ReadStorage, TypeOK
<1>5. CASE CreateAccount(p)
  BY <1>0, <1>5, <1>d, LoadType DEF CreateAccount, TypeOK
<1>6. CASE DeployContract(p)
  <2>1. script[p] \in Scripts
    BY <1>0, <1>6 DEF DeployContract, CallInv, Scripts
  <2>2. chain' \in [FlowKits -> Seq(Blocks)]
    BY <1>6, <1>e, <2>1 DEF DeployContract
  <2> QED
    BY <1>6, <1>a, <2>2 DEF DeployContract, Goto, TypeInv, TypeOK, CallInv, Steps, Writers
<1>7. CASE FindDeployment(p)
  <2>1. DeployedAt(script[p]) \subseteq Nat
    BY <1>0 DEF DeployedAt, DeployRows, TypeOK, Rows
  <2>2. height' \in [Procs -> Nat]
    BY <1>0, <1>7, <2>1 DEF FindDeployment, TypeOK
  <2> QED
    BY <1>7, <2>2 DEF FindDeployment, Goto, TypeInv, TypeOK, CallInv, Steps, Writers
<1>8. CASE Truncate(p)
  BY <1>8 DEF Truncate, RowsBelow, Goto, TypeInv, TypeOK, CallInv, Steps
<1>9. CASE Reload(p)
  BY <1>0, <1>9, <1>c, LoadType DEF Reload, TypeOK
<1>10. CASE DeployRefused(p)
  BY <1>0, <1>10, <1>c, ReturnType DEF DeployRefused, TypeOK
<1>11. CASE Record(p)
  <2>1. Top(kit[p]) \in Nat
    BY <1>0, <1>11, <1>a, TopType DEF Record
  <2>2. script[p] \in Scripts
    BY <1>0, <1>11, RecordScript DEF Record
  <2>3. log' \in SUBSET Rows
    BY <1>0, <1>11, <2>1, <2>2 DEF Record, TypeOK, Rows
  <2> QED
    BY <1>0, <1>11, <1>c, <2>3, ReturnType DEF Record, TypeOK
<1>12. CASE ScriptErrs(p)
  <2>1. CASE Collect(chain)
    BY <1>0, <1>12, <1>c, <2>1, ReturnType DEF ScriptErrs, TypeOK
  <2>2. CASE ~Collect(chain)
    <3>1. Collect(Mine(kit[p], Unrecorded)) /\ kit[p] \in FlowKits
      BY <1>12, <2>2, <1>a DEF ScriptErrs
    <3>2. chain' \in [FlowKits -> Seq(Blocks)]
      BY <1>0, <1>b, <3>1, MineType, CollectType
    <3> QED
      BY <1>0, <1>12, <3>2, ReturnType DEF ScriptErrs, TypeOK
  <2> QED
    BY <2>1, <2>2
<1>13. CASE StoreErrs(p)
  BY <1>0, <1>13, <1>c, ReturnType DEF StoreErrs, TypeOK
<1> QED
  BY <1>1, <1>2, <1>3, <1>4, <1>5, <1>6, <1>7, <1>8, <1>9, <1>10, <1>11, <1>12, <1>13 DEF OpStep

LEMMA RequestType ==
  ASSUME TypeInv, NEW p \in Procs, Request(p)
  PROVE  TypeInv'
<1>1. PICK o \in Ops, s \in Scripts \cup {NoScript} :
        /\ s \in Arguments(o)
        /\ op' = [op EXCEPT ![p] = o]
        /\ script' = [script EXCEPT ![p] = s]
        /\ Goto(p, CASE o = "Reset"       -> "reset"
                     [] o = "GetFlowJson" -> "readExecutions"
                     [] OTHER             -> "waiting")
  BY DEF Request
<1>2. PICK step \in {"reset", "readExecutions", "waiting"} : Goto(p, step)
  BY <1>1
<1>3. o \in Locked \cup Unlocked
  BY ConstantsAssumption
<1>4. /\ o = "ExecuteTransaction" => s \in Txs
      /\ o = "DeployContract" => s \in Deploys
  BY <1>1 DEF Arguments
<1>5. TypeOK'
  BY <1>1, <1>2, <1>3 DEF Request, TypeInv, TypeOK, Goto, Steps
<1>6. CallInv'
  BY <1>1, <1>2, <1>4 DEF Request, TypeInv, TypeOK, CallInv, Goto
<1> QED
  BY <1>5, <1>6 DEF TypeInv

LEMMA CrashType ==
  ASSUME TypeInv, NEW r \in Replicas, Crash(r)
  PROVE  TypeInv'
<1>1. chain' \in [FlowKits -> Seq(Blocks)]
  BY CollectType DEF Crash, TypeInv, TypeOK
<1>2. TypeOK'
  BY <1>1 DEF Crash, TypeInv, TypeOK, Steps
<1>3. CallInv'
  BY DEF Crash, TypeInv, TypeOK, CallInv
<1> QED
  BY <1>2, <1>3 DEF TypeInv

LEMMA TypeStep == TypeInv /\ [Next]_vars => TypeInv'
<1> SUFFICES ASSUME TypeInv, [Next]_vars PROVE TypeInv'
  OBVIOUS
<1>1. CASE UNCHANGED vars
  BY <1>1 DEF vars, TypeInv, TypeOK, CallInv
<1>2. ASSUME NEW p \in Procs, Acquire(p) PROVE TypeInv'
  BY <1>2 DEF Acquire, Goto, TypeInv, TypeOK, CallInv, Steps
<1>3. ASSUME NEW r \in Replicas, Evict(r) PROVE TypeInv'
  <2>1. chain' \in [FlowKits -> Seq(Blocks)]
    BY <1>3, CollectType DEF Evict, TypeInv, TypeOK
  <2> QED
    BY <1>3, <2>1 DEF Evict, TypeInv, TypeOK, CallInv
<1> QED
  BY <1>1, <1>2, <1>3, RequestType, LoadStepType, ResetStepType, OpStepType, CrashType
     DEF Next, Proceed

\* Every variable keeps its type, and a call has an emulator and a script when it needs them,
\* in every behaviour of the blockchain operations (src/blockchain/projects.go).
THEOREM TypeCorrect == Spec => []TypeOK
<1>1. Init => TypeInv
  BY ConstantsAssumption DEF Init, TypeInv, TypeOK, CallInv, Steps
<1>2. TypeInv /\ [Next]_vars => TypeInv'
  BY TypeStep
<1>3. TypeInv => TypeOK
  BY DEF TypeInv
<1> QED
  BY <1>1, <1>2, <1>3, PTL DEF Spec

-----------------------------------------------------------------------------
(* Rows numbered without a gap *)

\* As many rows as heights.
LEMMA ContiguousCardinality ==
  ASSUME NEW rows \in SUBSET Rows, IsFiniteSet(rows), NEW n \in Nat,
         \A r, s \in rows : r.height = s.height => r = s,
         {r.height : r \in rows} = (InitHeight + 1)..(InitHeight + n)
  PROVE  Cardinality(rows) = n
<1> DEFINE T == (InitHeight + 1)..(InitHeight + n)
           f == [r \in rows |-> r.height]
<1>1. f \in [rows -> T]
  OBVIOUS
<1>2. f \in Injection(rows, T)
  BY <1>1 DEF Injection, IsInjective
<1>3. \A t \in T : \E r \in rows : f[r] = t
  OBVIOUS
<1>4. f \in Surjection(rows, T)
  BY <1>1, <1>3 DEF Surjection
<1>5. ExistsBijection(rows, T)
  BY <1>2, <1>4 DEF ExistsBijection, Bijection
<1>6. Cardinality(T) = Cardinality(rows)
  BY <1>5, FS_Bijection
<1>7. InitHeight + 1 \in Int /\ InitHeight + n \in Int /\ InitHeight \in Nat
  BY ConstantsAssumption
<1>8. Cardinality(T) = n
  BY <1>7, FS_Interval
<1> QED
  BY <1>6, <1>8

\* Recording the block above the rows keeps them contiguous.
LEMMA RecordKeepsLog ==
  ASSUME LogInv, log \in SUBSET Rows, NEW s \in Scripts,
         log' = log \cup {[height |-> InitHeight + Cardinality(log) + 1, script |-> s]}
  PROVE  LogInv' /\ Cardinality(log') = Cardinality(log) + 1
<1> DEFINE n == Cardinality(log)
           row == [height |-> InitHeight + n + 1, script |-> s]
<1>1. n \in Nat /\ InitHeight \in Nat
  BY FS_CardinalityType, ConstantsAssumption DEF LogInv
<1>2. \A r \in log : r.height \in (InitHeight + 1)..(InitHeight + n)
  BY DEF LogInv, LogContiguous
<1>3. \A r \in log : r.height # row.height
  BY <1>1, <1>2
<1>4. row \notin log
  BY <1>3
<1>5. IsFiniteSet(log') /\ Cardinality(log') = n + 1
  BY <1>4, FS_AddElement DEF LogInv
<1>6. \A r, q \in log' : r.height = q.height => r = q
  BY <1>3 DEF LogInv
<1>7. {r.height : r \in log'} = {r.height : r \in log} \cup {InitHeight + n + 1}
  <2>1. row.height = InitHeight + n + 1
    OBVIOUS
  <2>2. {r.height : r \in log \cup {row}} = {r.height : r \in log} \cup {row.height}
    <3> HIDE DEF row
    <3> QED
      OBVIOUS
  <2> QED
    BY <2>1, <2>2
<1>8. (InitHeight + 1)..(InitHeight + n) \cup {InitHeight + n + 1} = (InitHeight + 1)..(InitHeight + (n + 1))
  BY <1>1
<1>9. {r.height : r \in log'} = (InitHeight + 1)..(InitHeight + (n + 1))
  BY <1>7, <1>8 DEF LogInv, LogContiguous
<1> QED
  BY <1>5, <1>6, <1>9 DEF LogInv, LogContiguous

\* Deleting the rows from a height up keeps the others contiguous.
LEMMA TruncateKeepsLog ==
  ASSUME LogInv, log \in SUBSET Rows, NEW h \in Nat, log' = RowsBelow(log, h)
  PROVE  LogInv' /\ Cardinality(log') <= Cardinality(log) /\ (Cardinality(log') = Cardinality(log) => log' = log)
<1> DEFINE n == Cardinality(log)
<1>1. n \in Nat /\ InitHeight \in Nat
  BY FS_CardinalityType, ConstantsAssumption DEF LogInv
<1>2. log' \in SUBSET log
  BY DEF RowsBelow
<1>3. /\ IsFiniteSet(log')
      /\ Cardinality(log') <= n
      /\ Cardinality(log) = Cardinality(log') => log = log'
  BY <1>2, FS_Subset DEF LogInv
<1>4. \A r, s \in log' : r.height = s.height => r = s
  BY <1>2 DEF LogInv
<1>5. {r.height : r \in log'} = {x \in (InitHeight + 1)..(InitHeight + n) : x < h}
  BY DEF RowsBelow, LogInv, LogContiguous
<1>6. PICK m \in Nat : {x \in (InitHeight + 1)..(InitHeight + n) : x < h}
                         = (InitHeight + 1)..(InitHeight + m)
  <2>1. CASE h <= InitHeight
    <3>1. {x \in (InitHeight + 1)..(InitHeight + n) : x < h} = (InitHeight + 1)..(InitHeight + 0)
      BY <1>1, <2>1
    <3> QED
      BY <3>1
  <2>2. CASE h > InitHeight /\ h <= InitHeight + n
    <3>1. h - InitHeight - 1 \in Nat
      BY <1>1, <2>2
    <3>2. {x \in (InitHeight + 1)..(InitHeight + n) : x < h}
            = (InitHeight + 1)..(InitHeight + (h - InitHeight - 1))
      BY <1>1, <2>2
    <3> QED
      BY <3>1, <3>2
  <2>3. CASE h > InitHeight + n
    BY <1>1, <2>3
  <2>4. h <= InitHeight \/ (h > InitHeight /\ h <= InitHeight + n) \/ h > InitHeight + n
    BY <1>1
  <2> QED
    BY <2>1, <2>2, <2>3, <2>4
<1>7. Cardinality(log') = m
  BY <1>2, <1>3, <1>4, <1>5, <1>6, ContiguousCardinality
<1> QED
  BY <1>3, <1>4, <1>5, <1>6, <1>7 DEF LogInv, LogContiguous

LEMMA ResetKeepsLog == log' = {} => LogInv' /\ Cardinality(log') = 0
<1> SUFFICES ASSUME log' = {} PROVE LogInv' /\ Cardinality(log') = 0
  OBVIOUS
<1>1. IsFiniteSet(log') /\ Cardinality(log') = 0
  BY FS_EmptySet
<1>2. {r.height : r \in log'} = {}
  OBVIOUS
<1>3. (InitHeight + 1)..(InitHeight + 0) = {}
  BY ConstantsAssumption
<1> QED
  BY <1>1, <1>2, <1>3 DEF LogInv, LogContiguous

-----------------------------------------------------------------------------
(* What a step of one call leaves alone *)

Others(p) ==
  \A q \in Procs \ {p} :
    /\ pc'[q] = pc[q] /\ op'[q] = op[q] /\ script'[q] = script[q]
    /\ seen'[q] = seen[q] /\ kit'[q] = kit[q] /\ height'[q] = height[q]

\* A call that proceeds returns, or goes on with the same operation and argument.
Continues(p) ==
  /\ pc[p] \notin {"idle", "waiting"}
  /\ Others(p)
  /\ \/ pc'[p] = "idle" /\ op'[p] = "none"
     \/ pc'[p] \notin {"idle", "waiting"} /\ op'[p] = op[p] /\ script'[p] = script[p]

LEMMA ReturnFrame ==
  ASSUME TypeOK, NEW p \in Procs, Return(p)
  PROVE  /\ Others(p) /\ pc'[p] = "idle" /\ op'[p] = "none" /\ kit'[p] = NoKit
BY DEF TypeOK, Return, Goto, Others

LEMMA LoadFrame ==
  ASSUME TypeOK, NEW p \in Procs, Load(p, FALSE) \/ Load(p, TRUE)
  PROVE  /\ Others(p) /\ pc'[p] = "readExecutions" /\ op'[p] = op[p] /\ script'[p] = script[p] /\ kit'[p] = NoKit
BY DEF TypeOK, Load, Goto, Others

LEMMA FailLoadFrame ==
  ASSUME TypeOK, NEW p \in Procs, FailLoad(p)
  PROVE  /\ Others(p)
         /\ kit'[p] = NoKit
         /\ \/ pc'[p] = "idle" /\ op'[p] = "none"
            \/ pc'[p] = "reset" /\ op'[p] = op[p] /\ script'[p] = script[p]
<1>1. CASE Return(p)
  BY <1>1, ReturnFrame
<1>2. CASE /\ Goto(p, "reset")
           /\ seen' = [seen EXCEPT ![p] = {}]
           /\ kit' = [kit EXCEPT ![p] = NoKit]
           /\ height' = [height EXCEPT ![p] = 0]
           /\ UNCHANGED <<op, script, retried, again>>
  BY <1>2 DEF TypeOK, Goto, Others
<1> QED
  BY <1>1, <1>2 DEF FailLoad

LEMMA ProceedFrame ==
  ASSUME TypeOK, NEW p \in Procs, Proceed(p)
  PROVE  Continues(p)
<1>1. CASE LoadStep(p)
  <2>1. CASE ReadExecutions(p) \/ ReadDeployments(p) \/ UseCached(p) \/ RunMissingBlock(p) \/ AddToCache(p)
    BY <2>1 DEF ReadExecutions, ReadDeployments, UseCached, RunMissingBlock, AddToCache,
                Goto, TypeOK, Continues, Others
  <2>2. CASE TakeNew(p)
    BY <2>2 DEF TakeNew, Goto, TypeOK, Continues, Others
  <2>3. CASE LoadErrs(p) \/ MissingBlock(p) \/ BlockDiverges(p)
    BY <2>3, FailLoadFrame DEF LoadErrs, MissingBlock, BlockDiverges, Continues
  <2> QED
    BY <1>1, <2>1, <2>2, <2>3 DEF LoadStep
<1>2. CASE ResetStep(p)
  <2>1. CASE ResetCache(p)
    BY <2>1 DEF ResetCache, Goto, TypeOK, Continues, Others
  <2>2. CASE ResetState(p) \/ ResetErrs(p)
    BY <2>2, ReturnFrame, LoadFrame DEF ResetState, ResetErrs, Continues
  <2> QED
    BY <1>2, <2>1, <2>2 DEF ResetStep
<1>3. CASE OpStep(p)
  <2>1. CASE ExecuteTransaction(p) \/ ReadAccount(p) \/ DeployContract(p) \/ FindDeployment(p) \/ Truncate(p)
    BY <2>1 DEF ExecuteTransaction, ReadAccount, DeployContract, FindDeployment, Truncate,
                Goto, TypeOK, Continues, Others
  <2>2. CASE ReadStorage(p) \/ CreateAccount(p) \/ Reload(p)
    BY <2>2, ReturnFrame, LoadFrame DEF ReadStorage, CreateAccount, Reload, Continues
  <2>3. CASE ExecuteScript(p) \/ DeployRefused(p) \/ Record(p) \/ ScriptErrs(p) \/ StoreErrs(p)
    BY <2>3, ReturnFrame DEF ExecuteScript, DeployRefused, Record, ScriptErrs, StoreErrs, Continues
  <2> QED
    BY <1>3, <2>1, <2>2, <2>3 DEF OpStep
<1> QED
  BY <1>1, <1>2, <1>3 DEF Proceed

\* The lock: who holds it, and that a writer holds it alone, survive a step.
LEMMA ControlStep ==
  ASSUME OneReplica, Inv, NEW p \in Procs, Proceed(p)
  PROVE  OpsInv' /\ LockInv'
<1>1. Continues(p)
  BY ProceedFrame DEF Inv
<1>2. OpsInv'
  BY <1>1 DEF Inv, OpsInv, Continues, Others
<1>3. \A q \in Procs : Holding(q)' => Holding(q) /\ op'[q] = op[q]
  BY <1>1 DEF Continues, Others, Holding, Locked, Writers, Readers
<1>4. LockInv'
  BY <1>3 DEF Inv, LockInv
<1> QED
  BY <1>2, <1>4

\* While a call that changes the project proceeds, no other call is past its lock.
LEMMA WriterAlone ==
  ASSUME LocksTaken, Inv, NEW p \in Procs, Proceed(p), op[p] \in Writers
  PROVE  \A q \in Procs \ {p} : pc[q] \in {"idle", "waiting"}
<1>1. pc[p] \notin {"idle", "waiting"}
  BY ProceedFrame DEF Inv, Continues
<1>2. Holding(p) /\ op[p] \notin Readers
  BY <1>1 DEF Holding, Locked, Writers, Readers
<1>3. \A q \in Procs \ {p} : ~Holding(q)
  BY <1>2 DEF Inv, LockInv
<1> QED
  BY <1>3 DEF Inv, OpsInv, LocksTaken, Holding

\* While a reader proceeds, no call that changes the project is past its lock.
LEMMA ReadersOnly ==
  ASSUME LocksTaken, Inv, NEW p \in Procs, Proceed(p), op[p] \notin Writers
  PROVE  /\ op[p] \in Readers
         /\ \A q \in Procs : op[q] \in Writers => pc[q] = "waiting"
<1>1. pc[p] \notin {"idle", "waiting"}
  BY ProceedFrame DEF Inv, Continues
<1>2. op[p] \in Readers /\ Holding(p)
  BY <1>1 DEF Inv, OpsInv, LocksTaken, Locked, Holding
<1>3. \A q \in Procs : op[q] \in Writers => q # p /\ ~Holding(q)
  BY <1>2 DEF Inv, LockInv, Writers, Readers
<1>4. \A q \in Procs : op[q] \in Writers => pc[q] # "idle"
  BY DEF Inv, OpsInv, Writers
<1> QED
  BY <1>2, <1>3, <1>4 DEF Holding, Locked

-----------------------------------------------------------------------------
(* Steps that change no row and no emulator still referred to *)

Quiet(p) ==
  /\ log' = log
  /\ \A r \in Replicas : cache'[r] \in {NoKit, cache[r]}
  /\ kit'[p] \in {NoKit, kit[p]}
  /\ \A k \in FlowKits : k \in Range(cache') \cup Range(kit') => chain'[k] = chain[k]

LEMMA CollectKeeps ==
  ASSUME NEW blocks, Collect(blocks)
  PROVE  \A k \in FlowKits : k \in Range(cache') \cup Range(kit') => chain'[k] = blocks[k]
BY DEF Collect

\* A new emulator starts with no block, and the others keep theirs.
LEMMA NewEmulator ==
  ASSUME TypeOK, NEW new \in FlowKits, Collect([chain EXCEPT ![new] = <<>>])
  PROVE  \A k \in FlowKits : k \in Range(cache') \cup Range(kit') =>
           chain'[k] = IF k = new THEN <<>> ELSE chain[k]
<1> DEFINE blocks == [chain EXCEPT ![new] = <<>>]
<1>1. \A k \in FlowKits : blocks[k] = IF k = new THEN <<>> ELSE chain[k]
  BY DEF TypeOK
<1>2. Collect(blocks)
  OBVIOUS
<1> HIDE DEF blocks
<1>3. \A k \in FlowKits : k \in Range(cache') \cup Range(kit') => chain'[k] = blocks[k]
  BY <1>2, CollectKeeps
<1> QED
  BY <1>1, <1>3

LEMMA InUseNext ==
  ASSUME TypeInv'
  PROVE  /\ \A r \in Replicas : cache'[r] \in Range(cache')
         /\ \A p \in Procs : kit'[p] \in Range(kit')
         /\ \A k \in Range(cache') : \E r \in Replicas : k = cache'[r]
BY DEF TypeInv, TypeOK, Range

LEMMA InUseNow ==
  ASSUME TypeInv
  PROVE  /\ \A r \in Replicas : cache[r] \in Range(cache)
         /\ \A p \in Procs : kit[p] \in Range(kit)
         /\ \A k \in Range(cache) : \E r \in Replicas : k = cache[r]
BY DEF TypeInv, TypeOK, Range

LEMMA KeptCache ==
  ASSUME Inv, TypeInv', log' = log,
         \A r \in Replicas : cache'[r] \in {NoKit, cache[r]},
         \A k \in FlowKits : k \in Range(cache') => chain'[k] = chain[k]
  PROVE  CacheInv'
<1> SUFFICES ASSUME NEW r \in Replicas, cache'[r] # NoKit PROVE Reliable(cache[r])'
  BY DEF CacheInv
<1>1. cache'[r] = cache[r] /\ cache'[r] \in FlowKits
  BY DEF TypeInv, TypeOK
<1>2. chain'[cache'[r]] = chain[cache[r]]
  BY <1>1, InUseNext
<1>3. Reliable(cache[r])
  BY <1>1 DEF Inv, CacheInv
<1> QED
  BY <1>1, <1>2, <1>3 DEF Reliable, Replays

LEMMA QuietCache ==
  ASSUME Inv, TypeInv', NEW p \in Procs, Quiet(p)
  PROVE  CacheInv'
BY KeptCache DEF Quiet

LEMMA QuietLoading ==
  ASSUME Inv, TypeInv', NEW p \in Procs, Quiet(p), Others(p), NEW q \in Procs \ {p}, Loading(q)
  PROVE  Loading(q)'
<1>1. /\ log' = log /\ pc'[q] = pc[q] /\ seen'[q] = seen[q] /\ kit'[q] = kit[q] /\ height'[q] = height[q]
  BY DEF Quiet, Others
<1>2. ASSUME pc[q] = "replay" PROVE Filling(q)' \/ Filled(q)'
  <2>1. kit[q] \in FlowKits /\ kit[q] # NoKit
    BY <1>2, ConstantsAssumption DEF Inv, CallInv
  <2>2. chain'[kit[q]] = chain[kit[q]]
    BY <1>1, <2>1, InUseNext DEF Quiet
  <2>3. CASE Filled(q)
    BY <1>1, <2>2, <2>3 DEF Filled, Replays, Total
  <2>4. CASE Filling(q)
    <3>1. kit'[q] \notin Range(cache')
      BY <1>1, <2>1, <2>4, InUseNext, InUseNow DEF Inv, TypeInv, Quiet, Filling
    <3>2. \A o \in Procs \ {q} : kit'[o] # kit'[q]
      BY <1>1, <2>1, <2>4 DEF Quiet, Others, Filling
    <3> QED
      BY <1>1, <2>2, <2>4, <3>1, <3>2 DEF Filling, Total, Top
  <2> QED
    BY <1>2, <2>3, <2>4 DEF Loading
<1> QED
  BY <1>1, <1>2 DEF Loading, TxRows

LEMMA QuietStep ==
  ASSUME Inv, TypeInv', NEW p \in Procs,
         \/ ReadExecutions(p) \/ ReadDeployments(p) \/ LoadErrs(p) \/ MissingBlock(p)
         \/ ResetCache(p) \/ ResetErrs(p) \/ ExecuteScript(p) \/ ReadAccount(p) \/ ReadStorage(p)
         \/ FindDeployment(p) \/ Reload(p) \/ DeployRefused(p) \/ StoreErrs(p)
         \/ (ScriptErrs(p) /\ Collect(chain))
  PROVE  Quiet(p)
<1>1. TypeOK
  BY DEF Inv
<1>2. CASE ReadExecutions(p) \/ ReadDeployments(p) \/ ReadAccount(p) \/ FindDeployment(p)
  BY <1>2 DEF ReadExecutions, ReadDeployments, ReadAccount, FindDeployment, Quiet
<1>3. CASE LoadErrs(p) \/ MissingBlock(p)
  BY <1>1, <1>3, FailLoadFrame, CollectKeeps DEF LoadErrs, MissingBlock, Quiet, TypeOK
<1>4. CASE ResetCache(p)
  BY <1>1, <1>4, CollectKeeps DEF ResetCache, Quiet, TypeOK
<1>5. CASE ResetErrs(p)
  BY <1>1, <1>5, ReturnFrame DEF ResetErrs, Quiet
<1>6. CASE Reload(p)
  BY <1>1, <1>6, LoadFrame, CollectKeeps DEF Reload, Quiet, TypeOK
<1>7. CASE ReadStorage(p)
  BY <1>1, <1>7, ReturnFrame, LoadFrame, CollectKeeps DEF ReadStorage, Quiet
<1>8. CASE ExecuteScript(p) \/ DeployRefused(p) \/ StoreErrs(p) \/ (ScriptErrs(p) /\ Collect(chain))
  BY <1>1, <1>8, ReturnFrame, CollectKeeps DEF ExecuteScript, DeployRefused, StoreErrs, ScriptErrs, Quiet
<1> QED
  BY <1>2, <1>3, <1>4, <1>5, <1>6, <1>7, <1>8

-----------------------------------------------------------------------------
(* A load, from what it knows *)

\* An emulator filled up to the number of rows ran exactly the rows.
LEMMA FilledUp ==
  ASSUME Inv, NEW p \in Procs, pc[p] = "replay", Filling(p) \/ Filled(p), height[p] >= Total(log)
  PROVE  Replays(chain[kit[p]], log)
<1>1. kit[p] \in FlowKits
  BY DEF Inv, CallInv
<1>2. Len(chain[kit[p]]) \in Nat /\ Cardinality(log) \in Nat /\ InitHeight \in Nat
  BY <1>1, FS_CardinalityType, ConstantsAssumption DEF Inv, TypeOK, LogInv
<1>3. CASE Filling(p)
  <2>1. Len(chain[kit[p]]) = Cardinality(log)
    BY <1>2, <1>3 DEF Filling, Top, Total
  <2> QED
    BY <1>3, <2>1 DEF Filling, Replays
<1> QED
  BY <1>3 DEF Filled

\* What a step of a load keeps, for the call that loads and for the loads beside it.
Keeps(p) ==
  /\ log' = log
  /\ CacheInv'
  /\ Loading(p)'
  /\ \A q \in Procs \ {p} : Loading(q) => Loading(q)'

LEMMA QuietKeeps ==
  ASSUME Inv, TypeInv', NEW p \in Procs, Quiet(p), Continues(p),
         pc'[p] \notin {"readDeployments", "fetch", "replay"}
  PROVE  Keeps(p)
BY QuietCache, QuietLoading DEF Quiet, Continues, Keeps, Loading

LEMMA ReadKeeps ==
  ASSUME Inv, TypeInv', NEW p \in Procs, Loading(p), ReadExecutions(p) \/ ReadDeployments(p)
  PROVE  Keeps(p)
<1>1. Quiet(p)
  BY QuietStep
<1>2. Others(p)
  BY ProceedFrame DEF Inv, Proceed, LoadStep, Continues
<1>3. log = TxRows(log) \cup DeployRows(log)
  BY DEF Inv, TypeOK, Rows, Scripts, TxRows, DeployRows
<1>4. Loading(p)'
  <2>1. CASE ReadExecutions(p)
    BY <2>1 DEF ReadExecutions, Goto, Loading, Inv, TypeOK, TxRows
  <2>2. CASE ReadDeployments(p)
    BY <1>3, <2>2 DEF ReadDeployments, Goto, Loading, Inv, TypeOK
  <2> QED
    BY <2>1, <2>2
<1> QED
  BY <1>1, <1>2, <1>4, QuietCache, QuietLoading DEF Quiet, Keeps

\* The staleness check is sound: an emulator it lets through ran exactly the rows.
LEMMA UseCachedKeeps ==
  ASSUME Inv, TypeInv', NEW p \in Procs, Loading(p), UseCached(p)
  PROVE  Keeps(p)
<1> DEFINE k == cache[Home[p]]
<1>1. /\ k \in FlowKits /\ k \in Range(cache)
      /\ k # NoKit
      /\ pc[p] = "fetch" /\ pc'[p] = "replay" /\ kit'[p] = k /\ height'[p] = Top(k)
      /\ UNCHANGED <<log, cache, chain, seen>>
  BY ConstantsAssumption DEF UseCached, Goto, Inv, TypeOK, Range
<1>2. Others(p)
  BY ProceedFrame DEF Inv, Proceed, LoadStep, Continues
<1>3. Len(chain[k]) \in Nat /\ Cardinality(log) \in Nat /\ InitHeight \in Nat
  BY <1>1, FS_CardinalityType, ConstantsAssumption DEF Inv, TypeOK, LogInv
<1>4. Reliable(k)
  BY <1>1, ConstantsAssumption DEF Inv, CacheInv
<1>5. seen[p] = log
  BY <1>1 DEF Loading
<1>6. Len(chain[k]) <= Cardinality(log)
  BY <1>3, <1>5 DEF UseCached, Outdated, Top, Total
<1>7. Replays(chain[k], log) /\ Top(k) = Total(log)
  BY <1>3, <1>4, <1>6 DEF Reliable, Top, Total
<1>8. Loading(p)'
  BY <1>1, <1>5, <1>7 DEF Loading, Filled, Replays, Total
<1>9. CacheInv'
  BY <1>1 DEF Inv, CacheInv, Reliable, Replays
<1>10. ASSUME NEW q \in Procs \ {p}, Loading(q) PROVE Loading(q)'
  <2>1. ASSUME Filling(q) PROVE Filling(q)'
    <3>1. kit'[q] = kit[q] /\ height'[q] = height[q] /\ kit[q] # k
      BY <1>1, <1>2, <2>1 DEF Others, Filling
    <3>2. \A r \in Procs \ {q} : kit'[r] # kit'[q]
      <4>1. ASSUME NEW r \in Procs \ {q} PROVE kit'[r] # kit'[q]
        <5>1. CASE r = p
          BY <1>1, <3>1, <5>1
        <5>2. CASE r # p
          BY <1>2, <2>1, <3>1, <5>2 DEF Others, Filling
        <5> QED
          BY <5>1, <5>2
      <4> QED
        BY <4>1
    <3>3. kit'[q] \notin Range(cache')
      BY <1>1, <2>1, <3>1 DEF Filling
    <3>4. Top(kit[q])' = Top(kit[q]) /\ Total(log)' = Total(log)
      BY <1>1, <3>1 DEF Top, Total
    <3>5. height'[q] = Top(kit[q])' /\ height'[q] <= Total(log)'
      BY <2>1, <3>1, <3>4 DEF Filling
    <3>6. \A i \in 1..Len(chain'[kit'[q]]) :
            [height |-> InitHeight + i, script |-> chain'[kit'[q]][i]] \in log'
      BY <1>1, <2>1, <3>1 DEF Filling
    <3> QED
      BY <3>1, <3>2, <3>3, <3>5, <3>6 DEF Filling, Top, Total
  <2>2. ASSUME Filled(q) PROVE Filled(q)'
    BY <1>1, <1>2, <2>2 DEF Others, Filled, Replays, Total
  <2> QED
    BY <1>1, <1>2, <1>10, <2>1, <2>2 DEF Others, Loading, TxRows
<1> QED
  BY <1>1, <1>8, <1>9, <1>10 DEF Keeps

LEMMA TakeNewKeeps ==
  ASSUME Inv, TypeInv', NEW p \in Procs, Loading(p), TakeNew(p)
  PROVE  Keeps(p)
<1> DEFINE new == CHOOSE x \in Spare : TRUE
<1>1. new \in FlowKits /\ new \notin Range(cache) /\ new \notin Range(kit) /\ new # NoKit
  BY ConstantsAssumption DEF TakeNew, Spare, InUse
<1>2. /\ pc[p] = "fetch" /\ pc'[p] = "replay" /\ kit'[p] = new /\ height'[p] = InitHeight
      /\ UNCHANGED <<log, seen>>
      /\ \A r \in Replicas : cache'[r] \in {NoKit, cache[r]}
      /\ Collect([chain EXCEPT ![new] = <<>>])
  BY DEF TakeNew, Goto, Inv, TypeOK
<1> HIDE DEF new
<1>3. Others(p)
  BY ProceedFrame DEF Inv, Proceed, LoadStep, Continues
<1>4. Cardinality(log) \in Nat /\ InitHeight \in Nat
  BY FS_CardinalityType, ConstantsAssumption DEF Inv, LogInv
<1>5. chain'[new] = <<>>
  BY <1>1, <1>2, NewEmulator, InUseNext DEF Inv
<1>6. \A k \in FlowKits : (k # new /\ k \in Range(cache') \cup Range(kit')) => chain'[k] = chain[k]
  BY <1>1, <1>2, NewEmulator DEF Inv
<1>7. \A r \in Replicas : cache'[r] # new
  BY <1>1, <1>2, InUseNow DEF Inv, TypeInv
<1>8. CacheInv'
  <2> SUFFICES ASSUME NEW r \in Replicas, cache'[r] # NoKit PROVE Reliable(cache[r])'
    BY DEF CacheInv
  <2>1. cache'[r] = cache[r] /\ cache[r] \in FlowKits
    BY <1>2 DEF Inv, TypeOK
  <2>2. chain'[cache'[r]] = chain[cache[r]]
    BY <1>6, <1>7, <2>1, InUseNext
  <2> QED
    BY <1>2, <2>1, <2>2 DEF Inv, CacheInv, Reliable, Replays
<1>9. Loading(p)'
  <2>1. kit'[p] \notin Range(cache')
    BY <1>2, <1>7, InUseNext
  <2>2. \A q \in Procs \ {p} : kit'[q] # kit'[p]
    BY <1>1, <1>2, <1>3, InUseNow DEF Others, Inv, TypeInv
  <2>3. Len(chain'[kit'[p]]) = 0
    BY <1>2, <1>5
  <2>4. Filling(p)'
    BY <1>2, <1>4, <2>1, <2>2, <2>3 DEF Filling, Top, Total
  <2> QED
    BY <1>2, <2>4 DEF Loading
<1>10. ASSUME NEW q \in Procs \ {p}, Loading(q) PROVE Loading(q)'
  <2>1. ASSUME pc[q] = "replay" PROVE Filling(q)' \/ Filled(q)'
    <3>1. kit[q] \in FlowKits /\ kit[q] # NoKit /\ kit[q] # new
      BY <1>1, <2>1, ConstantsAssumption, InUseNow DEF Inv, CallInv, TypeInv
    <3>2. kit'[q] = kit[q] /\ height'[q] = height[q] /\ chain'[kit'[q]] = chain[kit[q]]
      BY <1>3, <1>6, <3>1, InUseNext DEF Others
    <3>3. CASE Filled(q)
      BY <1>2, <3>2, <3>3 DEF Filled, Replays, Total
    <3>4. CASE Filling(q)
      <4>1. kit'[q] \notin Range(cache')
        BY <1>2, <3>1, <3>2, <3>4, InUseNext, InUseNow DEF Filling, Inv, TypeInv
      <4>2. \A o \in Procs \ {q} : kit'[o] # kit'[q]
        BY <1>2, <1>3, <3>1, <3>2, <3>4 DEF Filling, Others
      <4> QED
        BY <1>2, <3>2, <3>4, <4>1, <4>2 DEF Filling, Top, Total
    <3> QED
      BY <1>10, <2>1, <3>3, <3>4 DEF Loading
  <2> QED
    BY <1>2, <1>3, <1>10, <2>1 DEF Others, Loading, TxRows
<1> QED
  BY <1>2, <1>8, <1>9, <1>10 DEF Keeps

LEMMA RunMissingBlockKeeps ==
  ASSUME Inv, TypeInv', NEW p \in Procs, Loading(p), RunMissingBlock(p)
  PROVE  Keeps(p)
<1>1. /\ pc[p] = "replay" /\ height[p] < Total(seen[p]) /\ seen[p] = log
      /\ height'[p] = height[p] + 1
      /\ UNCHANGED <<log, cache, pc, seen, kit>>
      /\ kit[p] \in FlowKits
  BY DEF RunMissingBlock, Loading, Inv, TypeOK, CallInv
<1>2. Others(p)
  BY ProceedFrame DEF Inv, Proceed, LoadStep, Continues
<1>3. PICK r \in RowsAt(log, height[p] + 1) : chain' = Mine(kit[p], r.script)
  BY <1>1 DEF RunMissingBlock
<1>4. r \in log /\ r.height = height[p] + 1 /\ r.script \in Blocks
      /\ r = [height |-> r.height, script |-> r.script]
  BY RowsAtType DEF Inv, TypeOK, Rows
<1>5. /\ Len(chain[kit[p]]) \in Nat /\ Cardinality(log) \in Nat /\ InitHeight \in Nat
      /\ height[p] \in Nat /\ chain[kit[p]] \in Seq(Blocks)
  BY <1>1, FS_CardinalityType, ConstantsAssumption DEF Inv, TypeOK, LogInv
<1>6. Filling(p)
  BY <1>1, <1>5 DEF Loading, Filled
<1>7. chain'[kit[p]] = Append(chain[kit[p]], r.script)
  BY <1>1, <1>3 DEF Mine, Inv, TypeOK
<1>8. \A k \in FlowKits : k # kit[p] => chain'[k] = chain[k]
  BY <1>1, <1>3 DEF Mine, Inv, TypeOK
<1>9. CacheInv'
  <2> SUFFICES ASSUME NEW x \in Replicas, cache[x] # NoKit PROVE Reliable(cache[x])'
    BY <1>1 DEF CacheInv
  <2>1. cache[x] \in FlowKits /\ cache[x] # kit[p]
    BY <1>6, InUseNow DEF Filling, Inv, TypeInv, TypeOK
  <2>2. chain'[cache'[x]] = chain[cache[x]]
    BY <1>1, <1>8, <2>1
  <2> QED
    BY <1>1, <2>2 DEF Inv, CacheInv, Reliable, Replays
<1>10. Loading(p)'
  <2>1. /\ Len(chain'[kit[p]]) = Len(chain[kit[p]]) + 1
        /\ \A i \in 1..Len(chain[kit[p]]) : chain'[kit[p]][i] = chain[kit[p]][i]
        /\ chain'[kit[p]][Len(chain[kit[p]]) + 1] = r.script
    BY <1>4, <1>5, <1>7, AppendProperties
  <2>2. r.height = InitHeight + (Len(chain[kit[p]]) + 1)
    BY <1>4, <1>5, <1>6 DEF Filling, Top
  <2>3. \A i \in 1..Len(chain'[kit[p]]) : [height |-> InitHeight + i, script |-> chain'[kit[p]][i]] \in log
    <3> SUFFICES ASSUME NEW i \in 1..Len(chain'[kit[p]])
                 PROVE  [height |-> InitHeight + i, script |-> chain'[kit[p]][i]] \in log
      OBVIOUS
    <3>1. CASE i = Len(chain[kit[p]]) + 1
      BY <1>4, <2>1, <2>2, <3>1
    <3>2. CASE i # Len(chain[kit[p]]) + 1
      <4>1. i \in 1..Len(chain[kit[p]])
        BY <1>5, <2>1, <3>2
      <4> QED
        BY <1>6, <2>1, <4>1 DEF Filling
    <3> QED
      BY <3>1, <3>2
  <2>4. height'[p] = InitHeight + Len(chain'[kit[p]]) /\ height'[p] <= InitHeight + Cardinality(log)
    BY <1>1, <1>5, <1>6, <2>1 DEF Filling, Top, Total
  <2>5. Filling(p)'
    BY <1>1, <1>6, <2>3, <2>4 DEF Filling, Top, Total
  <2> QED
    BY <1>1, <2>5 DEF Loading
<1>11. ASSUME NEW q \in Procs \ {p}, Loading(q) PROVE Loading(q)'
  <2>1. ASSUME pc[q] = "replay" PROVE Filling(q)' \/ Filled(q)'
    <3>1. kit[q] \in FlowKits /\ kit[q] # kit[p]
      BY <1>6, <2>1 DEF Inv, CallInv, Filling
    <3>2. chain'[kit'[q]] = chain[kit[q]] /\ height'[q] = height[q]
      BY <1>1, <1>2, <1>8, <3>1 DEF Others
    <3>3. CASE Filled(q)
      BY <1>1, <3>2, <3>3 DEF Filled, Replays, Total
    <3>4. CASE Filling(q)
      BY <1>1, <3>2, <3>4 DEF Filling, Top, Total
    <3> QED
      BY <1>11, <2>1, <3>3, <3>4 DEF Loading
  <2> QED
    BY <1>1, <1>11, <2>1 DEF Loading, TxRows
<1> QED
  BY <1>1, <1>9, <1>10, <1>11 DEF Keeps

LEMMA AddToCacheKeeps ==
  ASSUME OneReplica, Inv, TypeInv', NEW p \in Procs, Loading(p), AddToCache(p)
  PROVE  Keeps(p) /\ Alone(p)' /\ Replays(chain[kit[p]], log)'
<1>1. /\ pc[p] = "replay" /\ height[p] >= Total(seen[p]) /\ seen[p] = log
      /\ pc'[p] = "run" /\ kit' = kit /\ log' = log /\ kit[p] \in FlowKits
      /\ \A r \in Replicas : cache'[r] = kit[p]
      /\ Collect(chain)
  BY DEF AddToCache, Goto, Loading, Inv, TypeOK, CallInv, OneReplica
<1>2. Others(p)
  BY ProceedFrame DEF Inv, Proceed, LoadStep, Continues
<1>3. Replays(chain[kit[p]], log)
  BY <1>1, FilledUp DEF Loading
<1>4. \A k \in FlowKits : k \in Range(cache') \cup Range(kit') => chain'[k] = chain[k]
  BY <1>1, CollectKeeps
<1>5. chain'[kit'[p]] = chain[kit[p]]
  BY <1>1, <1>4, InUseNext
<1>6. Cardinality(log) \in Nat
  BY FS_CardinalityType DEF Inv, LogInv
<1>7. CacheInv'
  BY <1>1, <1>3, <1>5, <1>6 DEF CacheInv, Reliable, Replays
<1>8. ASSUME NEW q \in Procs \ {p}, Loading(q) PROVE Loading(q)'
  <2>1. ASSUME pc[q] = "replay" PROVE Filling(q)' \/ Filled(q)'
    <3>1. chain'[kit'[q]] = chain[kit[q]] /\ height'[q] = height[q] /\ kit[q] \in FlowKits
      BY <1>1, <1>2, <1>4, <2>1, InUseNext DEF Others, Inv, CallInv
    <3>2. CASE Filled(q)
      BY <1>1, <3>1, <3>2 DEF Filled, Replays, Total
    <3>3. CASE Filling(q)
      <4>1. kit'[q] \notin Range(cache')
        BY <1>1, <3>3, InUseNext DEF Filling
      <4> QED
        BY <1>1, <3>1, <3>3, <4>1 DEF Filling, Top, Total
    <3> QED
      BY <1>8, <2>1, <3>2, <3>3 DEF Loading
  <2> QED
    BY <1>1, <1>2, <1>8, <2>1 DEF Others, Loading, TxRows
<1>9. Alone(p)'
  BY <1>1 DEF Alone
<1> QED
  BY <1>1, <1>3, <1>5, <1>7, <1>8, <1>9 DEF Keeps, Loading, Replays

\* The emulator a diverging block went to was nobody else's, and is dropped.
LEMMA BlockDivergesQuiet ==
  ASSUME Inv, TypeInv', NEW p \in Procs, Loading(p), BlockDiverges(p)
  PROVE  Quiet(p)
<1>1. /\ pc[p] = "replay" /\ height[p] < Total(log) /\ kit[p] \in FlowKits /\ seen[p] = log
      /\ UNCHANGED <<log, cache>> /\ FailLoad(p)
  BY DEF BlockDiverges, Loading, Inv, CallInv
<1>2. height[p] \in Nat /\ Cardinality(log) \in Nat /\ InitHeight \in Nat
  BY FS_CardinalityType, ConstantsAssumption DEF Inv, TypeOK, LogInv
<1>3. Filling(p)
  BY <1>1, <1>2 DEF Loading, Filled, Total
<1>4. PICK r \in RowsAt(seen[p], height[p] + 1) : Collect(Mine(kit[p], r.script))
  BY DEF BlockDiverges
<1>5. Others(p) /\ kit'[p] = NoKit
  BY <1>1, FailLoadFrame DEF Inv
<1>6. kit[p] # NoKit
  BY <1>1, ConstantsAssumption
<1>7. \A q \in Procs : kit'[q] # kit[p]
  BY <1>3, <1>5, <1>6 DEF Others, Filling
<1>8. kit[p] \notin Range(kit')
  BY <1>7 DEF TypeInv, TypeOK, Range
<1>9. kit[p] \notin Range(cache')
  BY <1>1, <1>3 DEF Filling
<1>10. \A k \in FlowKits : k # kit[p] => Mine(kit[p], r.script)[k] = chain[k]
  BY DEF Mine, Inv, TypeOK
<1>11. \A k \in FlowKits : k \in Range(cache') \cup Range(kit') => chain'[k] = Mine(kit[p], r.script)[k]
  BY <1>4 DEF Collect
<1> QED
  BY <1>1, <1>5, <1>8, <1>9, <1>10, <1>11 DEF Quiet

LEMMA LoadStepKeeps ==
  ASSUME OneReplica, Inv, TypeInv', NEW p \in Procs, Loading(p), LoadStep(p)
  PROVE  /\ Keeps(p)
         /\ pc'[p] = "run" => Alone(p)' /\ Replays(chain[kit[p]], log)'
         /\ pc'[p] \in {"idle", "readDeployments", "fetch", "replay", "reset", "run"}
<1>1. Continues(p)
  BY ProceedFrame DEF Inv, Proceed
<1>2. CASE ReadExecutions(p) \/ ReadDeployments(p)
  BY <1>2, ReadKeeps DEF ReadExecutions, ReadDeployments, Goto, Inv, TypeOK
<1>3. CASE UseCached(p)
  BY <1>3, UseCachedKeeps DEF UseCached, Goto, Inv, TypeOK
<1>4. CASE TakeNew(p)
  BY <1>4, TakeNewKeeps DEF TakeNew, Goto, Inv, TypeOK
<1>5. CASE RunMissingBlock(p)
  BY <1>5, RunMissingBlockKeeps DEF RunMissingBlock
<1>6. CASE AddToCache(p)
  BY <1>6, AddToCacheKeeps DEF AddToCache, Goto, Inv, TypeOK
<1>7. CASE LoadErrs(p) \/ MissingBlock(p) \/ BlockDiverges(p)
  <2>1. Quiet(p)
    BY <1>7, QuietStep, BlockDivergesQuiet
  <2>2. pc'[p] \in {"idle", "reset"}
    BY <1>7, FailLoadFrame DEF LoadErrs, MissingBlock, BlockDiverges, Inv
  <2> QED
    BY <1>1, <2>1, <2>2, QuietKeeps
<1> QED
  BY <1>2, <1>3, <1>4, <1>5, <1>6, <1>7 DEF LoadStep

-----------------------------------------------------------------------------
(* A step of a reader *)

\* With no rows, any emulator is either ahead of them or bootstrapped.
LEMMA EmptyCache ==
  ASSUME TypeInv', log' = {}
  PROVE  CacheInv'
<1> SUFFICES ASSUME NEW r \in Replicas, cache'[r] # NoKit PROVE Reliable(cache[r])'
  BY DEF CacheInv
<1>1. chain'[cache'[r]] \in Seq(Blocks) /\ Cardinality(log') = 0
  BY FS_EmptySet DEF TypeInv, TypeOK
<1>2. Len(chain'[cache'[r]]) \in Nat
  BY <1>1
<1> QED
  BY <1>1, <1>2 DEF Reliable, Replays

LEMMA ReaderQuiet ==
  ASSUME OneReplica, Inv, TypeInv', NEW p \in Procs, op[p] \notin Writers, ResetStep(p) \/ OpStep(p), log' # {}
  PROVE  Quiet(p) /\ pc'[p] \notin {"readDeployments", "fetch", "replay"}
<1>1. op[p] \notin {"ExecuteTransaction", "DeployContract", "CreateAccount"}
  BY DEF Writers
<1>2. pc[p] \notin {"truncate", "reload", "record"}
  BY <1>1 DEF Inv, CallInv
<1>3. CASE ResetCache(p)
  BY <1>3, QuietStep DEF ResetCache, Goto, Inv, TypeOK
<1>4. CASE ResetErrs(p)
  BY <1>4, QuietStep, ReturnFrame DEF ResetErrs, Inv
<1>5. CASE ExecuteScript(p)
  BY <1>5, QuietStep, ReturnFrame DEF ExecuteScript, Inv
<1>6. CASE ReadAccount(p)
  BY <1>6, QuietStep DEF ReadAccount, Goto, Inv, TypeOK
<1>7. CASE ReadStorage(p)
  BY <1>7, QuietStep, ReturnFrame, LoadFrame DEF ReadStorage, Inv
<1>8. CASE ScriptErrs(p)
  BY <1>1, <1>8, QuietStep, ReturnFrame DEF ScriptErrs, MayLeaveBlock, Inv
<1>9. CASE StoreErrs(p)
  BY <1>9, QuietStep, ReturnFrame DEF StoreErrs, Inv
<1> QED
  BY <1>1, <1>2, <1>3, <1>4, <1>5, <1>6, <1>7, <1>8, <1>9
     DEF ResetStep, OpStep, ResetState, ExecuteTransaction, CreateAccount, DeployContract,
         FindDeployment, Truncate, Reload, DeployRefused, Record

\* A reader leaves the rows as they are, unless its load resets the project.
LEMMA ReaderLog ==
  ASSUME Inv, NEW p \in Procs, op[p] \notin Writers, Proceed(p)
  PROVE  log' = log \/ log' = {}
<1>1. op[p] \notin {"ExecuteTransaction", "DeployContract", "CreateAccount"}
  BY DEF Writers
<1>2. pc[p] \notin {"truncate", "reload", "record"}
  BY <1>1 DEF Inv, CallInv
<1>3. CASE LoadStep(p)
  BY <1>3 DEF LoadStep, ReadExecutions, ReadDeployments, UseCached, TakeNew, RunMissingBlock,
              AddToCache, LoadErrs, MissingBlock, BlockDiverges
<1>4. CASE ResetStep(p)
  BY <1>4 DEF ResetStep, ResetCache, ResetState, ResetErrs
<1>5. CASE OpStep(p)
  BY <1>1, <1>2, <1>5 DEF OpStep, ExecuteTransaction, ExecuteScript, ReadAccount, ReadStorage,
     CreateAccount, DeployContract, FindDeployment, Truncate, Reload, DeployRefused, Record,
     ScriptErrs, StoreErrs
<1> QED
  BY <1>3, <1>4, <1>5 DEF Proceed

LEMMA ReaderStep ==
  ASSUME OneReplica, LocksTaken, Inv, TypeInv', NEW p \in Procs, op[p] \notin Writers, Proceed(p)
  PROVE  LogInv' /\ CacheInv' /\ LoadInv' /\ WriterInv'
<1>1. Continues(p)
  BY ProceedFrame DEF Inv
<1>2. \A q \in Procs : op'[q] \in Writers => pc'[q] = "waiting"
  BY <1>1, ReadersOnly DEF Continues, Others, Writers
<1>3. WriterInv'
  BY <1>2 DEF WriterInv, Serving
<1>4. \A q \in Procs : op'[q] \in Writers => Loading(q)'
  BY <1>2 DEF Loading
<1>5. CASE log' = {}
  <2>1. LoadInv'
    BY <1>4, <1>5 DEF LoadInv
  <2> QED
    BY <1>3, <1>5, <2>1, ResetKeepsLog, EmptyCache
<1>6. CASE log' # {}
  <2>1. log' = log
    BY <1>6, ReaderLog
  <2>2. \A q \in Procs : (pc[q] # "idle" /\ op[q] \notin Writers) => Loading(q)
    BY <1>6, <2>1 DEF Inv, LoadInv
  <2>3. pc[p] # "idle"
    BY <1>1 DEF Continues
  <2>4. Keeps(p)
    <3>1. CASE LoadStep(p)
      BY <2>2, <2>3, <3>1, LoadStepKeeps
    <3>2. CASE ResetStep(p) \/ OpStep(p)
      BY <1>1, <1>6, <3>2, ReaderQuiet, QuietKeeps
    <3> QED
      BY <3>1, <3>2 DEF Proceed
  <2>5. LoadInv'
    BY <1>1, <1>4, <2>2, <2>3, <2>4 DEF LoadInv, Keeps, Continues, Others
  <2>6. LogInv'
    BY <2>1 DEF Inv, LogInv, LogContiguous
  <2> QED
    BY <1>3, <2>4, <2>5, <2>6 DEF Keeps
<1> QED
  BY <1>5, <1>6

-----------------------------------------------------------------------------
(* A step of a call that changes the project *)

\* What such a step must reestablish: the other calls are idle or wait for the lock.
WriterKeeps(p) ==
  /\ LogInv'
  /\ CacheInv'
  /\ Loading(p)'
  /\ op'[p] \in Writers =>
       /\ Serving(p)' => Alone(p)' /\ Replays(chain[kit[p]], log)'
       /\ pc'[p] = "record" =>
            /\ Alone(p)'
            /\ script'[p] \in Scripts
            /\ Len(chain'[kit'[p]]) = Cardinality(log') + 1
            /\ \A i \in 1..Cardinality(log') :
                 [height |-> InitHeight + i, script |-> chain'[kit'[p]][i]] \in log'
            /\ chain'[kit'[p]][Cardinality(log') + 1] = script'[p]

LEMMA WriterSuffices ==
  ASSUME LocksTaken, Inv, NEW p \in Procs, op[p] \in Writers, Proceed(p), WriterKeeps(p)
  PROVE  LogInv' /\ CacheInv' /\ LoadInv' /\ WriterInv'
<1>1. Continues(p)
  BY ProceedFrame DEF Inv
<1>2. \A q \in Procs \ {p} : pc'[q] \in {"idle", "waiting"}
  BY <1>1, WriterAlone DEF Continues, Others
<1>3. \A q \in Procs : Loading(q)'
  BY <1>2 DEF Loading, WriterKeeps
<1>4. WriterInv'
  BY <1>2 DEF WriterInv, WriterKeeps, Serving
<1> QED
  BY <1>3, <1>4 DEF LoadInv, WriterKeeps

\* Sending a block to the writer's emulator puts the emulator ahead of the rows.
LEMMA MineAhead ==
  ASSUME Inv, TypeInv', NEW p \in Procs, op[p] \in Writers, pc[p] = "run", NEW b \in Blocks,
         log' = log,
         \A r \in Replicas : cache'[r] \in {NoKit, cache[r]},
         \A k \in FlowKits : k \in Range(cache') \cup Range(kit') => chain'[k] = Mine(kit[p], b)[k]
  PROVE  /\ LogInv' /\ CacheInv'
         /\ kit'[p] = kit[p] =>
              /\ Alone(p)'
              /\ Len(chain'[kit'[p]]) = Cardinality(log) + 1
              /\ \A i \in 1..Cardinality(log) :
                   [height |-> InitHeight + i, script |-> chain'[kit'[p]][i]] \in log
              /\ chain'[kit'[p]][Cardinality(log) + 1] = b
<1>1. kit[p] \in FlowKits /\ Alone(p) /\ Replays(chain[kit[p]], log)
  BY DEF Inv, CallInv, WriterInv, Serving
<1>2. chain[kit[p]] \in Seq(Blocks) /\ Cardinality(log) \in Nat
  BY <1>1, FS_CardinalityType DEF Inv, TypeOK, LogInv
<1> DEFINE new == Mine(kit[p], b)[kit[p]]
<1>3. new = Append(chain[kit[p]], b)
  BY <1>1 DEF Mine, Inv, TypeOK
<1>4. /\ Len(new) = Cardinality(log) + 1
      /\ \A i \in 1..Cardinality(log) : new[i] = chain[kit[p]][i]
      /\ new[Cardinality(log) + 1] = b
  BY <1>1, <1>2, <1>3, AppendProperties DEF Replays
<1>5. \A i \in 1..Cardinality(log) : [height |-> InitHeight + i, script |-> new[i]] \in log
  BY <1>1, <1>4 DEF Replays
<1> HIDE DEF new
<1>6. CacheInv'
  <2> SUFFICES ASSUME NEW r \in Replicas, cache'[r] # NoKit PROVE Reliable(cache[r])'
    BY DEF CacheInv
  <2>1. cache'[r] = kit[p]
    BY <1>1 DEF Alone
  <2>2. chain'[cache'[r]] = new
    BY <1>1, <2>1, InUseNext DEF new
  <2> QED
    BY <1>2, <1>4, <2>2 DEF Reliable
<1>7. LogInv'
  BY DEF Inv, LogInv, LogContiguous
<1>8. ASSUME kit'[p] = kit[p] PROVE chain'[kit'[p]] = new /\ Alone(p)'
  BY <1>1, <1>8, InUseNext DEF Alone, new
<1> QED
  BY <1>4, <1>5, <1>6, <1>7, <1>8

\* A quiet step after which the call uses no emulator.
LEMMA WriterQuiet ==
  ASSUME Inv, TypeInv', NEW p \in Procs, Quiet(p), Continues(p),
         pc'[p] \in {"idle", "readExecutions", "reset", "resetState", "truncate", "reload"}
  PROVE  WriterKeeps(p)
<1>1. LogInv'
  BY DEF Quiet, Inv, LogInv, LogContiguous
<1>2. CacheInv' /\ Loading(p)'
  BY QuietKeeps DEF Keeps
<1> QED
  BY <1>1, <1>2 DEF WriterKeeps, Serving

LEMMA TruncateWriter ==
  ASSUME Inv, TypeInv', NEW p \in Procs, Truncate(p)
  PROVE  WriterKeeps(p)
<1>1. /\ log' = RowsBelow(log, height[p]) /\ height[p] \in Nat /\ log \in SUBSET Rows
      /\ UNCHANGED <<cache, chain>> /\ pc'[p] = "reload"
  BY DEF Truncate, Goto, Inv, TypeOK
<1>2. /\ LogInv'
      /\ Cardinality(log') <= Cardinality(log)
      /\ Cardinality(log') = Cardinality(log) => log' = log
  BY <1>1, TruncateKeepsLog DEF Inv
<1>3. Cardinality(log) \in Nat /\ Cardinality(log') \in Nat
  BY <1>2, FS_CardinalityType DEF Inv, LogInv
<1>4. CacheInv'
  <2> SUFFICES ASSUME NEW r \in Replicas, cache[r] # NoKit PROVE Reliable(cache[r])'
    BY <1>1 DEF CacheInv
  <2>1. Reliable(cache[r]) /\ Len(chain[cache[r]]) \in Nat
    BY DEF Inv, CacheInv, TypeOK
  <2> QED
    BY <1>1, <1>2, <1>3, <2>1 DEF Reliable, Replays
<1> QED
  BY <1>1, <1>2, <1>4 DEF WriterKeeps, Loading, Serving

LEMMA RecordWriter ==
  ASSUME Inv, TypeInv', NEW p \in Procs, op[p] \in Writers, Record(p)
  PROVE  WriterKeeps(p)
<1> DEFINE n == Cardinality(log)
           k == kit[p]
<1>1. /\ pc[p] = "record" /\ k \in FlowKits
      /\ log' = log \cup {[height |-> Top(k), script |-> script[p]]}
      /\ cache' = cache /\ Collect(chain)
  BY DEF Record, Inv, CallInv
<1>2. pc'[p] = "idle" /\ op'[p] = "none"
  BY ReturnFrame DEF Record, Inv
<1>3. /\ Alone(p) /\ script[p] \in Scripts /\ Len(chain[k]) = n + 1
      /\ \A i \in 1..n : [height |-> InitHeight + i, script |-> chain[k][i]] \in log
      /\ chain[k][n + 1] = script[p]
  BY <1>1 DEF Inv, WriterInv
<1>4. n \in Nat /\ InitHeight \in Nat
  BY FS_CardinalityType, ConstantsAssumption DEF Inv, LogInv
<1>5. Top(k) = InitHeight + n + 1
  BY <1>3, <1>4 DEF Top
<1>6. LogInv' /\ Cardinality(log') = n + 1
  BY <1>1, <1>3, <1>5, RecordKeepsLog DEF Inv, TypeOK
<1>7. \A i \in 1..(n + 1) : [height |-> InitHeight + i, script |-> chain[k][i]] \in log'
  <2> SUFFICES ASSUME NEW i \in 1..(n + 1)
               PROVE  [height |-> InitHeight + i, script |-> chain[k][i]] \in log'
    OBVIOUS
  <2>1. CASE i = n + 1
    BY <1>1, <1>3, <1>4, <1>5, <2>1
  <2>2. CASE i # n + 1
    <3>1. i \in 1..n
      BY <1>4, <2>2
    <3> QED
      BY <1>1, <1>3, <3>1
  <2> QED
    BY <2>1, <2>2
<1>8. CacheInv'
  <2> SUFFICES ASSUME NEW r \in Replicas, cache'[r] # NoKit PROVE Reliable(cache[r])'
    BY DEF CacheInv
  <2>1. cache'[r] = k
    BY <1>1, <1>3 DEF Alone
  <2>2. chain'[cache'[r]] = chain[k]
    BY <1>1, <2>1, CollectKeeps, InUseNext
  <2> QED
    BY <1>3, <1>4, <1>6, <1>7, <2>2 DEF Reliable, Replays
<1> QED
  BY <1>2, <1>6, <1>8 DEF WriterKeeps, Loading, Writers

LEMMA WriterStep ==
  ASSUME OneReplica, LocksTaken, Inv, TypeInv', NEW p \in Procs, op[p] \in Writers, Proceed(p)
  PROVE  LogInv' /\ CacheInv' /\ LoadInv' /\ WriterInv'
<1> SUFFICES WriterKeeps(p)
  BY WriterSuffices
<1>0. TypeOK /\ Continues(p) /\ Loading(p) /\ Unrecorded \in Blocks /\ Scripts \subseteq Blocks
  BY ProceedFrame DEF Inv, LoadInv, Blocks
<1>1. CASE LoadStep(p)
  <2>1. LogInv'
    BY <1>0, <1>1, LoadStepKeeps DEF Keeps, Inv, LogInv, LogContiguous
  <2> QED
    BY <1>0, <1>1, <2>1, LoadStepKeeps DEF Keeps, WriterKeeps, Serving
<1>2. CASE ResetStep(p)
  <2>1. CASE ResetCache(p) \/ ResetErrs(p)
    <3>1. pc'[p] \in {"idle", "resetState"}
      BY <1>0, <2>1, ReturnFrame DEF ResetCache, ResetErrs, Goto, TypeOK
    <3> QED
      BY <1>0, <2>1, <3>1, QuietStep, WriterQuiet
  <2>2. CASE ResetState(p)
    <3>1. log' = {} /\ pc'[p] \in {"idle", "readExecutions"}
      BY <1>0, <2>2, ReturnFrame, LoadFrame DEF ResetState
    <3> QED
      BY <3>1, ResetKeepsLog, EmptyCache DEF WriterKeeps, Loading, Serving
  <2> QED
    BY <1>2, <2>1, <2>2 DEF ResetStep
<1>3. CASE OpStep(p)
  <2>1. CASE ExecuteTransaction(p) \/ DeployContract(p)
    <3>1. /\ pc[p] = "run" /\ op[p] \in {"ExecuteTransaction", "DeployContract"}
          /\ pc'[p] = "record" /\ chain' = Mine(kit[p], script[p])
          /\ UNCHANGED <<log, cache, kit, script>>
      BY <1>0, <2>1 DEF ExecuteTransaction, DeployContract, Goto, TypeOK
    <3>2. script[p] \in Scripts
      BY <3>1 DEF Inv, CallInv, Scripts
    <3> QED
      BY <1>0, <3>1, <3>2, MineAhead DEF WriterKeeps, Loading, Serving
  <2>2. CASE CreateAccount(p)
    <3>1. /\ pc[p] = "run" /\ pc'[p] = "readExecutions" /\ UNCHANGED <<log, cache>>
          /\ Collect(Mine(kit[p], Unrecorded))
      BY <1>0, <2>2, LoadFrame DEF CreateAccount
    <3> QED
      BY <1>0, <3>1, MineAhead, CollectKeeps DEF WriterKeeps, Loading, Serving
  <2>3. CASE ReadAccount(p)
    <3>1. /\ pc[p] = "run" /\ pc'[p] = "storage" /\ UNCHANGED <<log, cache, kit, chain>>
      BY <1>0, <2>3 DEF ReadAccount, Goto, TypeOK
    <3>2. Alone(p)' /\ Replays(chain[kit[p]], log)'
      BY <3>1 DEF Inv, WriterInv, Serving, Alone, Replays
    <3>3. LogInv' /\ CacheInv'
      BY <3>1 DEF Inv, LogInv, LogContiguous, CacheInv, Reliable, Replays
    <3> QED
      BY <3>1, <3>2, <3>3 DEF WriterKeeps, Loading
  <2>4. CASE ReadStorage(p) \/ FindDeployment(p) \/ Reload(p) \/ DeployRefused(p) \/ StoreErrs(p) \/ ExecuteScript(p)
    <3>1. pc'[p] \in {"idle", "readExecutions", "truncate"}
      BY <1>0, <2>4, ReturnFrame, LoadFrame
         DEF ReadStorage, FindDeployment, Reload, DeployRefused, StoreErrs, ExecuteScript, Goto, TypeOK
    <3> QED
      BY <1>0, <2>4, <3>1, QuietStep, WriterQuiet
  <2>5. CASE Truncate(p)
    BY <2>5, TruncateWriter
  <2>6. CASE Record(p)
    BY <2>6, RecordWriter
  <2>7. CASE ScriptErrs(p)
    <3>1. pc'[p] = "idle" /\ op'[p] = "none" /\ UNCHANGED <<log, cache>>
      BY <1>0, <2>7, ReturnFrame DEF ScriptErrs
    <3>2. CASE Collect(chain)
      BY <1>0, <2>7, <3>1, <3>2, QuietStep, WriterQuiet
    <3>3. CASE Collect(Mine(kit[p], Unrecorded)) /\ MayLeaveBlock(p)
      BY <1>0, <3>1, <3>3, MineAhead, CollectKeeps DEF MayLeaveBlock, WriterKeeps, Loading, Serving, Writers
    <3> QED
      BY <2>7, <3>2, <3>3 DEF ScriptErrs
  <2> QED
    BY <1>3, <2>1, <2>2, <2>3, <2>4, <2>5, <2>6, <2>7 DEF OpStep
<1> QED
  BY <1>1, <1>2, <1>3 DEF Proceed

-----------------------------------------------------------------------------
(* Steps that are not a call's own *)

LEMMA RequestStep ==
  ASSUME LocksTaken, Inv, TypeInv', NEW p \in Procs, Request(p)
  PROVE  Inv'
<1>1. PICK o \in Ops : /\ op' = [op EXCEPT ![p] = o]
                       /\ Goto(p, CASE o = "Reset"       -> "reset"
                                    [] o = "GetFlowJson" -> "readExecutions"
                                    [] OTHER             -> "waiting")
  BY DEF Request
<1>2. o \in Locked /\ o # "Reset" /\ o # "GetFlowJson"
  BY DEF LocksTaken, Locked, Writers, Readers
<1>3. /\ pc[p] = "idle" /\ pc'[p] = "waiting" /\ op'[p] = o
      /\ \A q \in Procs \ {p} : pc'[q] = pc[q] /\ op'[q] = op[q] /\ script'[q] = script[q]
      /\ UNCHANGED <<log, cache, chain, seen, kit, height>>
  BY <1>1, <1>2 DEF Request, Goto, Inv, TypeOK
<1>4. OpsInv'
  BY <1>3 DEF Inv, OpsInv
<1>5. LockInv'
  BY <1>3 DEF Inv, LockInv, Holding
<1>6. LogInv' /\ CacheInv'
  BY <1>3 DEF Inv, LogInv, LogContiguous, CacheInv, Reliable, Replays
<1>7. \A q \in Procs \ {p} : Loading(q) => Loading(q)'
  BY <1>3 DEF Loading, Filling, Filled, Replays, TxRows, Top, Total
<1>8. Loading(p)'
  BY <1>3 DEF Loading
<1>9. LoadInv'
  BY <1>3, <1>7, <1>8 DEF Inv, LoadInv
<1>10. WriterInv'
  BY <1>3 DEF Inv, WriterInv, Serving, Alone, Replays
<1> QED
  BY <1>4, <1>5, <1>6, <1>9, <1>10 DEF Inv, TypeInv

LEMMA AcquireStep ==
  ASSUME OneReplica, Inv, TypeInv', NEW p \in Procs, Acquire(p)
  PROVE  Inv'
<1>1. /\ pc[p] = "waiting" /\ pc'[p] = "readExecutions"
      /\ \A q \in Procs \ {p} : pc'[q] = pc[q]
      /\ UNCHANGED <<log, cache, chain, op, script, seen, kit, height>>
  BY DEF Acquire, Goto, Inv, TypeOK
<1>2. OpsInv'
  BY <1>1 DEF Inv, OpsInv
<1>3. \A q \in Procs \ {p} : Holding(q) => (op[p] \in Readers /\ op[q] \in Readers)
  <2>1. \A q \in Procs : Home[q] = Home[p]
    BY ConstantsAssumption DEF OneReplica
  <2> QED
    BY <2>1 DEF Acquire, MayLock
<1>4. LockInv'
  BY <1>1, <1>3 DEF Inv, LockInv, Holding
<1>5. LogInv' /\ CacheInv'
  BY <1>1 DEF Inv, LogInv, LogContiguous, CacheInv, Reliable, Replays
<1>6. \A q \in Procs \ {p} : Loading(q) => Loading(q)'
  BY <1>1 DEF Loading, Filling, Filled, Replays, TxRows, Top, Total
<1>7. Loading(p)'
  BY <1>1 DEF Loading
<1>8. LoadInv'
  BY <1>1, <1>6, <1>7 DEF Inv, LoadInv
<1>9. WriterInv'
  BY <1>1 DEF Inv, WriterInv, Serving, Alone, Replays
<1> QED
  BY <1>2, <1>4, <1>5, <1>8, <1>9 DEF Inv, TypeInv

LEMMA EvictStep ==
  ASSUME Inv, TypeInv', NEW r \in Replicas, Evict(r)
  PROVE  Inv'
<1>1. /\ UNCHANGED <<log, pc, op, script, seen, kit, height>>
      /\ \A o \in Replicas : cache'[o] \in {NoKit, cache[o]}
      /\ \A k \in FlowKits : k \in Range(cache') \cup Range(kit') => chain'[k] = chain[k]
  BY CollectKeeps DEF Evict, Inv, TypeOK
<1>2. CacheInv'
  BY <1>1, KeptCache
<1>3. OpsInv' /\ LockInv' /\ LogInv'
  BY <1>1 DEF Inv, OpsInv, LockInv, Holding, LogInv, LogContiguous
<1>4. \A q \in Procs : kit[q] \in FlowKits => chain'[kit[q]] = chain[kit[q]]
  BY <1>1, InUseNext
<1>5. ASSUME NEW q \in Procs, Loading(q) PROVE Loading(q)'
  <2>1. ASSUME pc[q] = "replay" PROVE Filling(q)' \/ Filled(q)'
    <3>1. kit[q] \in FlowKits /\ kit[q] # NoKit /\ chain'[kit[q]] = chain[kit[q]]
      BY <1>4, <2>1, ConstantsAssumption DEF Inv, CallInv
    <3>2. CASE Filled(q)
      BY <1>1, <3>1, <3>2 DEF Filled, Replays, Total
    <3>3. CASE Filling(q)
      <4>1. kit'[q] \notin Range(cache')
        BY <1>1, <3>1, <3>3, InUseNext, InUseNow DEF Inv, TypeInv, Filling
      <4> QED
        BY <1>1, <3>1, <3>3, <4>1 DEF Filling, Total, Top
    <3> QED
      BY <1>5, <2>1, <3>2, <3>3 DEF Loading
  <2> QED
    BY <1>1, <1>5, <2>1 DEF Loading, TxRows
<1>6. LoadInv'
  BY <1>1, <1>5 DEF Inv, LoadInv
<1>7. WriterInv'
  <2>1. \A q \in Procs : (Serving(q) \/ pc[q] = "record") => chain'[kit[q]] = chain[kit[q]]
    BY <1>4 DEF Inv, CallInv, Serving
  <2>2. \A q \in Procs : Alone(q) => Alone(q)'
    BY <1>1 DEF Alone
  <2> QED
    BY <1>1, <2>1, <2>2 DEF Inv, WriterInv, Serving, Replays
<1> QED
  BY <1>2, <1>3, <1>6, <1>7 DEF Inv, TypeInv

\* The only replica stops: no call is left.
LEMMA CrashStep ==
  ASSUME OneReplica, Inv, TypeInv', NEW r \in Replicas, Crash(r)
  PROVE  Inv'
<1>1. \A p \in Procs : pc'[p] = "idle" /\ op'[p] = "none"
  BY DEF OneReplica, Crash
<1>2. CacheInv'
  BY KeptCache, CollectKeeps DEF Crash, Inv, TypeOK
<1>3. OpsInv' /\ LockInv' /\ LogInv'
  BY <1>1 DEF Inv, Crash, OpsInv, LockInv, Holding, LogInv, LogContiguous
<1>4. LoadInv' /\ WriterInv'
  BY <1>1 DEF LoadInv, Loading, WriterInv, Writers
<1> QED
  BY <1>2, <1>3, <1>4 DEF Inv, TypeInv

-----------------------------------------------------------------------------
LEMMA InitInv == Init => Inv
<1> SUFFICES ASSUME Init PROVE Inv
  OBVIOUS
<1>1. TypeOK /\ CallInv
  BY ConstantsAssumption DEF Init, TypeOK, CallInv, Steps
<1>2. LogInv
  <2>1. IsFiniteSet(log) /\ Cardinality(log) = 0
    BY FS_EmptySet DEF Init
  <2>2. {x.height : x \in log} = {} /\ (InitHeight + 1)..(InitHeight + 0) = {}
    BY ConstantsAssumption DEF Init
  <2> QED
    BY <2>1, <2>2 DEF Init, LogInv, LogContiguous
<1>3. OpsInv /\ LockInv /\ CacheInv /\ LoadInv /\ WriterInv
  BY DEF Init, OpsInv, LockInv, Holding, CacheInv, LoadInv, Loading, WriterInv, Writers
<1> QED
  BY <1>1, <1>2, <1>3 DEF Inv

LEMMA InvStep == OneReplica /\ LocksTaken /\ Inv /\ [Next]_vars => Inv'
<1> SUFFICES ASSUME OneReplica, LocksTaken, Inv, [Next]_vars PROVE Inv'
  OBVIOUS
<1>1. TypeInv'
  BY TypeStep DEF Inv, TypeInv
<1>2. ASSUME NEW p \in Procs, Proceed(p) PROVE Inv'
  <2>1. LogInv' /\ CacheInv' /\ LoadInv' /\ WriterInv'
    BY <1>1, <1>2, ReaderStep, WriterStep
  <2> QED
    BY <1>1, <1>2, <2>1, ControlStep DEF Inv, TypeInv
<1>3. CASE UNCHANGED vars
  BY ZenonT(40), <1>3 DEF vars, Inv, TypeOK, OpsInv, CallInv, LockInv, Holding, LogInv, LogContiguous, CacheInv, Reliable,
              LoadInv, Loading, Filling, Filled, WriterInv, Alone, Serving, Replays, Top, Total, TxRows
<1> QED
  BY <1>1, <1>2, <1>3, RequestStep, AcquireStep, EvictStep, CrashStep DEF Next

\* At one replica whose calls take the project's lock (src/blockchain/mutex.go) the invariant
\* holds, for any number of calls and rows and whatever of Faults happens.
THEOREM InvariantHolds ==
  ASSUME OneReplica, LocksTaken
  PROVE  Spec => []Inv
<1>1. Init => Inv
  BY InitInv
<1>2. Inv /\ [Next]_vars => Inv'
  BY InvStep
<1> QED
  BY <1>1, <1>2, PTL DEF Spec

\* The rows number the blocks of a project from the first, none missing and none twice: what
\* runMissingBlocks (src/blockchain/projects.go:380-427) needs to replay them.
THEOREM RowsContiguous ==
  ASSUME OneReplica, LocksTaken
  PROVE  Spec => []LogContiguous
<1>1. Inv => LogContiguous
  BY DEF Inv, LogInv
<1> QED
  BY <1>1, InvariantHolds, PTL

\* A transaction, a deployment or an account creation runs on an emulator that ran exactly the
\* rows: the state load recreates (src/blockchain/projects.go:292-358) is the persisted one.
THEOREM WritersServed ==
  ASSUME OneReplica, LocksTaken
  PROVE  Spec => []WriterServesLog
<1>1. Inv => WriterServesLog
  BY DEF Inv, WriterInv, WriterServesLog
<1> QED
  BY <1>1, InvariantHolds, PTL

-----------------------------------------------------------------------------
(* A replay counts no block its emulator lacks *)

\* An emulator a call keeps loses no block.
Grows == \A k \in FlowKits : k \in Range(kit) \cap Range(kit') => Len(chain'[k]) >= Len(chain[k])

LEMMA MineLonger ==
  ASSUME TypeOK, NEW k, NEW b \in Blocks, NEW j \in FlowKits
  PROVE  Len(Mine(k, b)[j]) >= Len(chain[j])
<1>1. chain[j] \in Seq(Blocks) /\ Len(chain[j]) \in Nat
  BY DEF TypeOK
<1>2. Mine(k, b)[j] = IF j = k THEN Append(chain[j], b) ELSE chain[j]
  BY DEF Mine, TypeOK
<1> QED
  BY <1>1, <1>2

LEMMA GrowsBy ==
  ASSUME NEW blocks, chain' = blocks \/ Collect(blocks),
         \A k \in FlowKits : k \in Range(kit) => Len(blocks[k]) >= Len(chain[k])
  PROVE  Grows
BY DEF Grows, Collect

LEMMA GrowsStep ==
  ASSUME TypeInv, [Next]_vars
  PROVE  Grows
<1>1. /\ TypeOK /\ Unrecorded \in Blocks /\ Scripts \subseteq Blocks
      /\ \A k \in FlowKits : Len(chain[k]) \in Nat
  BY DEF TypeInv, TypeOK, Blocks
<1>2. ASSUME chain' = chain \/ Collect(chain) PROVE Grows
  BY <1>1, <1>2, GrowsBy
<1>3. ASSUME NEW k, NEW b \in Blocks, chain' = Mine(k, b) \/ Collect(Mine(k, b)) PROVE Grows
  BY <1>1, <1>3, MineLonger, GrowsBy
<1>4. ASSUME NEW p \in Procs, LoadStep(p) PROVE Grows
  <2>1. CASE ReadExecutions(p) \/ ReadDeployments(p) \/ UseCached(p) \/ AddToCache(p) \/ LoadErrs(p) \/ MissingBlock(p)
    BY <1>2, <2>1 DEF ReadExecutions, ReadDeployments, UseCached, AddToCache, LoadErrs, MissingBlock
  <2>2. CASE TakeNew(p)
    <3> DEFINE new == CHOOSE x \in Spare : TRUE
               blocks == [chain EXCEPT ![new] = <<>>]
    <3>1. new \in FlowKits /\ new \notin Range(kit) /\ Collect(blocks)
      BY <2>2 DEF TakeNew, Spare, InUse
    <3>2. \A k \in FlowKits : k # new => blocks[k] = chain[k]
      BY <1>1 DEF TypeOK
    <3> HIDE DEF new, blocks
    <3>3. \A k \in FlowKits : k \in Range(kit) => Len(blocks[k]) >= Len(chain[k])
      BY <1>1, <3>1, <3>2
    <3> QED
      BY <3>1, <3>3, GrowsBy
  <2>3. CASE RunMissingBlock(p) \/ BlockDiverges(p)
    <3>1. PICK r \in RowsAt(seen[p], height[p] + 1) :
            chain' = Mine(kit[p], r.script) \/ Collect(Mine(kit[p], r.script))
      BY <2>3 DEF RunMissingBlock, BlockDiverges
    <3>2. r.script \in Blocks
      BY <1>1, RowsAtType DEF TypeOK
    <3> QED
      BY <1>3, <3>1, <3>2
  <2> QED
    BY <1>4, <2>1, <2>2, <2>3 DEF LoadStep
<1>5. ASSUME NEW p \in Procs, ResetStep(p) PROVE Grows
  BY <1>2, <1>5 DEF ResetStep, ResetCache, ResetState, ResetErrs
<1>6. ASSUME NEW p \in Procs, OpStep(p) PROVE Grows
  <2>1. CASE ExecuteTransaction(p) \/ DeployContract(p)
    <3>1. chain' = Mine(kit[p], script[p]) /\ script[p] \in Scripts
      BY <2>1 DEF ExecuteTransaction, DeployContract, TypeInv, CallInv, Scripts
    <3> QED
      BY <1>1, <1>3, <3>1
  <2>2. CASE CreateAccount(p)
    BY <1>1, <1>3, <2>2 DEF CreateAccount
  <2>3. CASE ScriptErrs(p)
    BY <1>1, <1>2, <1>3, <2>3 DEF ScriptErrs
  <2>4. CASE ExecuteScript(p) \/ ReadAccount(p) \/ ReadStorage(p) \/ FindDeployment(p) \/ Truncate(p)
               \/ Reload(p) \/ DeployRefused(p) \/ Record(p) \/ StoreErrs(p)
    BY <1>2, <2>4 DEF ExecuteScript, ReadAccount, ReadStorage, FindDeployment, Truncate,
                      Reload, DeployRefused, Record, StoreErrs
  <2> QED
    BY <1>6, <2>1, <2>2, <2>3, <2>4 DEF OpStep
<1>7. ASSUME NEW r \in Replicas, Evict(r) \/ Crash(r) PROVE Grows
  BY <1>2, <1>7 DEF Evict, Crash
<1>8. ASSUME NEW p \in Procs, Request(p) \/ Acquire(p) PROVE Grows
  BY <1>2, <1>8 DEF Request, Acquire
<1> QED
  BY <1>2, <1>4, <1>5, <1>6, <1>7, <1>8 DEF Next, Proceed, vars

\* A call goes on replaying the emulator it had, at the height it had, or starts to or runs a block.
LEMMA ReplayFrame ==
  ASSUME TypeInv, [Next]_vars, NEW q \in Procs, pc'[q] = "replay"
  PROVE  \/ pc[q] = "replay" /\ kit'[q] = kit[q] /\ height'[q] = height[q]
         \/ UseCached(q) \/ TakeNew(q) \/ RunMissingBlock(q)
<1>0. TypeOK
  BY DEF TypeInv
<1>1. ASSUME NEW p \in Procs \ {q}, Proceed(p) PROVE pc[q] = "replay" /\ kit'[q] = kit[q] /\ height'[q] = height[q]
  BY <1>0, <1>1, ProceedFrame DEF Continues, Others
<1>2. ASSUME LoadStep(q) PROVE UseCached(q) \/ TakeNew(q) \/ RunMissingBlock(q)
  <2>1. ~(LoadErrs(q) \/ MissingBlock(q) \/ BlockDiverges(q))
    BY <1>0, FailLoadFrame DEF LoadErrs, MissingBlock, BlockDiverges
  <2>2. ~(ReadExecutions(q) \/ ReadDeployments(q) \/ AddToCache(q))
    BY <1>0 DEF ReadExecutions, ReadDeployments, AddToCache, Goto, TypeOK
  <2> QED
    BY <1>2, <2>1, <2>2 DEF LoadStep
<1>3. ~ResetStep(q)
  BY <1>0, ReturnFrame, LoadFrame DEF ResetStep, ResetCache, ResetState, ResetErrs, Goto, TypeOK
<1>4. ~OpStep(q)
  <2>1. ~(ExecuteTransaction(q) \/ ReadAccount(q) \/ DeployContract(q) \/ FindDeployment(q) \/ Truncate(q))
    BY <1>0 DEF ExecuteTransaction, ReadAccount, DeployContract, FindDeployment, Truncate, Goto, TypeOK
  <2>2. ~(ReadStorage(q) \/ CreateAccount(q) \/ Reload(q) \/ ExecuteScript(q) \/ DeployRefused(q)
            \/ Record(q) \/ ScriptErrs(q) \/ StoreErrs(q))
    BY <1>0, ReturnFrame, LoadFrame
       DEF ReadStorage, CreateAccount, Reload, ExecuteScript, DeployRefused, Record, ScriptErrs, StoreErrs
  <2> QED
    BY <2>1, <2>2 DEF OpStep
<1>5. ASSUME NEW p \in Procs, Request(p) \/ Acquire(p)
      PROVE  pc[q] = "replay" /\ kit'[q] = kit[q] /\ height'[q] = height[q]
  <2>1. CASE Acquire(p)
    BY <1>0, <2>1 DEF Acquire, Goto, TypeOK
  <2>2. CASE Request(p)
    <3>1. PICK s \in {"reset", "readExecutions", "waiting"} : Goto(p, s)
      BY <2>2 DEF Request
    <3> QED
      BY <1>0, <2>2, <3>1 DEF Request, Goto, TypeOK
  <2> QED
    BY <1>5, <2>1, <2>2
<1>6. ASSUME NEW r \in Replicas, Evict(r) \/ Crash(r)
      PROVE  pc[q] = "replay" /\ kit'[q] = kit[q] /\ height'[q] = height[q]
  BY ZenonT(40), <1>0, <1>6 DEF Evict, Crash, TypeOK
<1> QED
  BY <1>0, <1>1, <1>2, <1>3, <1>4, <1>5, <1>6 DEF Next, Proceed, vars

LEMMA BehindStep ==
  ASSUME TypeInv, TypeInv', NeverBehind, [Next]_vars
  PROVE  NeverBehind'
<1> SUFFICES ASSUME NEW q \in Procs, pc'[q] = "replay" PROVE height'[q] <= Top(kit[q])'
  BY DEF NeverBehind
<1>1. /\ kit'[q] \in FlowKits /\ kit'[q] \in Range(kit') /\ InitHeight \in Nat
      /\ Len(chain'[kit'[q]]) \in Nat
  BY ConstantsAssumption DEF TypeInv, TypeOK, CallInv, Range
<1>2. CASE pc[q] = "replay" /\ kit'[q] = kit[q] /\ height'[q] = height[q]
  <2>1. kit[q] \in Range(kit) /\ Len(chain[kit[q]]) \in Nat /\ height[q] \in Nat
    BY <1>1, <1>2 DEF TypeInv, TypeOK, Range
  <2>2. Len(chain'[kit[q]]) >= Len(chain[kit[q]])
    BY <1>1, <1>2, <2>1, GrowsStep DEF Grows
  <2> QED
    BY <1>1, <1>2, <2>1, <2>2 DEF NeverBehind, Top
<1>3. CASE UseCached(q)
  <2>1. kit'[q] = cache[Home[q]] /\ height'[q] = Top(cache[Home[q]]) /\ chain' = chain
    BY <1>3 DEF UseCached, TypeInv, TypeOK
  <2> QED
    BY <1>1, <2>1 DEF Top
<1>4. CASE TakeNew(q)
  BY <1>1, <1>4 DEF TakeNew, TypeInv, TypeOK, Top
<1>5. CASE RunMissingBlock(q)
  <2>1. PICK r \in RowsAt(seen[q], height[q] + 1) : chain' = Mine(kit[q], r.script)
    BY <1>5 DEF RunMissingBlock
  <2>2. /\ pc[q] = "replay" /\ kit' = kit /\ height'[q] = height[q] + 1
        /\ height[q] \in Nat /\ chain[kit[q]] \in Seq(Blocks)
    BY <1>1, <1>5 DEF RunMissingBlock, TypeInv, TypeOK
  <2>3. chain'[kit[q]] = Append(chain[kit[q]], r.script)
    BY <1>1, <2>1, <2>2 DEF Mine, TypeInv, TypeOK
  <2>4. Len(chain'[kit[q]]) = Len(chain[kit[q]]) + 1 /\ Len(chain[kit[q]]) \in Nat
    BY <2>2, <2>3
  <2> QED
    BY <1>1, <2>2, <2>4 DEF NeverBehind, Top
<1> QED
  BY <1>2, <1>3, <1>4, <1>5, ReplayFrame

\* Whatever the calls of any number of replicas do to an emulator or to the rows, a replay never
\* counts a block its emulator does not have (src/blockchain/projects.go:335-358).
THEOREM NeverBehindHolds == Spec => []NeverBehind
<1>1. Init => TypeInv /\ NeverBehind
  BY ConstantsAssumption DEF Init, TypeInv, TypeOK, CallInv, Steps, NeverBehind
<1>2. TypeInv /\ NeverBehind /\ [Next]_vars => (TypeInv /\ NeverBehind)'
  BY TypeStep, BehindStep
<1> QED
  BY <1>1, <1>2, PTL DEF Spec

-----------------------------------------------------------------------------
(* What the rows hold besides their heights: a script and a contract, once *)

\* A step of a call keeps its script, or ends it.
LEMMA ScriptFrame ==
  ASSUME TypeOK, NEW p \in Procs, Proceed(p)
  PROVE  /\ \A q \in Procs : script'[q] \in {script[q], NoScript}
         /\ Record(p) => script'[p] = NoScript
<1>1. Others(p)
  BY ProceedFrame DEF Continues
<1>2. Return(p) => script'[p] = NoScript
  BY DEF Return, TypeOK
<1>3. script'[p] \in {script[p], NoScript}
  <2>1. FailLoad(p) => script'[p] \in {script[p], NoScript}
    BY <1>2 DEF FailLoad
  <2>2. CASE LoadStep(p)
    BY <2>1, <2>2 DEF LoadStep, ReadExecutions, ReadDeployments, UseCached, TakeNew, RunMissingBlock,
                      AddToCache, LoadErrs, MissingBlock, BlockDiverges
  <2>3. CASE ResetStep(p)
    BY <1>2, <2>3 DEF ResetStep, ResetCache, ResetState, ResetErrs, Load
  <2>4. CASE OpStep(p)
    BY <1>2, <2>4 DEF OpStep, ExecuteTransaction, ExecuteScript, ReadAccount, ReadStorage, CreateAccount,
                      DeployContract, FindDeployment, Truncate, Reload, DeployRefused, Record, ScriptErrs,
                      StoreErrs, Load
  <2> QED
    BY <2>2, <2>3, <2>4 DEF Proceed
<1> QED
  BY <1>1, <1>2, <1>3 DEF Others, Record

\* The steps that change the rows.
LEMMA RowsChange ==
  ASSUME NEW p \in Procs, Proceed(p)
  PROVE  log' = log \/ ResetState(p) \/ Truncate(p) \/ Record(p)
BY DEF Proceed, LoadStep, ReadExecutions, ReadDeployments, UseCached, TakeNew, RunMissingBlock,
       AddToCache, LoadErrs, MissingBlock, BlockDiverges, ResetStep, ResetCache, ResetErrs, OpStep,
       ExecuteTransaction, ExecuteScript, ReadAccount, ReadStorage, CreateAccount, DeployContract,
       FindDeployment, Reload, DeployRefused, ScriptErrs, StoreErrs

\* A call about to record or to truncate is the only one past its lock.
LEMMA WriterProceeds ==
  ASSUME LocksTaken, Inv, NEW p \in Procs, Proceed(p), NEW q \in Procs, pc[q] \in {"record", "truncate"}
  PROVE  q = p
<1>1. op[q] \in Writers /\ op[q] \notin Readers
  BY DEF Inv, CallInv, Writers, Readers
<1>2. pc[p] \notin {"idle", "waiting"}
  BY ProceedFrame DEF Inv, Continues
<1>3. Holding(p) /\ Holding(q)
  BY <1>1, <1>2 DEF Inv, OpsInv, LocksTaken, Holding, Locked
<1> QED
  BY <1>1, <1>3 DEF Inv, LockInv

\* An emulator that ran exactly the rows has the contracts they deploy.
LEMMA RowsOnChain ==
  ASSUME LogInv, log \in SUBSET Rows, NEW k \in FlowKits, chain[k] \in Seq(Blocks),
         Replays(chain[k], log), NEW r \in log
  PROVE  Contract[r.script] \in OnChain(k)
<1> DEFINE n == Cardinality(log)
<1>1. n \in Nat /\ InitHeight \in Nat /\ Len(chain[k]) = n
  BY FS_CardinalityType, ConstantsAssumption DEF LogInv, Replays
<1>2. r.height \in (InitHeight + 1)..(InitHeight + n)
  BY DEF LogInv, LogContiguous
<1>3. PICK i \in 1..n : r.height = InitHeight + i
  <2>1. r.height - InitHeight \in 1..n /\ r.height = InitHeight + (r.height - InitHeight)
    BY <1>1, <1>2
  <2> QED
    BY <2>1
<1>4. [height |-> InitHeight + i, script |-> chain[k][i]] \in log
  BY <1>1 DEF Replays
<1>5. r = [height |-> InitHeight + i, script |-> chain[k][i]]
  BY <1>3, <1>4 DEF LogInv
<1>6. r.script = chain[k][i] /\ r.script \in Scripts
  BY <1>5 DEF Rows
<1>7. chain[k][i] \in Range(chain[k])
  BY <1>1 DEF Range
<1> QED
  BY <1>6, <1>7 DEF OnChain

LEMMA NamedStep ==
  ASSUME TypeInv, Named, NEW p \in Procs, Proceed(p)
  PROVE  Named'
<1>1. \A q \in Procs : script'[q] \in {script[q], NoScript}
  BY ScriptFrame DEF TypeInv
<1>2. CASE log' \subseteq log
  BY <1>1, <1>2 DEF Named
<1>3. CASE Record(p)
  <2> DEFINE row == [height |-> Top(kit[p]), script |-> script[p]]
  <2>1. log' = log \cup {row} /\ script'[p] = NoScript /\ row.script = script[p]
    BY <1>3, ScriptFrame DEF Record, TypeInv
  <2>2. script[p] # NoScript
    BY <1>3, RecordScript, ConstantsAssumption DEF Record
  <2>3. \A r \in log : r.script # script[p]
    BY <2>2 DEF Named
  <2>4. \A q \in Procs : script'[q] # NoScript => script'[q] = script[q] /\ script[q] # script[p]
    BY <1>1, <2>1, <2>2 DEF Named
  <2> HIDE DEF row
  <2> QED
    BY <1>1, <2>1, <2>3, <2>4 DEF Named
<1>4. log' \subseteq log \/ Record(p)
  BY RowsChange DEF ResetState, Truncate, RowsBelow
<1> QED
  BY <1>2, <1>3, <1>4

\* A call starts with a script nobody has.
LEMMA NamedRequest ==
  ASSUME TypeOK, Named, NEW p \in Procs, Request(p)
  PROVE  Named'
<1>1. PICK o \in Ops, s \in Scripts \cup {NoScript} : s \in Arguments(o) /\ script' = [script EXCEPT ![p] = s]
  BY DEF Request
<1>2. s # NoScript => Unused(s)
  BY <1>1, ConstantsAssumption DEF Arguments
<1>3. log' = log /\ script'[p] = s /\ \A q \in Procs \ {p} : script'[q] = script[q]
  BY <1>1 DEF Request, TypeOK
<1> QED
  BY <1>2, <1>3 DEF Named, Unused

LEMMA OnceStep ==
  ASSUME Inv, RowsInv, NEW p \in Procs, Proceed(p)
  PROVE  Once'
<1>1. CASE log' \subseteq log
  BY <1>1 DEF RowsInv, Once, DeployRows
<1>2. CASE Record(p)
  <2> DEFINE row == [height |-> Top(kit[p]), script |-> script[p]]
  <2>1. log' = log \cup {row} /\ pc[p] = "record" /\ row.script = script[p]
    BY <1>2 DEF Record
  <2>2. \A r \in DeployRows(log) : script[p] \in Deploys => Contract[r.script] # Contract[script[p]]
    BY <2>1 DEF RowsInv, Deploying
  <2>3. DeployRows(log)' \subseteq DeployRows(log) \cup {row} /\ (row \in DeployRows(log)' => script[p] \in Deploys)
    BY <2>1 DEF DeployRows
  <2> HIDE DEF row
  <2> QED
    BY <2>1, <2>2, <2>3 DEF RowsInv, Once
<1>3. log' \subseteq log \/ Record(p)
  BY RowsChange DEF ResetState, Truncate, RowsBelow
<1> QED
  BY <1>1, <1>2, <1>3

LEMMA DeployingStep ==
  ASSUME LocksTaken, Inv, RowsInv, NEW p \in Procs, Proceed(p)
  PROVE  Deploying'
<1>0. TypeOK /\ Continues(p)
  BY ProceedFrame DEF Inv
<1>1. ASSUME NEW q \in Procs, pc'[q] \in {"record", "truncate"} PROVE q = p
  <2>1. CASE q # p
    BY <1>0, <1>1, <2>1, WriterProceeds DEF Continues, Others
  <2> QED
    BY <2>1
<1>2. CASE ExecuteTransaction(p)
  <2>1. pc'[p] = "record" /\ script'[p] \in Txs
    BY <1>0, <1>2 DEF ExecuteTransaction, Goto, TypeOK, Inv, CallInv
  <2> QED
    BY <1>1, <2>1, ConstantsAssumption DEF Deploying
<1>3. CASE DeployContract(p)
  <2>1. /\ pc[p] = "run" /\ pc'[p] = "record" /\ script' = script /\ log' = log /\ ~Deployed(p)
        /\ kit[p] \in FlowKits /\ op[p] \in Writers
    BY <1>0, <1>3 DEF DeployContract, Goto, TypeOK, Inv, CallInv, Writers
  <2>2. Replays(chain[kit[p]], log)
    BY <2>1 DEF Inv, WriterInv, Serving
  <2>3. \A r \in log : Contract[r.script] \in OnChain(kit[p])
    BY <1>0, <2>1, <2>2, RowsOnChain DEF Inv, TypeOK
  <2>4. \A r \in DeployRows(log) : Contract[r.script] # Contract[script[p]]
    BY <2>1, <2>3 DEF Deployed, DeployRows
  <2> QED
    BY <1>1, <2>1, <2>4 DEF Deploying, DeployRows
<1>4. CASE FindDeployment(p)
  <2>1. /\ pc'[p] = "truncate" /\ script' = script /\ log' = log
        /\ height'[p] \in DeployedAt(script[p])
    BY <1>0, <1>4 DEF FindDeployment, Goto, TypeOK
  <2> QED
    BY <1>1, <2>1 DEF Deploying, DeployedAt, DeployRows
<1>5. CASE ~(ExecuteTransaction(p) \/ DeployContract(p) \/ FindDeployment(p))
  <2>1. CASE LoadStep(p)
    <3>1. pc'[p] \notin {"record", "truncate"}
      <4>1. CASE ReadExecutions(p) \/ ReadDeployments(p) \/ UseCached(p) \/ TakeNew(p) \/ AddToCache(p)
        BY <1>0, <4>1 DEF ReadExecutions, ReadDeployments, UseCached, TakeNew, AddToCache, Goto, TypeOK
      <4>2. CASE RunMissingBlock(p)
        BY <4>2 DEF RunMissingBlock
      <4>3. CASE LoadErrs(p) \/ MissingBlock(p) \/ BlockDiverges(p)
        BY <1>0, <4>3, FailLoadFrame DEF LoadErrs, MissingBlock, BlockDiverges
      <4> QED
        BY <2>1, <4>1, <4>2, <4>3 DEF LoadStep
    <3> QED
      BY <1>1, <3>1 DEF Deploying
  <2>2. CASE ResetStep(p)
    <3>1. pc'[p] \notin {"record", "truncate"}
      BY <1>0, <2>2, ReturnFrame, LoadFrame DEF ResetStep, ResetCache, ResetState, ResetErrs, Goto, TypeOK
    <3> QED
      BY <1>1, <3>1 DEF Deploying
  <2>3. CASE OpStep(p)
    <3>1. CASE ReadAccount(p) \/ Truncate(p)
      BY <1>0, <1>1, <3>1 DEF ReadAccount, Truncate, Goto, TypeOK, Deploying
    <3>2. CASE ReadStorage(p) \/ CreateAccount(p) \/ Reload(p) \/ ExecuteScript(p) \/ DeployRefused(p)
                 \/ Record(p) \/ ScriptErrs(p) \/ StoreErrs(p)
      <4>1. pc'[p] \notin {"record", "truncate"}
        BY <1>0, <3>2, ReturnFrame, LoadFrame
           DEF ReadStorage, CreateAccount, Reload, ExecuteScript, DeployRefused, Record, ScriptErrs, StoreErrs
      <4> QED
        BY <1>1, <4>1 DEF Deploying
    <3> QED
      BY <1>5, <2>3, <3>1, <3>2 DEF OpStep
  <2> QED
    BY <2>1, <2>2, <2>3 DEF Proceed
<1> QED
  BY <1>2, <1>3, <1>4, <1>5

LEMMA RowsStep ==
  ASSUME OneReplica, LocksTaken, Inv, Inv', RowsInv, [Next]_vars
  PROVE  RowsInv'
<1>1. ASSUME NEW p \in Procs, Proceed(p) PROVE RowsInv'
  BY <1>1, NamedStep, OnceStep, DeployingStep DEF RowsInv, Inv, TypeInv
<1>2. ASSUME NEW p \in Procs, Request(p) PROVE RowsInv'
  <2>1. PICK o \in Ops, s \in Scripts \cup {NoScript}, w \in {"reset", "readExecutions", "waiting"} :
          s \in Arguments(o) /\ script' = [script EXCEPT ![p] = s] /\ Goto(p, w)
    BY <1>2 DEF Request
  <2>2. /\ log' = log /\ height' = height
        /\ \A q \in Procs : pc'[q] \in {"record", "truncate"} => pc'[q] = pc[q] /\ script'[q] = script[q]
    BY <1>2, <2>1 DEF Request, Goto, Inv, TypeOK
  <2>3. Named'
    BY <1>2, NamedRequest DEF RowsInv, Inv
  <2>4. Once'
    BY <2>2 DEF RowsInv, Once, DeployRows
  <2>5. DeployRows(log)' = DeployRows(log) /\ \A d : DeployedAt(d)' = DeployedAt(d)
    BY <2>2 DEF DeployRows, DeployedAt
  <2>6. Deploying'
    BY <2>2, <2>5 DEF RowsInv, Deploying
  <2> QED
    BY <2>3, <2>4, <2>6 DEF RowsInv
<1>3. ASSUME NEW p \in Procs, Acquire(p) PROVE RowsInv'
  <2>1. /\ UNCHANGED <<log, script, height>>
        /\ \A q \in Procs : pc'[q] \in {"record", "truncate"} => pc'[q] = pc[q]
    BY <1>3 DEF Acquire, Goto, Inv, TypeOK
  <2> QED
    BY ZenonT(40), <2>1 DEF RowsInv, Named, Once, Deploying, DeployRows, DeployedAt
<1>4. ASSUME NEW r \in Replicas, Evict(r) PROVE RowsInv'
  BY SMTT(30), <1>4 DEF Evict, RowsInv, Named, Once, Deploying, DeployRows, DeployedAt
<1>5. ASSUME NEW r \in Replicas, Crash(r) PROVE RowsInv'
  <2>1. log' = log /\ \A p \in Procs : pc'[p] = "idle" /\ script'[p] = NoScript
    BY <1>5 DEF Crash, OneReplica
  <2> QED
    BY <2>1 DEF RowsInv, Named, Once, Deploying, DeployRows
<1>6. CASE UNCHANGED vars
  BY ZenonT(40), <1>6 DEF vars, RowsInv, Named, Once, Deploying, DeployRows, DeployedAt
<1> QED
  BY <1>1, <1>2, <1>3, <1>4, <1>5, <1>6 DEF Next

\* An emulator that ran the rows has the contract of a deployment only because of a row that
\* deployed it, when nothing else adds that contract.
LEMMA DeployedByRow ==
  ASSUME OnlyDeployed, NEW k \in FlowKits, chain[k] \in Seq(Blocks), Replays(chain[k], log),
         NEW d \in Deploys, Contract[d] \in OnChain(k)
  PROVE  \E r \in DeployRows(log) : Contract[r.script] = Contract[d]
<1>1. PICK s \in Range(chain[k]) \cap Scripts : Contract[s] = Contract[d]
  BY DEF OnlyDeployed, OnChain
<1>2. s \in Deploys
  BY <1>1 DEF OnlyDeployed, Scripts
<1>3. PICK i \in 1..Len(chain[k]) : s = chain[k][i]
  BY <1>1 DEF Range
<1>4. [height |-> InitHeight + i, script |-> s] \in log
  BY <1>3 DEF Replays
<1>5. [height |-> InitHeight + i, script |-> s].script = s
  OBVIOUS
<1> QED
  BY <1>1, <1>2, <1>4, <1>5 DEF DeployRows

LEMMA RollsBackProceed ==
  ASSUME OnlyDeployed, LocksTaken, Inv, RollsBackToDeployment, NEW p \in Procs, Proceed(p)
  PROVE  RollsBackToDeployment'
<1> SUFFICES ASSUME NEW q \in Procs, pc'[q] = "truncate"
             PROVE  \E d \in DeployRows(log)' : Contract[d.script] = Contract[script'[q]] /\ d.height = height'[q]
  BY DEF RollsBackToDeployment
<1>0. TypeOK /\ Continues(p)
  BY ProceedFrame DEF Inv
<1>1. q = p
  <2>1. CASE q # p
    BY <1>0, <2>1, WriterProceeds DEF Continues, Others
  <2> QED
    BY <2>1
<1>2. FindDeployment(p)
  <2>1. CASE LoadStep(p)
    BY <1>0, <1>1, <2>1, FailLoadFrame
       DEF LoadStep, ReadExecutions, ReadDeployments, UseCached, TakeNew, AddToCache, RunMissingBlock,
           LoadErrs, MissingBlock, BlockDiverges, Goto, TypeOK
  <2>2. CASE ResetStep(p)
    BY <1>0, <1>1, <2>2, ReturnFrame, LoadFrame
       DEF ResetStep, ResetCache, ResetState, ResetErrs, Goto, TypeOK
  <2>3. CASE OpStep(p)
    <3>1. ~(ExecuteTransaction(p) \/ DeployContract(p) \/ ReadAccount(p) \/ Truncate(p))
      BY <1>0, <1>1 DEF ExecuteTransaction, DeployContract, ReadAccount, Truncate, Goto, TypeOK
    <3>2. ~(ReadStorage(p) \/ CreateAccount(p) \/ Reload(p) \/ ExecuteScript(p) \/ DeployRefused(p)
              \/ Record(p) \/ ScriptErrs(p) \/ StoreErrs(p))
      BY <1>0, <1>1, ReturnFrame, LoadFrame
         DEF ReadStorage, CreateAccount, Reload, ExecuteScript, DeployRefused, Record, ScriptErrs, StoreErrs
    <3> QED
      BY <2>3, <3>1, <3>2 DEF OpStep
  <2> QED
    BY <2>1, <2>2, <2>3 DEF Proceed
<1>3. /\ pc[p] = "run" /\ op[p] \in Writers /\ kit[p] \in FlowKits /\ script[p] \in Deploys
      /\ Deployed(p) /\ log' = log /\ script' = script /\ height'[p] \in DeployedAt(script[p])
  BY <1>0, <1>2 DEF FindDeployment, TypeOK, Inv, CallInv, Writers
<1>4. \E r \in DeployRows(log) : Contract[r.script] = Contract[script[p]]
  BY <1>0, <1>3, DeployedByRow DEF Inv, WriterInv, Serving, Deployed, TypeOK
<1> QED
  BY <1>1, <1>3, <1>4 DEF DeployedAt, DeployRows

LEMMA RollsBackStep ==
  ASSUME OneReplica, OnlyDeployed, LocksTaken, Inv, RollsBackToDeployment, [Next]_vars
  PROVE  RollsBackToDeployment'
<1>1. ASSUME NEW p \in Procs, Request(p) \/ Acquire(p) PROVE RollsBackToDeployment'
  <2>1. CASE Acquire(p)
    BY <2>1 DEF Acquire, Goto, Inv, TypeOK, RollsBackToDeployment, DeployRows
  <2>2. CASE Request(p)
    <3>1. PICK s \in Scripts \cup {NoScript}, w \in {"reset", "readExecutions", "waiting"} :
            script' = [script EXCEPT ![p] = s] /\ Goto(p, w)
      BY <2>2 DEF Request
    <3>2. /\ log' = log /\ height' = height /\ pc'[p] # "truncate"
          /\ \A q \in Procs \ {p} : pc'[q] = pc[q] /\ script'[q] = script[q]
      BY <2>2, <3>1 DEF Request, Goto, Inv, TypeOK
    <3> QED
      BY <3>2 DEF RollsBackToDeployment, DeployRows
  <2> QED
    BY <1>1, <2>1, <2>2
<1>2. ASSUME NEW r \in Replicas, Evict(r) PROVE RollsBackToDeployment'
  BY <1>2 DEF Evict, RollsBackToDeployment, DeployRows
<1>3. ASSUME NEW r \in Replicas, Crash(r) PROVE RollsBackToDeployment'
  <2>1. \A p \in Procs : pc'[p] = "idle"
    BY <1>3 DEF Crash, OneReplica
  <2> QED
    BY <2>1 DEF RollsBackToDeployment
<1>4. CASE UNCHANGED vars
  BY <1>4 DEF vars, RollsBackToDeployment, DeployRows
<1> QED
  BY <1>1, <1>2, <1>3, <1>4, RollsBackProceed DEF Next

-----------------------------------------------------------------------------
(* The refinement *)

\* The scripts of rows in the order of their heights, as the module History is given them.
HistOf(rows) == [i \in 1..Cardinality(rows) |-> (CHOOSE r \in rows : r.height = InitHeight + i).script]

Hist == HistOf(log)

\* LogInv, of any rows.
Contiguous(rows) ==
  /\ rows \in SUBSET Rows
  /\ IsFiniteSet(rows)
  /\ \A r, s \in rows : r.height = s.height => r = s
  /\ {r.height : r \in rows} = (InitHeight + 1)..(InitHeight + Cardinality(rows))

LEMMA LogContiguousRows ==
  /\ TypeOK /\ LogInv => Contiguous(log)
  /\ (TypeOK /\ LogInv)' => Contiguous(log')
BY DEF TypeOK, LogInv, LogContiguous, Contiguous

LEMMA HistOfRows ==
  ASSUME NEW rows, Contiguous(rows)
  PROVE  /\ HistOf(rows) \in Seq(Scripts) /\ Len(HistOf(rows)) = Cardinality(rows)
         /\ Cardinality(rows) \in Nat
         /\ \A i \in 1..Cardinality(rows) :
              \E r \in rows : r.height = InitHeight + i /\ r.script = HistOf(rows)[i]
         /\ \A r \in rows : /\ r.height - InitHeight \in 1..Cardinality(rows)
                           /\ HistOf(rows)[r.height - InitHeight] = r.script
<1> DEFINE n == Cardinality(rows)
           h == HistOf(rows)
           RowAt(i) == CHOOSE r \in rows : r.height = InitHeight + i
<1>1. n \in Nat /\ InitHeight \in Nat
  BY FS_CardinalityType, ConstantsAssumption DEF Contiguous
<1>2. \A i \in 1..n : RowAt(i) \in rows /\ RowAt(i).height = InitHeight + i
  <2> SUFFICES ASSUME NEW i \in 1..n PROVE \E r \in rows : r.height = InitHeight + i
    OBVIOUS
  <2>1. InitHeight + i \in (InitHeight + 1)..(InitHeight + n)
    BY <1>1
  <2> QED
    BY <2>1 DEF Contiguous
<1>3. h = [i \in 1..n |-> RowAt(i).script]
  BY DEF HistOf
<1> HIDE DEF RowAt, h
<1>4. \A i \in 1..n : h[i] = RowAt(i).script /\ h[i] \in Scripts
  BY <1>2, <1>3 DEF Contiguous, Rows
<1>5. h \in [1..n -> Scripts]
  BY <1>3, <1>4
<1>6. h \in Seq(Scripts) /\ Len(h) = n
  BY <1>1, <1>5
<1>7. ASSUME NEW r \in rows
      PROVE  r.height - InitHeight \in 1..n /\ h[r.height - InitHeight] = r.script
  <2>1. r.height \in (InitHeight + 1)..(InitHeight + n)
    BY DEF Contiguous
  <2>2. r.height - InitHeight \in 1..n /\ InitHeight + (r.height - InitHeight) = r.height
    BY <1>1, <2>1
  <2>3. RowAt(r.height - InitHeight) = r
    BY <1>2, <2>2 DEF Contiguous
  <2> QED
    BY <1>4, <2>2, <2>3
<1> QED
  BY <1>1, <1>2, <1>4, <1>6, <1>7 DEF h

LEMMA HistOfNone == HistOf({}) = <<>>
<1>1. Cardinality({}) = 0 /\ IsFiniteSet({}) /\ InitHeight \in Nat
  BY FS_EmptySet, ConstantsAssumption
<1>2. Contiguous({})
  <2>1. (InitHeight + 1)..(InitHeight + 0) = {}
    BY <1>1
  <2> QED
    BY <1>1, <2>1 DEF Contiguous
<1>3. HistOf({}) \in Seq(Scripts) /\ Len(HistOf({})) = 0
  BY <1>1, <1>2, HistOfRows
<1> QED
  BY <1>3, EmptySeq

\* A sequence that agrees with the rows is their history.
LEMMA HistGiven ==
  ASSUME NEW rows, Contiguous(rows), NEW h \in Seq(Scripts), Len(h) = Cardinality(rows),
         \A i \in 1..Len(h) : \E r \in rows : r.height = InitHeight + i /\ r.script = h[i]
  PROVE  HistOf(rows) = h
<1>1. /\ HistOf(rows) \in Seq(Scripts) /\ Len(HistOf(rows)) = Len(h) /\ InitHeight \in Nat
      /\ \A r \in rows : HistOf(rows)[r.height - InitHeight] = r.script
  BY HistOfRows, ConstantsAssumption
<1>2. ASSUME NEW i \in 1..Len(h) PROVE HistOf(rows)[i] = h[i]
  <2>1. PICK r \in rows : r.height = InitHeight + i /\ r.script = h[i]
    OBVIOUS
  <2>2. r.height - InitHeight = i
    BY <1>1, <2>1
  <2> QED
    BY <1>1, <2>1, <2>2
<1> QED
  BY <1>1, <1>2, SeqEqual

LEMMA RecordHist ==
  ASSUME TypeInv, TypeInv', LogInv, LogInv', Named, NEW p \in Procs, Record(p),
         Len(chain[kit[p]]) = Cardinality(log) + 1,
         \A r \in DeployRows(log) : script[p] \in Deploys => Contract[r.script] # Contract[script[p]]
  PROVE  History!Next
<1> DEFINE n == Cardinality(log)
           s == script[p]
<1>0. TypeOK /\ TypeOK' /\ CallInv
  BY DEF TypeInv
<1>1. s \in Scripts /\ op[p] \in {"ExecuteTransaction", "DeployContract"}
  BY <1>0 DEF Record, CallInv, Scripts
<1>2. n \in Nat /\ InitHeight \in Nat
  BY FS_CardinalityType, ConstantsAssumption DEF LogInv
<1>3. log' = log \cup {[height |-> InitHeight + n + 1, script |-> s]}
  BY <1>2 DEF Record, Top
<1>4. Cardinality(log') = n + 1
  BY <1>0, <1>1, <1>3, RecordKeepsLog DEF TypeOK
<1>5. /\ Hist \in Seq(Scripts) /\ Len(Hist) = n
      /\ \A i \in 1..n : \E r \in log : r.height = InitHeight + i /\ r.script = Hist[i]
  BY <1>0, HistOfRows, LogContiguousRows DEF Hist
<1>6. Hist' = Append(Hist, s)
  <2> DEFINE h == Append(Hist, s)
             row == [height |-> InitHeight + n + 1, script |-> s]
  <2>1. /\ h \in Seq(Scripts) /\ Len(h) = n + 1 /\ h[n + 1] = s
        /\ \A i \in 1..n : h[i] = Hist[i]
    BY <1>1, <1>2, <1>5, AppendProperties
  <2>2. row.height = InitHeight + n + 1 /\ row.script = s /\ log' = log \cup {row}
    BY <1>3
  <2> HIDE DEF h, s, row
  <2>3. ASSUME NEW i \in 1..(n + 1)
        PROVE  \E r \in log' : r.height = InitHeight + i /\ r.script = h[i]
    <3>1. CASE i = n + 1
      BY <1>2, <2>1, <2>2, <3>1
    <3>2. CASE i # n + 1
      <4>1. i \in 1..n
        BY <1>2, <3>2
      <4> QED
        BY <1>5, <2>1, <2>2, <4>1
    <3> QED
      BY <3>1, <3>2
  <2>4. HistOf(log') = h
    BY <1>0, <1>4, <2>1, <2>3, HistGiven, LogContiguousRows
  <2> QED
    BY <2>4 DEF h, Hist
<1>7. ASSUME NEW i \in 1..n PROVE Hist[i] # s
  BY <1>1, <1>5, ConstantsAssumption DEF Named
<1>8. s \notin Range(Hist) /\ DOMAIN Hist = 1..n
  BY <1>5, <1>7 DEF Range
<1>9. CASE op[p] = "ExecuteTransaction"
  <2>1. s \in Txs
    BY <1>0, <1>9 DEF CallInv
  <2> QED
    BY <1>6, <1>8, <2>1 DEF History!Next, History!ExecuteTransaction, History!Range, Range, Hist, HistOf
<1>10. CASE op[p] = "DeployContract"
  <2>1. s \in Deploys
    BY <1>0, <1>10 DEF CallInv
  <2>2. \A i \in 1..n : ~(Hist[i] \in Deploys /\ Contract[Hist[i]] = Contract[s])
    BY <1>1, <1>5, <2>1 DEF DeployRows
  <2>3. {i \in DOMAIN Hist : Hist[i] \in Deploys /\ Contract[Hist[i]] = Contract[s]} = {}
    BY <1>8, <2>2
  <2>4. History!DeploymentsOf(s) = {}
    BY <2>3 DEF History!DeploymentsOf, Hist, HistOf
  <2> QED
    BY <1>6, <1>8, <2>1, <2>4 DEF History!Next, History!DeployContract, History!Range, Range, Hist, HistOf
<1> QED
  BY <1>1, <1>9, <1>10

LEMMA ClearHist ==
  ASSUME "read" \in Faults, log' = {}
  PROVE  History!Next
<1>1. HistOf(log') = <<>>
  BY HistOfNone
<1> QED
  BY <1>1 DEF History!Next, History!Clear, HistOf

LEMMA TruncateHist ==
  ASSUME NEW p \in Procs, "read" \in Faults \/ height[p] # 0, Inv, Inv', RowsInv, Truncate(p)
  PROVE  History!Next
<1> DEFINE n == Cardinality(log)
           d == script[p]
<1>1. /\ pc[p] = "truncate" /\ d \in Deploys /\ log' = RowsBelow(log, height[p])
      /\ height[p] \in DeployedAt(d)
  BY DEF Truncate, Inv, CallInv, RowsInv, Deploying
<1>2. Contiguous(log) /\ Contiguous(log') /\ n \in Nat /\ InitHeight \in Nat
  BY LogContiguousRows, HistOfRows, ConstantsAssumption DEF Inv
<1>3. CASE height[p] = 0
  <2>1. \A r \in log : r.height > InitHeight
    BY <1>2 DEF Contiguous
  <2>2. log' = {}
    BY <1>1, <1>2, <1>3, <2>1 DEF RowsBelow, Contiguous, Rows
  <2> QED
    BY <1>3, <2>2, ClearHist
<1>4. CASE height[p] # 0
  <2>1. PICK r \in DeployRows(log) : r.height = height[p] /\ Contract[r.script] = Contract[d]
    BY <1>1, <1>4 DEF DeployedAt
  <2>2. /\ r \in log /\ r.script \in Deploys
        /\ Hist \in Seq(Scripts) /\ Len(Hist) = n
        /\ r.height - InitHeight \in 1..n /\ Hist[r.height - InitHeight] = r.script
        /\ \A j \in 1..n : \E q \in log : q.height = InitHeight + j /\ q.script = Hist[j]
    BY <1>2, <2>1, HistOfRows DEF DeployRows, Hist
  <2>3. r.height \in Nat
    BY <1>2, <2>2 DEF Contiguous, Rows
  <2>4. PICK i \in 1..n : height[p] = InitHeight + i /\ Hist[i] = r.script
    BY <1>2, <2>1, <2>2, <2>3
  <2>5. Cardinality(log') = i - 1
    <3>1. {q.height : q \in log'} = {x \in (InitHeight + 1)..(InitHeight + n) : x < InitHeight + i}
      BY <1>1, <1>2, <2>4 DEF RowsBelow, Contiguous
    <3>2. {x \in (InitHeight + 1)..(InitHeight + n) : x < InitHeight + i} = (InitHeight + 1)..(InitHeight + (i - 1))
      BY <1>2
    <3>3. i - 1 \in Nat
      BY <1>2
    <3> QED
      BY <1>2, <3>1, <3>2, <3>3, ContiguousCardinality DEF Contiguous
  <2>6. HistOf(log') = SubSeq(Hist, 1, i - 1)
    <3> DEFINE h == SubSeq(Hist, 1, i - 1)
    <3>1. h \in Seq(Scripts) /\ Len(h) = i - 1 /\ \A j \in 1..(i - 1) : h[j] = Hist[j]
      BY <2>2, SubSeqProperties
    <3> HIDE DEF h
    <3>2. ASSUME NEW j \in 1..(i - 1)
          PROVE  \E q \in log' : q.height = InitHeight + j /\ q.script = h[j]
      <4>1. PICK q \in log : q.height = InitHeight + j /\ q.script = Hist[j]
        <5>1. j \in 1..n
          BY <1>2
        <5> QED
          BY <2>2, <5>1
      <4>2. q.height < height[p]
        BY <1>2, <2>4, <4>1
      <4> QED
        BY <1>1, <3>1, <4>1, <4>2 DEF RowsBelow
    <3>3. HistOf(log') = h
      BY <1>2, <2>5, <3>1, <3>2, HistGiven
    <3> QED
      BY <3>3 DEF h
  <2>7. i \in {j \in DOMAIN Hist : Hist[j] \in Deploys /\ Contract[Hist[j]] = Contract[d]}
    BY <2>1, <2>2, <2>4
  <2> HIDE DEF d
  <2> QED
    BY <1>1, <2>6, <2>7 DEF History!Next, History!Rollback, History!DeploymentsOf, Hist, HistOf
<1> QED
  BY <1>3, <1>4

\* The reads that fail clear the history; when none does, a rollback keeps what is below a row.
LEMMA HistSimulation ==
  ASSUME Inv, Inv', RowsInv, [Next]_vars,
         "read" \in Faults \/ (NoReset /\ RollsBackToDeployment)
  PROVE  History!Next \/ Hist' = Hist
<1>1. log' = log => Hist' = Hist
  BY DEF Hist
<1>2. ASSUME NEW p \in Procs, Proceed(p) PROVE History!Next \/ Hist' = Hist
  <2>1. CASE ResetState(p)
    BY <2>1, ClearHist DEF ResetState, NoReset
  <2>2. CASE Truncate(p)
    <3>1. "read" \in Faults \/ height[p] # 0
      <4>1. ASSUME RollsBackToDeployment PROVE height[p] # 0
        <5>1. PICK d \in DeployRows(log) : d.height = height[p]
          BY <2>2, <4>1 DEF Truncate, RollsBackToDeployment
        <5>2. d \in log /\ d.height \in (InitHeight + 1)..(InitHeight + Cardinality(log))
          BY <5>1 DEF DeployRows, Inv, LogInv, LogContiguous
        <5> QED
          BY <5>1, <5>2, ConstantsAssumption
      <4> QED
        BY <4>1
    <3> QED
      BY <2>2, <3>1, TruncateHist
  <2>3. CASE Record(p)
    <3>1. pc[p] = "record" /\ op[p] \in Writers
      BY <2>3 DEF Record, Inv, CallInv, Writers
    <3>2. Len(chain[kit[p]]) = Cardinality(log) + 1
      BY <3>1 DEF Inv, WriterInv
    <3>3. \A r \in DeployRows(log) : script[p] \in Deploys => Contract[r.script] # Contract[script[p]]
      BY <3>1 DEF RowsInv, Deploying
    <3> QED
      BY <2>3, <3>2, <3>3, RecordHist DEF Inv, TypeInv, RowsInv
  <2> QED
    BY <1>1, <1>2, <2>1, <2>2, <2>3, RowsChange
<1>3. ASSUME NEW p \in Procs, Request(p) \/ Acquire(p) PROVE log' = log
  BY <1>3 DEF Request, Acquire
<1>4. ASSUME NEW r \in Replicas, Evict(r) \/ Crash(r) PROVE log' = log
  BY <1>4 DEF Evict, Crash
<1> QED
  BY <1>1, <1>2, <1>3, <1>4 DEF Next, vars

LEMMA RowsInvariant ==
  ASSUME OneReplica, LocksTaken
  PROVE  Spec => [](Inv /\ RowsInv)
<1>1. Init => Inv /\ RowsInv
  BY InitInv DEF Init, RowsInv, Named, Once, Deploying, DeployRows
<1>2. Inv /\ RowsInv /\ [Next]_vars => (Inv /\ RowsInv)'
  BY InvStep, RowsStep
<1> QED
  BY <1>1, <1>2, PTL DEF Spec

\* At one replica whose calls take the project's lock, what the rows hold is a history that grows at
\* its end, is rolled back to before the contract that is deployed again, or is cleared
\* (src/blockchain/projects.go:163-234): no failure cuts it anywhere else.
THEOREM RowsAreHistory ==
  ASSUME OneReplica, LocksTaken, "read" \in Faults
  PROVE  Spec => ImplementsHistory
<1>1. Init => History!Init
  BY HistOfNone DEF Init, History!Init, HistOf
<1>2. Inv /\ RowsInv /\ (Inv /\ RowsInv)' /\ [Next]_vars => [History!Next]_Hist
  BY HistSimulation
<1> QED
  BY <1>1, <1>2, RowsInvariant, PTL DEF Spec, ImplementsHistory, History!Spec, Hist, HistOf

\* A contract has one deployment row at most, so the one that is found on its address
\* (src/blockchain/projects.go:189) is the one to roll back to.
THEOREM OneDeploymentRow ==
  ASSUME OneReplica, LocksTaken
  PROVE  Spec => []OneDeployment
<1>1. Inv /\ RowsInv => OneDeployment
  <2> SUFFICES ASSUME Inv, RowsInv, NEW i \in DOMAIN Hist, NEW j \in DOMAIN Hist,
                      Hist[i] \in Deploys, Hist[j] \in Deploys, Contract[Hist[i]] = Contract[Hist[j]]
               PROVE  i = j
    BY DEF OneDeployment, History!OneDeployment, Hist, HistOf
  <2> DEFINE n == Cardinality(log)
  <2>0. DOMAIN Hist = 1..n
    BY DEF Hist, HistOf
  <2>1. /\ n \in Nat /\ InitHeight \in Nat /\ i \in 1..n /\ j \in 1..n
        /\ \A k \in 1..n : \E r \in log : r.height = InitHeight + k /\ r.script = Hist[k]
    <3>1. Contiguous(log)
      BY LogContiguousRows DEF Inv
    <3> QED
      BY <2>0, <3>1, HistOfRows, ConstantsAssumption DEF Hist
  <2> HIDE DEF n
  <2>2. PICK r \in log : r.height = InitHeight + i /\ r.script = Hist[i]
    BY <2>1
  <2>3. PICK s \in log : s.height = InitHeight + j /\ s.script = Hist[j]
    BY <2>1
  <2>4. r = s
    BY <2>2, <2>3 DEF RowsInv, Once, DeployRows
  <2> QED
    BY <2>1, <2>2, <2>3, <2>4
<1> QED
  BY <1>1, RowsInvariant, PTL

-----------------------------------------------------------------------------
(* A load that knows the rows does not fail *)

\* There is one row at each height up to the last, and it is the one replayed.
LEMMA RowAtHeight ==
  ASSUME LogInv, log \in SUBSET Rows, NEW h \in Nat, InitHeight < h, h <= Total(log)
  PROVE  \E r \in log : r.height = h /\ RowsAt(log, h) = {r}
<1>1. Cardinality(log) \in Nat /\ InitHeight \in Nat
  BY FS_CardinalityType, ConstantsAssumption DEF LogInv
<1>2. h \in (InitHeight + 1)..(InitHeight + Cardinality(log))
  BY <1>1 DEF Total
<1>3. PICK r \in log : r.height = h
  BY <1>2 DEF LogInv, LogContiguous
<1>4. {x \in log : x.height = h} = {r}
  BY <1>3 DEF LogInv
<1>5. RowsAt(log, h) = {r}
  BY <1>4 DEF RowsAt, TxRows
<1> QED
  BY <1>3, <1>5

\* What a call that has blocks to replay knows.
LEMMA Replaying ==
  ASSUME Inv, LoadsKnow, NEW p \in Procs, pc[p] = "replay", height[p] < Total(seen[p])
  PROVE  /\ seen[p] = log /\ Filling(p) /\ kit[p] \in FlowKits
         /\ \E r \in log : r.height = height[p] + 1 /\ RowsAt(log, height[p] + 1) = {r}
<1>1. seen[p] = log /\ kit[p] \in FlowKits
  BY DEF LoadsKnow, Loading, Inv, CallInv
<1>2. /\ height[p] \in Nat /\ Cardinality(log) \in Nat /\ InitHeight \in Nat
      /\ Len(chain[kit[p]]) \in Nat
  BY <1>1, FS_CardinalityType, ConstantsAssumption DEF Inv, TypeOK, LogInv
<1>3. Filling(p)
  BY <1>1, <1>2 DEF LoadsKnow, Loading, Filled, Total
<1>4. InitHeight < height[p] + 1 /\ height[p] + 1 <= Total(log) /\ height[p] + 1 \in Nat
  BY <1>1, <1>2, <1>3 DEF Filling, Top, Total
<1>5. \E r \in log : r.height = height[p] + 1 /\ RowsAt(log, height[p] + 1) = {r}
  BY <1>4, RowAtHeight DEF Inv, TypeOK
<1> QED
  BY <1>1, <1>3, <1>5

\* An emulator that ran the first rows ran those below the next height.
LEMMA BehindReplays ==
  ASSUME TypeOK, LogInv, NEW k \in FlowKits, Behind(k)
  PROVE  Replays(chain[k], RowsBelow(log, Top(k) + 1))
<1> DEFINE n == Len(chain[k])
           below == RowsBelow(log, Top(k) + 1)
<1>1. /\ n \in Nat /\ Cardinality(log) \in Nat /\ InitHeight \in Nat
      /\ Top(k) = InitHeight + n /\ n <= Cardinality(log)
  BY FS_CardinalityType, ConstantsAssumption DEF TypeOK, LogInv, Behind, Top
<1>2. below \in SUBSET Rows /\ IsFiniteSet(below) /\ \A r, s \in below : r.height = s.height => r = s
  BY FS_Subset DEF RowsBelow, TypeOK, LogInv
<1>3. {r.height : r \in below} = {x \in (InitHeight + 1)..(InitHeight + Cardinality(log)) : x < Top(k) + 1}
  BY DEF RowsBelow, LogInv, LogContiguous
<1>4. {x \in (InitHeight + 1)..(InitHeight + Cardinality(log)) : x < Top(k) + 1}
        = (InitHeight + 1)..(InitHeight + n)
  BY <1>1
<1>5. Cardinality(below) = n
  BY <1>1, <1>2, <1>3, <1>4, ContiguousCardinality
<1>6. ASSUME NEW i \in 1..n
      PROVE  [height |-> InitHeight + i, script |-> chain[k][i]] \in below
  <2>1. [height |-> InitHeight + i, script |-> chain[k][i]] \in log
    BY DEF Behind
  <2>2. InitHeight + i < Top(k) + 1
    BY <1>1
  <2> QED
    BY <2>1, <2>2 DEF RowsBelow
<1> QED
  BY <1>5, <1>6 DEF Replays

\* An emulator being filled did.
LEMMA FillingReplays ==
  ASSUME Inv, NEW p \in Procs, kit[p] \in FlowKits, Filling(p)
  PROVE  Replays(chain[kit[p]], RowsBelow(log, height[p] + 1))
<1>1. /\ Len(chain[kit[p]]) \in Nat /\ Cardinality(log) \in Nat /\ InitHeight \in Nat
      /\ height[p] \in Nat /\ TypeOK /\ LogInv
  BY FS_CardinalityType, ConstantsAssumption DEF Inv, TypeOK, LogInv
<1>2. Len(chain[kit[p]]) <= Cardinality(log)
  BY <1>1 DEF Filling, Top, Total
<1>3. RowsBelow(log, height[p] + 1) = RowsBelow(log, Top(kit[p]) + 1)
  BY DEF Filling, RowsBelow
<1> QED
  BY <1>1, <1>2, <1>3, BehindReplays DEF Filling, Behind

\* Nothing on an emulator being filled is in the way of the next row.
LEMMA NextNotRefused ==
  ASSUME Inv, NeverRefused, NEW p \in Procs, kit[p] \in FlowKits, Filling(p),
         NEW r \in log, r.height = height[p] + 1, r.script \in Deploys
  PROVE  Contract[r.script] \notin OnChain(kit[p])
<1>1. r \in DeployRows(log)
  BY DEF DeployRows
<1>2. chain[kit[p]] \in Seq(Blocks) /\ Len(chain[kit[p]]) \in Nat /\ InitHeight \in Nat
  BY ConstantsAssumption DEF Inv, TypeOK
<1>3. ASSUME NEW s \in Range(chain[kit[p]]) PROVE Contract[s] # Contract[r.script]
  <2>1. PICK i \in 1..Len(chain[kit[p]]) : s = chain[kit[p]][i]
    BY <1>2 DEF Range
  <2>2. [height |-> InitHeight + i, script |-> s] \in log
    BY <2>1 DEF Filling
  <2>3. InitHeight + i < r.height
    BY <1>2 DEF Filling, Top
  <2> QED
    BY <1>1, <2>2, <2>3 DEF NeverRefused
<1> QED
  BY <1>1, <1>3 DEF OnChain, NeverRefused

LEMMA NoLoadFails ==
  ASSUME ReadsSucceed, Inv, CalmInv, NEW p \in Procs
  PROVE  ~LoadErrs(p) /\ ~MissingBlock(p) /\ ~BlockDiverges(p) /\ ~ResetStep(p)
<1>1. ~LoadErrs(p)
  BY DEF ReadsSucceed, LoadErrs
<1>2. ~ResetStep(p)
  BY DEF CalmInv, NoReset, ResetStep, ResetCache, ResetState, ResetErrs
<1>3. ~MissingBlock(p)
  <2> SUFFICES ASSUME MissingBlock(p) PROVE FALSE
    OBVIOUS
  <2>1. /\ seen[p] = log /\ Filling(p) /\ kit[p] \in FlowKits
        /\ \E r \in log : r.height = height[p] + 1 /\ RowsAt(log, height[p] + 1) = {r}
    BY Replaying DEF CalmInv, MissingBlock
  <2>2. PICK r \in log : r.height = height[p] + 1 /\ RowsAt(log, height[p] + 1) = {r}
    BY <2>1
  <2>3. r.script \in Deploys /\ Contract[r.script] \in OnChain(kit[p])
    BY <2>1, <2>2 DEF MissingBlock
  <2> QED
    BY <2>1, <2>2, <2>3, NextNotRefused DEF CalmInv
<1>4. ~BlockDiverges(p)
  BY Replaying, FillingReplays DEF CalmInv, BlockDiverges
<1> QED
  BY <1>1, <1>2, <1>3, <1>4

-----------------------------------------------------------------------------
(* Control *)

\* The steps a call may take past its lock.
CalmLoad(p) ==
  ReadExecutions(p) \/ ReadDeployments(p) \/ UseCached(p) \/ TakeNew(p) \/ RunMissingBlock(p) \/ AddToCache(p)

LEMMA CalmProceed ==
  ASSUME ReadsSucceed, Inv, CalmInv, NEW p \in Procs, Proceed(p)
  PROVE  CalmLoad(p) \/ OpStep(p)
BY NoLoadFails DEF Proceed, LoadStep, CalmLoad

LEMMA OpStepPc ==
  ASSUME TypeOK, NEW p \in Procs, OpStep(p)
  PROVE  /\ pc'[p] \in {"idle", "readExecutions", "record", "storage", "truncate", "reload"}
         /\ pc'[p] = "storage" => ReadAccount(p)
         /\ pc'[p] = "record" => ExecuteTransaction(p) \/ DeployContract(p)
         /\ pc'[p] = "truncate" => FindDeployment(p)
<1>1. CASE ExecuteTransaction(p) \/ ReadAccount(p) \/ DeployContract(p) \/ FindDeployment(p) \/ Truncate(p)
  BY <1>1 DEF ExecuteTransaction, ReadAccount, DeployContract, FindDeployment, Truncate, Goto, TypeOK
<1>2. CASE ReadStorage(p) \/ CreateAccount(p) \/ Reload(p) \/ ExecuteScript(p) \/ DeployRefused(p)
             \/ Record(p) \/ ScriptErrs(p) \/ StoreErrs(p)
  BY <1>2, ReturnFrame, LoadFrame
     DEF ReadStorage, CreateAccount, Reload, ExecuteScript, DeployRefused, Record, ScriptErrs, StoreErrs
<1> QED
  BY <1>1, <1>2 DEF OpStep

LEMMA CalmLoadPc ==
  ASSUME Inv, NEW p \in Procs, CalmLoad(p)
  PROVE  pc'[p] \in {"readDeployments", "fetch", "replay", "run"} /\ log' = log /\ script' = script
BY DEF CalmLoad, ReadExecutions, ReadDeployments, UseCached, TakeNew, RunMissingBlock, AddToCache,
       Goto, Inv, TypeOK

\* What a reader does with its emulator touches no other.
LEMMA ReaderOpQuiet ==
  ASSUME Inv, TypeInv', NEW p \in Procs, op[p] \notin Writers, OpStep(p)
  PROVE  Quiet(p)
<1>1. op[p] \notin {"ExecuteTransaction", "DeployContract", "CreateAccount"}
  BY DEF Writers
<1>2. pc[p] \notin {"truncate", "reload", "record"}
  BY <1>1 DEF Inv, CallInv
<1>3. CASE ExecuteScript(p) \/ ReadAccount(p) \/ ReadStorage(p) \/ StoreErrs(p)
  BY <1>3, QuietStep
<1>4. CASE ScriptErrs(p)
  BY <1>1, <1>4, QuietStep DEF ScriptErrs, MayLeaveBlock
<1> QED
  BY <1>1, <1>2, <1>3, <1>4
     DEF OpStep, ExecuteTransaction, CreateAccount, DeployContract, FindDeployment, Truncate, Reload,
         DeployRefused, Record

\* A call that is being served keeps its emulator, its blocks and the rows while another proceeds.
LEMMA OthersServed ==
  ASSUME OneReplica, LocksTaken, ReadsSucceed, Inv, TypeInv', CalmInv, NEW p \in Procs, Proceed(p),
         NEW q \in Procs \ {p}, Serving(q)
  PROVE  log' = log /\ kit'[q] = kit[q] /\ chain'[kit[q]] = chain[kit[q]] /\ height'[q] = height[q]
<1>1. op[p] \notin Writers
  BY WriterAlone DEF Serving
<1>2. kit[q] \in FlowKits /\ kit'[q] = kit[q] /\ height'[q] = height[q] /\ kit[q] \in Range(kit)
  BY ProceedFrame, InUseNow DEF Continues, Others, Inv, CallInv, Serving, TypeInv
<1>3. kit[q] \in Range(kit')
  BY <1>2, InUseNext
<1>4. CASE OpStep(p)
  BY <1>1, <1>2, <1>3, <1>4, ReaderOpQuiet DEF Quiet
<1>5. CASE ReadExecutions(p) \/ ReadDeployments(p) \/ UseCached(p)
  BY <1>2, <1>5 DEF ReadExecutions, ReadDeployments, UseCached
<1>6. CASE TakeNew(p)
  <2> DEFINE new == CHOOSE x \in Spare : TRUE
  <2>1. new \in FlowKits /\ new \notin Range(kit) /\ Collect([chain EXCEPT ![new] = <<>>]) /\ log' = log
    BY <1>6 DEF TakeNew, Spare, InUse
  <2> HIDE DEF new
  <2>2. chain'[kit[q]] = [chain EXCEPT ![new] = <<>>][kit[q]] /\ kit[q] # new
    BY <1>2, <1>3, <2>1 DEF Collect
  <2> QED
    BY <1>2, <2>1, <2>2 DEF Inv, TypeOK
<1>7. CASE RunMissingBlock(p)
  <2>1. /\ pc[p] = "replay" /\ height[p] < Total(seen[p]) /\ log' = log
        /\ \E r \in RowsAt(seen[p], height[p] + 1) : chain' = Mine(kit[p], r.script)
    BY <1>7 DEF RunMissingBlock
  <2>2. kit[q] # kit[p]
    BY <2>1, Replaying DEF CalmInv, Filling
  <2> QED
    BY <1>2, <2>1, <2>2 DEF Mine, Inv, TypeOK
<1>8. CASE AddToCache(p)
  BY <1>2, <1>3, <1>8, CollectKeeps DEF AddToCache
<1> QED
  BY <1>4, <1>5, <1>6, <1>7, <1>8, CalmProceed DEF CalmLoad

-----------------------------------------------------------------------------
(* Every call is served the rows *)

LEMMA ServesStep ==
  ASSUME OneReplica, LocksTaken, ReadsSucceed, Inv, TypeInv', CalmInv, NEW p \in Procs, Proceed(p)
  PROVE  ServesLog' /\ NoTornAccount' /\ NoReset' /\ LoadsKnow'
<1>1. Continues(p) /\ TypeOK
  BY ProceedFrame DEF Inv
<1>2. pc'[p] \notin {"reset", "resetState"}
  BY CalmProceed, CalmLoadPc, OpStepPc DEF Inv
<1>3. NoReset'
  BY <1>1, <1>2 DEF CalmInv, NoReset, Continues, Others
<1>4. LoadsKnow'
  <2>1. CASE CalmLoad(p)
    <3>1. Keeps(p)
      BY <2>1, LoadStepKeeps DEF CalmLoad, LoadStep, CalmInv, LoadsKnow
    <3> QED
      BY <3>1 DEF Keeps, CalmInv, LoadsKnow
  <2>2. CASE OpStep(p)
    <3>1. Loading(p)'
      BY <2>2, OpStepPc DEF Inv, Loading
    <3>2. ASSUME NEW q \in Procs \ {p} PROVE Loading(q)'
      <4>1. CASE op[p] \in Writers
        BY <1>1, <4>1, WriterAlone DEF Loading, Continues, Others
      <4>2. CASE op[p] \notin Writers
        BY <1>1, <2>2, <4>2, ReaderOpQuiet, QuietLoading DEF Continues, CalmInv, LoadsKnow
      <4> QED
        BY <4>1, <4>2
    <3> QED
      BY <3>1, <3>2 DEF LoadsKnow
  <2> QED
    BY <2>1, <2>2, CalmProceed
<1>5. ASSUME NEW q \in Procs \ {p}, Serving(q)'
      PROVE  Replays(chain[kit[q]], log)' /\ (pc'[q] = "storage" => height'[q] = Top(kit[q])')
  <2>1. Serving(q) /\ pc'[q] = pc[q]
    BY <1>1, <1>5 DEF Serving, Continues, Others
  <2>2. log' = log /\ kit'[q] = kit[q] /\ chain'[kit[q]] = chain[kit[q]] /\ height'[q] = height[q]
    BY <2>1, OthersServed
  <2> QED
    BY <2>1, <2>2 DEF CalmInv, ServesLog, NoTornAccount, Replays, Top
<1>6. ASSUME Serving(p)'
      PROVE  Replays(chain[kit[p]], log)' /\ (pc'[p] = "storage" => height'[p] = Top(kit[p])')
  <2>1. CASE CalmLoad(p)
    <3>1. pc'[p] = "run"
      BY <1>6, <2>1, CalmLoadPc DEF Serving
    <3>2. Replays(chain[kit[p]], log)'
      BY <2>1, <3>1, LoadStepKeeps DEF CalmLoad, LoadStep, CalmInv, LoadsKnow
    <3> QED
      BY <3>1, <3>2
  <2>2. CASE OpStep(p)
    <3>1. pc'[p] = "storage" /\ ReadAccount(p)
      BY <1>6, <2>2, OpStepPc DEF Inv, Serving
    <3>2. /\ pc[p] = "run" /\ UNCHANGED <<log, chain, kit>> /\ height'[p] = Top(kit[p])
      BY <1>1, <3>1 DEF ReadAccount, TypeOK
    <3> QED
      BY <3>2 DEF CalmInv, ServesLog, Serving, Replays, Top
  <2> QED
    BY <2>1, <2>2, CalmProceed
<1>7. ServesLog'
  BY <1>5, <1>6 DEF ServesLog
<1>8. NoTornAccount'
  BY <1>5, <1>6 DEF NoTornAccount, Serving
<1> QED
  BY <1>3, <1>4, <1>7, <1>8

-----------------------------------------------------------------------------
(* No deployment row is refused *)

\* The row a call records is above the others, and is of the call's script.
LEMMA RecordedRow ==
  ASSUME Inv, NEW p \in Procs, Record(p)
  PROVE  /\ log' = log \cup {[height |-> Top(kit[p]), script |-> script[p]]}
         /\ \A r \in log : r.height < Top(kit[p])
         /\ script[p] \in Deploys => op[p] = "DeployContract"
<1>1. pc[p] = "record" /\ op[p] \in {"ExecuteTransaction", "DeployContract"} /\ op[p] \in Writers
  BY DEF Record, Inv, CallInv, Writers
<1>2. Top(kit[p]) = InitHeight + (Cardinality(log) + 1)
  BY <1>1 DEF Inv, WriterInv, Top
<1>3. Cardinality(log) \in Nat /\ InitHeight \in Nat
  BY FS_CardinalityType, ConstantsAssumption DEF Inv, LogInv
<1>4. \A r \in log : r.height \in (InitHeight + 1)..(InitHeight + Cardinality(log))
  BY DEF Inv, LogInv, LogContiguous
<1>5. script[p] \in Deploys => op[p] = "DeployContract"
  BY <1>1, ConstantsAssumption DEF Inv, CallInv
<1> QED
  BY <1>2, <1>3, <1>4, <1>5 DEF Record

LEMMA RefusedStep ==
  ASSUME LocksTaken, ReadsSucceed, Inv, CalmInv, NEW p \in Procs, Proceed(p)
  PROVE  NeverRefused'
<1>1. CASE log' \subseteq log
  BY <1>1 DEF CalmInv, NeverRefused, DeployRows
<1>2. CASE Record(p)
  <2> DEFINE row == [height |-> Top(kit[p]), script |-> script[p]]
  <2>1. /\ log' = log \cup {row} /\ row.height = Top(kit[p]) /\ row.script = script[p]
        /\ \A r \in log : r.height < row.height /\ ~(row.height < r.height)
        /\ row.script \in Deploys => op[p] = "DeployContract"
    <3>1. \A r \in log : r.height \in Nat /\ r.height < Top(kit[p])
      BY <1>2, RecordedRow DEF Inv, TypeOK, Rows
    <3>2. Top(kit[p]) \in Nat
      BY <1>2, TopType DEF Record, Inv, CallInv
    <3> QED
      BY <1>2, <3>1, <3>2, RecordedRow
  <2> HIDE DEF row
  <2>2. ~(row.height < row.height)
    <3>1. row.height \in Nat
      BY <1>2, <2>1, TopType DEF Record, Inv, CallInv
    <3> QED
      BY <3>1
  <2>3. ASSUME NEW d \in log, d.script \in Deploys
        PROVE  /\ Contract[d.script] \notin CoreContracts
               /\ \A r \in log' : r.height < d.height => Contract[r.script] # Contract[d.script]
    BY <2>1, <2>3 DEF CalmInv, NeverRefused, DeployRows
  <2>4. ASSUME row.script \in Deploys
        PROVE  /\ Contract[row.script] \notin CoreContracts
               /\ \A r \in log' : r.height < row.height => Contract[r.script] # Contract[row.script]
    <3>1. pc[p] = "record" /\ op[p] = "DeployContract"
      BY <1>2, <2>1, <2>4 DEF Record
    <3> QED
      BY <2>1, <2>2, <3>1 DEF CalmInv, NeverRefusedNext
  <2> QED
    BY <2>1, <2>3, <2>4 DEF NeverRefused, DeployRows
<1>3. log' \subseteq log \/ Record(p)
  BY RowsChange DEF ResetState, Truncate, RowsBelow
<1> QED
  BY <1>1, <1>2, <1>3

LEMMA RefusedNextStep ==
  ASSUME LocksTaken, ReadsSucceed, Inv, CalmInv, NEW p \in Procs, Proceed(p)
  PROVE  NeverRefusedNext'
<1> SUFFICES ASSUME NEW q \in Procs, pc'[q] = "record", op'[q] = "DeployContract"
             PROVE  /\ Contract[script'[q]] \notin CoreContracts
                    /\ \A r \in log' : Contract[r.script] # Contract[script'[q]]
  BY DEF NeverRefusedNext
<1>1. Continues(p)
  BY ProceedFrame DEF Inv
<1>2. q = p
  <2>1. CASE q # p
    BY <1>1, <2>1, WriterProceeds DEF Continues, Others
  <2> QED
    BY <2>1
<1>3. op[p] = "DeployContract" /\ script'[p] = script[p]
  BY <1>1, <1>2 DEF Continues
<1>4. DeployContract(p)
  BY <1>2, <1>3, CalmProceed, CalmLoadPc, OpStepPc DEF ExecuteTransaction, Inv
<1>5. /\ pc[p] = "run" /\ log' = log /\ ~Deployed(p) /\ op[p] \in Writers
  BY <1>4 DEF DeployContract, Writers
<1>6. kit[p] \in FlowKits /\ Replays(chain[kit[p]], log) /\ chain[kit[p]] \in Seq(Blocks) /\ log \in SUBSET Rows
  BY <1>5 DEF Inv, CallInv, WriterInv, Serving, TypeOK
<1>7. \A r \in log : Contract[r.script] \in OnChain(kit[p])
  BY <1>6, RowsOnChain DEF Inv
<1>8. Contract[script[p]] \notin OnChain(kit[p])
  BY <1>5 DEF Deployed
<1>9. Contract[script[p]] \notin CoreContracts
  BY <1>8 DEF OnChain
<1> QED
  BY <1>2, <1>3, <1>5, <1>7, <1>8, <1>9

-----------------------------------------------------------------------------
(* No block runs twice *)

\* The block a step of call p sends to emulator k: a new one.
Sends(p, k, b) ==
  /\ chain'[k] = Append(chain[k], b)
  /\ \/ b = Unrecorded
     \/ b = script[p] /\ b \in Scripts /\ pc[p] = "run" /\ pc'[p] = "record"
     \/ /\ Filling(p) /\ k = kit[p]
        /\ \E r \in log : r.height = height[p] + 1 /\ b = r.script

LEMMA CollectEmulator ==
  ASSUME NEW blocks, Collect(blocks), NEW k \in FlowKits
  PROVE  chain'[k] \in {blocks[k], <<>>}
BY DEF Collect

LEMMA MineEmulator ==
  ASSUME TypeOK, NEW j, NEW b, NEW k \in FlowKits
  PROVE  Mine(j, b)[k] = IF k = j THEN Append(chain[k], b) ELSE chain[k]
BY DEF Mine, TypeOK

LEMMA ChainStep ==
  ASSUME ReadsSucceed, Inv, CalmInv, NEW p \in Procs, Proceed(p), NEW k \in FlowKits
  PROVE  chain'[k] \in {chain[k], <<>>} \/ \E b : Sends(p, k, b)
<1>1. TypeOK
  BY DEF Inv
<1>2. CASE chain' = chain \/ Collect(chain)
  BY <1>2, CollectEmulator
<1>3. ASSUME NEW b, chain' = Mine(kit[p], b) \/ Collect(Mine(kit[p], b))
      PROVE  chain'[k] \in {chain[k], <<>>} \/ (k = kit[p] /\ chain'[k] = Append(chain[k], b))
  <2>1. chain'[k] \in {Mine(kit[p], b)[k], <<>>}
    BY <1>3, CollectEmulator
  <2>2. Mine(kit[p], b)[k] = IF k = kit[p] THEN Append(chain[k], b) ELSE chain[k]
    BY <1>1, MineEmulator
  <2> QED
    BY <2>1, <2>2
<1>4. CASE CalmLoad(p)
  <2>1. CASE ReadExecutions(p) \/ ReadDeployments(p) \/ UseCached(p) \/ AddToCache(p)
    BY <1>2, <2>1 DEF ReadExecutions, ReadDeployments, UseCached, AddToCache
  <2>2. CASE TakeNew(p)
    <3> DEFINE new == CHOOSE x \in Spare : TRUE
    <3>1. Collect([chain EXCEPT ![new] = <<>>])
      BY <2>2 DEF TakeNew
    <3> HIDE DEF new
    <3>2. chain'[k] \in {[chain EXCEPT ![new] = <<>>][k], <<>>}
      BY <3>1, CollectEmulator
    <3> QED
      BY <1>1, <3>2 DEF TypeOK
  <2>3. CASE RunMissingBlock(p)
    <3>1. /\ pc[p] = "replay" /\ height[p] < Total(seen[p])
      BY <2>3 DEF RunMissingBlock
    <3>2. /\ seen[p] = log /\ Filling(p)
          /\ \E r \in log : r.height = height[p] + 1 /\ RowsAt(log, height[p] + 1) = {r}
      BY <3>1, Replaying DEF CalmInv
    <3>3. PICK r \in log : r.height = height[p] + 1 /\ chain' = Mine(kit[p], r.script)
      BY <2>3, <3>2 DEF RunMissingBlock
    <3> QED
      BY <1>3, <3>2, <3>3 DEF Sends
  <2> QED
    BY <1>4, <2>1, <2>2, <2>3 DEF CalmLoad
<1>5. CASE OpStep(p)
  <2>1. CASE ExecuteTransaction(p) \/ DeployContract(p)
    <3>1. chain' = Mine(kit[p], script[p]) /\ pc[p] = "run" /\ pc'[p] = "record" /\ script[p] \in Scripts
      BY <1>1, <2>1 DEF ExecuteTransaction, DeployContract, Goto, TypeOK, Inv, CallInv, Scripts
    <3> QED
      BY <1>3, <3>1 DEF Sends
  <2>2. CASE CreateAccount(p)
    BY <1>3, <2>2 DEF CreateAccount, Sends
  <2>3. CASE ScriptErrs(p)
    BY <1>2, <1>3, <2>3 DEF ScriptErrs, Sends
  <2>4. CASE ExecuteScript(p) \/ ReadAccount(p) \/ ReadStorage(p) \/ FindDeployment(p) \/ Truncate(p)
               \/ Reload(p) \/ DeployRefused(p) \/ Record(p) \/ StoreErrs(p)
    BY <1>2, <2>4 DEF ExecuteScript, ReadAccount, ReadStorage, FindDeployment, Truncate,
                      Reload, DeployRefused, Record, StoreErrs
  <2> QED
    BY <1>5, <2>1, <2>2, <2>3, <2>4 DEF OpStep
<1> QED
  BY <1>4, <1>5, CalmProceed

\* The block is on no emulator it is sent to.
LEMMA SendsNew ==
  ASSUME Inv, RowsInv, CalmInv, NEW p \in Procs, NEW k \in FlowKits, NEW b, Sends(p, k, b)
  PROVE  b \in Scripts => b \notin Range(chain[k])
<1> SUFFICES ASSUME b \in Scripts PROVE b \notin Range(chain[k])
  OBVIOUS
<1>1. CASE b = Unrecorded
  BY <1>1, ConstantsAssumption
<1>2. CASE b = script[p] /\ pc[p] = "run"
  BY <1>2, ConstantsAssumption DEF CalmInv, NotRunYet
<1>3. ASSUME Filling(p), k = kit[p], NEW r \in log, r.height = height[p] + 1, b = r.script
      PROVE  b \notin Range(chain[k])
  <2>1. chain[k] \in Seq(Blocks) /\ Len(chain[k]) \in Nat /\ InitHeight \in Nat
    BY ConstantsAssumption DEF Inv, TypeOK
  <2>2. ASSUME NEW i \in 1..Len(chain[k]) PROVE chain[k][i] # b
    <3>1. [height |-> InitHeight + i, script |-> chain[k][i]] \in log
      BY <1>3 DEF Filling
    <3>2. InitHeight + i # r.height
      BY <1>3, <2>1 DEF Filling, Top
    <3> QED
      BY <1>3, <3>1, <3>2 DEF RowsInv, Named
  <2> QED
    BY <2>1, <2>2 DEF Range
<1> QED
  BY <1>1, <1>2, <1>3 DEF Sends

LEMMA TwiceStep ==
  ASSUME ReadsSucceed, Inv, RowsInv, CalmInv, NEW p \in Procs, Proceed(p)
  PROVE  NoBlockTwice'
<1> SUFFICES ASSUME NEW k \in FlowKits, NEW i \in DOMAIN chain'[k], NEW j \in DOMAIN chain'[k],
                    chain'[k][i] = chain'[k][j], chain'[k][i] \in Scripts
             PROVE  i = j
  BY DEF NoBlockTwice
<1>1. CASE chain'[k] = chain[k]
  BY <1>1 DEF CalmInv, NoBlockTwice
<1>2. CASE chain'[k] = <<>>
  BY <1>2
<1>3. ASSUME NEW b, Sends(p, k, b) PROVE i = j
  <2> DEFINE n == Len(chain[k])
  <2>1. chain[k] \in Seq(Blocks) /\ n \in Nat /\ DOMAIN chain[k] = 1..n
    BY DEF Inv, TypeOK
  <2>2. chain'[k] = Append(chain[k], b)
    BY <1>3 DEF Sends
  <2>3. /\ DOMAIN chain'[k] = 1..(n + 1) /\ chain'[k][n + 1] = b
        /\ \A x \in 1..n : chain'[k][x] = chain[k][x]
    BY <2>1, <2>2
  <2>4. b \in Scripts => \A x \in 1..n : chain[k][x] # b
    BY <1>3, <2>1, SendsNew DEF Range
  <2> HIDE DEF n
  <2>5. CASE i \in 1..n /\ j \in 1..n
    BY <2>1, <2>3, <2>5 DEF CalmInv, NoBlockTwice
  <2>6. i = n + 1 \/ i \in 1..n
    BY <2>1, <2>3
  <2>7. j = n + 1 \/ j \in 1..n
    BY <2>1, <2>3
  <2> QED
    BY <2>3, <2>4, <2>5, <2>6, <2>7
<1> QED
  BY <1>1, <1>2, <1>3, ChainStep

LEMMA NotRunStep ==
  ASSUME LocksTaken, ReadsSucceed, Inv, RowsInv, CalmInv, NEW p \in Procs, Proceed(p)
  PROVE  NotRunYet'
<1> SUFFICES ASSUME NEW q \in Procs, script'[q] # NoScript, pc'[q] # "record", NEW k \in FlowKits
             PROVE  script'[q] \notin Range(chain'[k])
  BY DEF NotRunYet
<1>1. script'[q] = script[q] /\ script[q] # NoScript /\ script[q] \in Scripts /\ Continues(p)
  BY ScriptFrame, ProceedFrame DEF Inv, TypeOK
<1>2. pc[q] # "record"
  <2> SUFFICES ASSUME pc[q] = "record" PROVE FALSE
    OBVIOUS
  <2>1. q = p
    BY WriterProceeds
  <2>2. Record(p) \/ StoreErrs(p)
    BY <2>1 DEF Proceed, LoadStep, ReadExecutions, ReadDeployments, UseCached, TakeNew, RunMissingBlock,
                AddToCache, LoadErrs, MissingBlock, BlockDiverges, ResetStep, ResetCache, ResetState,
                ResetErrs, OpStep, ExecuteTransaction, ExecuteScript, ReadAccount, ReadStorage, CreateAccount,
                DeployContract, FindDeployment, Truncate, Reload, DeployRefused, ScriptErrs
  <2>3. script'[p] = NoScript
    BY <2>2 DEF Record, StoreErrs, Return, Inv, TypeOK
  <2> QED
    BY <2>1, <2>3
<1>3. script[q] \notin Range(chain[k])
  BY <1>1, <1>2 DEF CalmInv, NotRunYet
<1>4. CASE chain'[k] \in {chain[k], <<>>}
  BY <1>1, <1>3, <1>4 DEF Range
<1>5. ASSUME NEW b, Sends(p, k, b) PROVE script[q] \notin Range(chain'[k])
  <2>1. b # script[q]
    <3>1. CASE b = Unrecorded
      BY <1>1, <3>1, ConstantsAssumption
    <3>2. CASE b = script[p] /\ pc'[p] = "record"
      BY <1>1, <3>2 DEF RowsInv, Named
    <3>3. CASE \E r \in log : b = r.script
      BY <1>1, <3>3 DEF RowsInv, Named
    <3> QED
      BY <1>5, <3>1, <3>2, <3>3 DEF Sends
  <2>2. chain[k] \in Seq(Blocks) /\ chain'[k] = Append(chain[k], b)
    BY <1>5 DEF Sends, Inv, TypeOK
  <2>3. \A x \in DOMAIN chain'[k] : chain'[k][x] = b \/ chain'[k][x] \in Range(chain[k])
    BY <2>2 DEF Range
  <2> QED
    BY <1>3, <2>1, <2>3 DEF Range
<1> QED
  BY <1>1, <1>4, <1>5, ChainStep

-----------------------------------------------------------------------------
(* The invariant *)

LEMMA CalmStep ==
  ASSUME OneReplica, LocksTaken, ReadsSucceed, Inv, Inv', RowsInv, CalmInv, [Next]_vars
  PROVE  CalmInv'
<1>0. TypeOK /\ TypeInv'
  BY DEF Inv, TypeInv
<1>1. ASSUME NEW p \in Procs, Proceed(p) PROVE CalmInv'
  BY <1>0, <1>1, ServesStep, RefusedStep, RefusedNextStep, TwiceStep, NotRunStep DEF CalmInv
<1>2. ASSUME NEW p \in Procs, Request(p) PROVE CalmInv'
  <2>1. PICK o \in Ops, s \in Scripts \cup {NoScript} :
          /\ s \in Arguments(o) /\ script' = [script EXCEPT ![p] = s]
          /\ Goto(p, CASE o = "Reset"       -> "reset"
                       [] o = "GetFlowJson" -> "readExecutions"
                       [] OTHER             -> "waiting")
    BY <1>2 DEF Request
  <2>2. o # "Reset" /\ o # "GetFlowJson"
    BY DEF LocksTaken, Locked, Writers, Readers
  <2>3. s # NoScript => Unused(s)
    BY <2>1, ConstantsAssumption DEF Arguments
  <2>4. /\ UNCHANGED <<log, cache, chain, seen, kit, height>>
        /\ pc'[p] = "waiting" /\ script'[p] = s
        /\ \A q \in Procs \ {p} : pc'[q] = pc[q] /\ script'[q] = script[q] /\ op'[q] = op[q]
    BY <1>0, <1>2, <2>1, <2>2 DEF Request, Goto, TypeOK
  <2>5. NoReset' /\ ServesLog' /\ NoTornAccount'
    BY <2>4 DEF CalmInv, NoReset, ServesLog, NoTornAccount, Serving, Replays, Top
  <2>6. LoadsKnow'
    BY <2>4 DEF CalmInv, LoadsKnow, Loading, Filling, Filled, Replays, TxRows, Top, Total
  <2>7. NeverRefused' /\ NeverRefusedNext' /\ NoBlockTwice'
    BY <2>4 DEF CalmInv, NeverRefused, NeverRefusedNext, NoBlockTwice, DeployRows
  <2>8. NotRunYet'
    BY <2>3, <2>4 DEF CalmInv, NotRunYet, Unused
  <2> QED
    BY <2>5, <2>6, <2>7, <2>8 DEF CalmInv
<1>3. ASSUME NEW p \in Procs, Acquire(p) PROVE CalmInv'
  <2>1. /\ UNCHANGED <<log, cache, chain, op, script, seen, kit, height>>
        /\ pc[p] = "waiting" /\ pc'[p] = "readExecutions" /\ \A q \in Procs \ {p} : pc'[q] = pc[q]
    BY <1>0, <1>3 DEF Acquire, Goto, TypeOK
  <2>2. NoReset' /\ ServesLog' /\ NoTornAccount'
    BY <2>1 DEF CalmInv, NoReset, ServesLog, NoTornAccount, Serving, Replays, Top
  <2>3. LoadsKnow'
    BY <2>1 DEF CalmInv, LoadsKnow, Loading, Filling, Filled, Replays, TxRows, Top, Total
  <2>4. NeverRefused' /\ NeverRefusedNext' /\ NoBlockTwice' /\ NotRunYet'
    BY <2>1 DEF CalmInv, NeverRefused, NeverRefusedNext, NoBlockTwice, NotRunYet, DeployRows
  <2> QED
    BY <2>2, <2>3, <2>4 DEF CalmInv
<1>4. ASSUME NEW r \in Replicas, Evict(r) PROVE CalmInv'
  <2>1. /\ UNCHANGED <<log, pc, op, script, seen, kit, height>> /\ Collect(chain)
        /\ \A o \in Replicas : cache'[o] \in {NoKit, cache[o]}
    BY <1>0, <1>4 DEF Evict, TypeOK
  <2>2. \A q \in Procs : kit[q] \in FlowKits => chain'[kit[q]] = chain[kit[q]]
    BY <1>0, <2>1, CollectKeeps, InUseNext
  <2>3. \A q \in Procs : pc[q] \in {"replay", "run", "storage"} => kit[q] \in FlowKits /\ kit[q] # NoKit
    BY ConstantsAssumption DEF Inv, CallInv
  <2>4. NoReset' /\ ServesLog' /\ NoTornAccount'
    BY <2>1, <2>2, <2>3 DEF CalmInv, NoReset, ServesLog, NoTornAccount, Serving, Replays, Top
  <2>5. ASSUME NEW q \in Procs, pc[q] = "replay", Filling(q) PROVE Filling(q)'
    <3>1. kit[q] \notin Range(cache')
      BY <1>0, <2>1, <2>3, <2>5, InUseNext, InUseNow DEF Filling, Inv, TypeInv
    <3> QED
      BY <2>1, <2>2, <2>3, <2>5, <3>1 DEF Filling, Top, Total
  <2>6. ASSUME NEW q \in Procs, pc[q] = "replay", Filled(q) PROVE Filled(q)'
    BY <2>1, <2>2, <2>3, <2>6 DEF Filled, Replays, Total
  <2>7. LoadsKnow'
    BY <2>1, <2>5, <2>6 DEF CalmInv, LoadsKnow, Loading, TxRows
  <2>8. NeverRefused' /\ NeverRefusedNext'
    BY <2>1 DEF CalmInv, NeverRefused, NeverRefusedNext, DeployRows
  <2>9. \A k \in FlowKits : chain'[k] \in {chain[k], <<>>}
    BY <2>1, CollectEmulator
  <2>10. NoBlockTwice' /\ NotRunYet'
    BY <2>1, <2>9 DEF CalmInv, NoBlockTwice, NotRunYet, Range
  <2> QED
    BY <2>4, <2>7, <2>8, <2>10 DEF CalmInv
<1>5. ASSUME NEW r \in Replicas, Crash(r) PROVE CalmInv'
  <2>1. /\ log' = log /\ Collect(chain)
        /\ \A p \in Procs : pc'[p] = "idle" /\ script'[p] = NoScript
    BY <1>5 DEF Crash, OneReplica
  <2>2. NoReset' /\ ServesLog' /\ NoTornAccount' /\ LoadsKnow' /\ NeverRefusedNext' /\ NotRunYet'
    BY <2>1 DEF NoReset, ServesLog, NoTornAccount, Serving, LoadsKnow, Loading, NeverRefusedNext, NotRunYet
  <2>3. \A k \in FlowKits : chain'[k] \in {chain[k], <<>>}
    BY <2>1, CollectEmulator
  <2>4. NeverRefused' /\ NoBlockTwice'
    BY <2>1, <2>3 DEF CalmInv, NeverRefused, NoBlockTwice, DeployRows
  <2> QED
    BY <2>2, <2>4 DEF CalmInv
<1>6. CASE UNCHANGED vars
  <2>1. NoReset' /\ ServesLog' /\ NoTornAccount'
    BY <1>6 DEF vars, CalmInv, NoReset, ServesLog, NoTornAccount, Serving, Replays, Top
  <2>2. LoadsKnow'
    BY <1>6 DEF vars, CalmInv, LoadsKnow, Loading, Filling, Filled, Replays, TxRows, Top, Total
  <2>3. NeverRefused' /\ NeverRefusedNext' /\ NoBlockTwice' /\ NotRunYet'
    BY <1>6 DEF vars, CalmInv, NeverRefused, NeverRefusedNext, NoBlockTwice, NotRunYet, DeployRows
  <2> QED
    BY <2>1, <2>2, <2>3 DEF CalmInv
<1> QED
  BY <1>1, <1>2, <1>3, <1>4, <1>5, <1>6 DEF Next

LEMMA CalmInit == Init => CalmInv
BY ConstantsAssumption
   DEF Init, CalmInv, NoReset, LoadsKnow, Loading, ServesLog, Serving, NoTornAccount, NeverRefused,
       NeverRefusedNext, NoBlockTwice, NotRunYet, DeployRows

\* Without a failed read no load resets the project, whatever else fails: what every call of one
\* replica that takes the lock relies on (src/blockchain/projects.go:292-333).
THEOREM CalmInvariant ==
  ASSUME OneReplica, LocksTaken, ReadsSucceed
  PROVE  Spec => [](Inv /\ RowsInv /\ CalmInv)
<1>1. Init => CalmInv
  BY CalmInit
<1>2. (Inv /\ RowsInv) /\ (Inv /\ RowsInv)' /\ CalmInv /\ [Next]_vars => CalmInv'
  BY CalmStep
<1> QED
  BY <1>1, <1>2, RowsInvariant, PTL DEF Spec

\* Readers share the project's lock and its emulator (src/blockchain/mutex.go,
\* src/blockchain/projects.go:292-358): each of them, and each writer, runs on exactly the rows.
THEOREM EveryCallServed ==
  ASSUME OneReplica, LocksTaken, ReadsSucceed
  PROVE  Spec => []ServesLog
<1>1. CalmInv => ServesLog
  BY DEF CalmInv
<1> QED
  BY <1>1, CalmInvariant, PTL

\* The account and the storage that getAccount reads one after the other are of one block
\* (src/blockchain/projects.go:449-480).
THEOREM AccountsNotTorn ==
  ASSUME OneReplica, LocksTaken, ReadsSucceed
  PROVE  Spec => []NoTornAccount
<1>1. CalmInv => NoTornAccount
  BY DEF CalmInv
<1> QED
  BY <1>1, CalmInvariant, PTL

\* No emulator runs a persisted block twice, though load replays blocks on emulators that ran some
\* already (src/blockchain/projects.go:335-358).
THEOREM BlocksRunOnce ==
  ASSUME OneReplica, LocksTaken, ReadsSucceed
  PROVE  Spec => []NoBlockTwice
<1>1. CalmInv => NoBlockTwice
  BY DEF CalmInv
<1> QED
  BY <1>1, CalmInvariant, PTL

-----------------------------------------------------------------------------
(* No row is lost *)

\* When only deployments add contracts, a rollback is to before a deployment row.
LEMMA RollbackInvariant ==
  ASSUME OneReplica, LocksTaken, OnlyDeployed
  PROVE  Spec => [](Inv /\ RowsInv /\ RollsBackToDeployment)
<1>1. Init => RollsBackToDeployment
  BY DEF Init, RollsBackToDeployment
<1>2. Inv /\ RollsBackToDeployment /\ [Next]_vars => RollsBackToDeployment'
  BY RollsBackStep
<1> QED
  BY <1>1, <1>2, RowsInvariant, PTL DEF Spec

LEMMA KeepsHistory ==
  ASSUME Inv, NoReset, RollsBackToDeployment, [Next]_vars
  PROVE  HistoryKept
<1>1. CASE log \subseteq log'
  BY <1>1 DEF HistoryKept
<1>2. ASSUME NEW p \in Procs, Truncate(p) PROVE HistoryKept
  <2>1. pc[p] = "truncate" /\ op[p] = "DeployContract" /\ log' = RowsBelow(log, height[p])
    BY <1>2 DEF Truncate, Inv, CallInv
  <2>2. PICK d \in DeployRows(log) : Contract[d.script] = Contract[script[p]] /\ d.height = height[p]
    BY <2>1 DEF RollsBackToDeployment
  <2>3. ASSUME NEW r \in log \ log' PROVE d.height <= r.height
    BY <2>1, <2>2, <2>3 DEF RowsBelow, Rows, Inv, TypeOK
  <2> QED
    BY <2>1, <2>2, <2>3 DEF HistoryKept
<1>3. ASSUME NEW p \in Procs, Proceed(p) PROVE log \subseteq log' \/ Truncate(p)
  BY <1>3, RowsChange DEF ResetState, Record, NoReset
<1>4. ASSUME NEW p \in Procs, Request(p) \/ Acquire(p) PROVE log' = log
  BY <1>4 DEF Request, Acquire
<1>5. ASSUME NEW r \in Replicas, Evict(r) \/ Crash(r) PROVE log' = log
  BY <1>5 DEF Evict, Crash
<1> QED
  BY <1>1, <1>2, <1>3, <1>4, <1>5 DEF Next, vars

\* Nothing that is not a failed read removes a row but deploying its contract, or that of a row
\* before it, again (src/blockchain/projects.go:163-234): neither an emulator that is ahead of the
\* rows, evicted or gone with its server, nor calls that wait for each other.
THEOREM RowsNotLost ==
  ASSUME OneReplica, LocksTaken, ReadsSucceed, OnlyDeployed
  PROVE  Spec => NoHistoryLost
<1>1. CalmInv => NoReset
  BY DEF CalmInv
<1>2. Inv /\ NoReset /\ RollsBackToDeployment /\ [Next]_vars => [HistoryKept]_vars
  BY KeepsHistory
<1> QED
  BY <1>1, <1>2, CalmInvariant, RollbackInvariant, PTL DEF Spec, NoHistoryLost

\* The same rows, as a history of their own: without a reset by the user or a failed read the
\* abstract history may not be cleared (MayClear is FALSE), and they implement it.
THEOREM RowsNeverCleared ==
  ASSUME OneReplica, LocksTaken, ReadsSucceed, OnlyDeployed
  PROVE  Spec => ImplementsHistory
<1>1. Init => History!Init
  BY HistOfNone DEF Init, History!Init, HistOf
<1>2. CalmInv => NoReset
  BY DEF CalmInv
<1>3. Inv /\ Inv' /\ RowsInv /\ RollsBackToDeployment /\ NoReset /\ [Next]_vars => [History!Next]_Hist
  BY HistSimulation
<1> QED
  BY <1>1, <1>2, <1>3, CalmInvariant, RollbackInvariant, PTL
     DEF Spec, ImplementsHistory, History!Spec, Hist, HistOf

-----------------------------------------------------------------------------
(* Any number of replicas whose calls take turns *)

\* The call that proceeds is the only one.
LEMMA TurnAlone ==
  ASSUME TurnsInv, NEW p \in Procs, Proceed(p)
  PROVE  /\ Continues(p)
         /\ \A q \in Procs \ {p} : pc[q] = "idle" /\ pc'[q] = "idle" /\ kit[q] = NoKit /\ kit'[q] = NoKit
<1>1. Continues(p)
  BY ProceedFrame DEF TurnsInv
<1>2. \A q \in Procs \ {p} : pc[q] = "idle"
  BY <1>1 DEF Continues, TurnsInv, OneCall
<1>3. \A q \in Procs \ {p} : kit[q] = NoKit
  BY <1>2 DEF TurnsInv, Turn
<1> QED
  BY <1>1, <1>2, <1>3 DEF Continues, Others

\* While a call is past its load and before its record, every cached emulator ran the first rows.
LEMMA SettledCaches ==
  ASSUME TurnsInv, NEW p \in Procs, pc[p] \in {"replay", "run", "storage"}
  PROVE  \A r \in Replicas : cache[r] # NoKit => Behind(cache[r])
<1>1. \A q \in Procs : pc[q] # "idle" => q = p
  BY DEF TurnsInv, OneCall
<1> QED
  BY <1>1 DEF TurnsInv, CachesBehind

\* An emulator whose blocks stay ran the first rows however many are added.
LEMMA BehindKept ==
  ASSUME LogInv, LogInv', log \subseteq log', NEW j, NEW k, chain'[j] = chain[k], Behind(k),
         Len(chain[k]) \in Nat
  PROVE  /\ Len(chain'[j]) <= Cardinality(log')
         /\ \A i \in 1..Len(chain'[j]) : [height |-> InitHeight + i, script |-> chain'[j][i]] \in log'
<1>1. Cardinality(log) \in Nat /\ Cardinality(log') \in Nat /\ Cardinality(log) <= Cardinality(log')
  BY FS_CardinalityType, FS_Subset DEF LogInv
<1> QED
  BY <1>1 DEF Behind

\* One that ran all the rows ran the first ones.
LEMMA ReplaysBehind ==
  ASSUME LogInv, NEW k, Replays(chain[k], log)
  PROVE  Behind(k)
<1>1. Cardinality(log) \in Nat
  BY FS_CardinalityType DEF LogInv
<1> QED
  BY <1>1 DEF Replays, Behind

\* What is left to show of a step of a call.
Moves(p) == LogInv' /\ OwnEmulators' /\ CachesBehind' /\ Turn(p)'

LEMMA TurnNext ==
  ASSUME TurnsInv, TypeInv', NEW p \in Procs, Proceed(p), Moves(p)
  PROVE  TurnsInv'
<1>1. /\ Continues(p)
      /\ \A q \in Procs \ {p} : pc[q] = "idle" /\ pc'[q] = "idle" /\ kit[q] = NoKit /\ kit'[q] = NoKit
  BY TurnAlone
<1>2. OpsInv'
  BY <1>1 DEF TurnsInv, OpsInv, Continues, Others
<1>3. Named'
  BY NamedStep DEF TurnsInv, TypeInv
<1>4. OneCall'
  BY <1>1 DEF OneCall
<1>5. ASSUME NEW q \in Procs \ {p} PROVE Turn(q)'
  BY <1>1 DEF Turn, Serving
<1> QED
  BY <1>2, <1>3, <1>4, <1>5 DEF TurnsInv, Moves, TypeInv

\* The emulators stay at their replicas when none is added to a cache and the call takes none.
LEMMA OwnKept ==
  ASSUME TurnsInv, NEW p \in Procs, Proceed(p),
         \A r \in Replicas : cache'[r] \in {NoKit, cache[r]}, kit'[p] \in {NoKit, kit[p]}
  PROVE  OwnEmulators'
<1>1. \A q \in Procs : kit'[q] \in {NoKit, kit[q]}
  BY TurnAlone
<1> QED
  BY <1>1 DEF TurnsInv, OwnEmulators

\* A call that is being served, or replays, and goes on leaves the caches as far as they were.
LEMMA SettledKept ==
  ASSUME TurnsInv, TypeInv', LogInv', NEW p \in Procs, pc[p] \in {"replay", "run", "storage"},
         log \subseteq log',
         \A r \in Replicas : cache'[r] \in {NoKit, cache[r]},
         \A k \in FlowKits : k \in Range(cache') => chain'[k] = chain[k]
  PROVE  CachesBehind'
<1> SUFFICES ASSUME NEW r \in Replicas, cache'[r] # NoKit PROVE Behind(cache[r])'
  BY DEF CachesBehind
<1>1. cache'[r] = cache[r] /\ cache[r] \in FlowKits
  BY DEF TurnsInv, TypeOK
<1>2. chain'[cache'[r]] = chain[cache[r]] /\ Len(chain[cache[r]]) \in Nat
  BY <1>1, InUseNext DEF TurnsInv, TypeOK
<1>3. Behind(cache[r])
  BY <1>1, SettledCaches
<1> QED
  BY <1>2, <1>3, BehindKept DEF TurnsInv, Behind

-----------------------------------------------------------------------------
(* The load *)

LEMMA ReadTurn ==
  ASSUME TurnsInv, TypeInv', NEW p \in Procs, ReadExecutions(p) \/ ReadDeployments(p)
  PROVE  Moves(p)
<1>0. Proceed(p) /\ TypeOK
  BY DEF Proceed, LoadStep, TurnsInv
<1>1. /\ UNCHANGED <<log, cache, chain, kit>> /\ kit[p] = NoKit
      /\ pc[p] \in {"readExecutions", "readDeployments"} /\ pc'[p] \in {"readDeployments", "fetch"}
  BY <1>0 DEF ReadExecutions, ReadDeployments, Goto, TypeOK, TurnsInv, Turn
<1>2. OwnEmulators'
  BY <1>0, <1>1, OwnKept
<1>3. CachesBehind'
  <2> SUFFICES ASSUME NEW r \in Replicas, cache[r] # NoKit, ~Behind(cache[r])
               PROVE  Home[p] = r /\ Len(chain[cache[r]]) > Cardinality(log)
    BY <1>1 DEF CachesBehind, Behind
  <2>1. \A q \in Procs : pc[q] # "idle" => q = p
    BY <1>1 DEF TurnsInv, OneCall
  <2> QED
    BY <1>1, <2>1 DEF TurnsInv, CachesBehind
<1>4. Turn(p)'
  <2>1. CASE ReadExecutions(p)
    <3>1. pc'[p] = "readDeployments" /\ seen'[p] = TxRows(log)
      BY <1>0, <2>1 DEF ReadExecutions, Goto, TypeOK
    <3> QED
      BY <1>1, <3>1 DEF Turn, Serving, TxRows
  <2>2. CASE ReadDeployments(p)
    <3>1. pc'[p] = "fetch" /\ seen'[p] = TxRows(log) \cup DeployRows(log)
      BY <1>0, <2>2 DEF ReadDeployments, Goto, TypeOK, TurnsInv, Turn
    <3>2. TxRows(log) \cup DeployRows(log) = log
      BY <1>0 DEF TxRows, DeployRows, TypeOK, Rows, Scripts
    <3> QED
      BY <1>1, <3>1, <3>2 DEF Turn, Serving
  <2> QED
    BY <2>1, <2>2
<1>5. LogInv'
  BY <1>1 DEF TurnsInv, LogInv, LogContiguous
<1> QED
  BY <1>2, <1>3, <1>4, <1>5 DEF Moves

LEMMA UseCachedTurn ==
  ASSUME TurnsInv, TypeInv', NEW p \in Procs, UseCached(p)
  PROVE  Moves(p)
<1> DEFINE k == cache[Home[p]]
<1>0. Proceed(p) /\ TypeOK /\ Home[p] \in Replicas
  BY ConstantsAssumption DEF Proceed, LoadStep, TurnsInv
<1>1. /\ UNCHANGED <<log, cache, chain, seen>> /\ seen[p] = log
      /\ pc[p] = "fetch" /\ pc'[p] = "replay" /\ kit'[p] = k /\ height'[p] = Top(k)
      /\ k \in FlowKits /\ ~Outdated(k, log)
  BY <1>0 DEF UseCached, Goto, TypeOK, TurnsInv, Turn
<1>2. Len(chain[k]) <= Cardinality(log)
  <2>1. Len(chain[k]) \in Nat /\ Cardinality(log) \in Nat /\ InitHeight \in Nat
    BY <1>0, <1>1, FS_CardinalityType, ConstantsAssumption DEF TurnsInv, TypeOK, LogInv
  <2> HIDE DEF k
  <2> QED
    BY <1>1, <2>1 DEF Outdated, Top, Total
<1>3. \A q \in Procs : pc[q] # "idle" => q = p
  BY <1>1 DEF TurnsInv, OneCall
<1>4. ASSUME NEW r \in Replicas, cache[r] # NoKit PROVE Behind(cache[r])
  <2>1. CASE Home[p] = r
    <3>1. ~(Len(chain[cache[r]]) > Cardinality(log))
      <4>1. Len(chain[k]) \in Nat /\ Cardinality(log) \in Nat
        BY <1>0, <1>1, FS_CardinalityType DEF TurnsInv, TypeOK, LogInv
      <4> QED
        BY <1>2, <2>1, <4>1
    <3> QED
      BY <1>1, <1>3, <1>4, <3>1 DEF TurnsInv, CachesBehind
  <2>2. CASE Home[p] # r
    BY <1>1, <1>3, <1>4, <2>2 DEF TurnsInv, CachesBehind
  <2> QED
    BY <2>1, <2>2
<1>5. LogInv' /\ CachesBehind'
  BY <1>1, <1>4 DEF TurnsInv, LogInv, LogContiguous, CachesBehind, Behind
<1>6. OwnEmulators'
  <2>1. \A q \in Procs \ {p} : kit'[q] = NoKit
    BY <1>0, TurnAlone
  <2> QED
    BY <1>0, <1>1, <2>1 DEF TurnsInv, OwnEmulators
<1>7. Turn(p)'
  <2>1. Behind(k)
    BY <1>0, <1>1, <1>4, ConstantsAssumption
  <2> HIDE DEF k
  <2> QED
    BY <1>1, <2>1 DEF Turn, Serving, Behind, Top
<1> QED
  BY <1>5, <1>6, <1>7 DEF Moves

LEMMA TakeNewTurn ==
  ASSUME TurnsInv, TypeInv', NEW p \in Procs, TakeNew(p)
  PROVE  Moves(p)
<1> DEFINE new == CHOOSE x \in Spare : TRUE
<1>0. Proceed(p) /\ TypeOK /\ Home[p] \in Replicas /\ TypeInv
  BY ConstantsAssumption DEF Proceed, LoadStep, TurnsInv, TypeInv, TypeOK
<1>1. new \in FlowKits /\ new \notin Range(cache) /\ new # NoKit
  BY ConstantsAssumption DEF TakeNew, Spare, InUse
<1>2. /\ UNCHANGED <<log, seen>> /\ seen[p] = log
      /\ pc[p] = "fetch" /\ pc'[p] = "replay" /\ kit'[p] = new /\ height'[p] = InitHeight
      /\ cache'[Home[p]] = NoKit
      /\ \A r \in Replicas : cache'[r] \in {NoKit, cache[r]}
      /\ Collect([chain EXCEPT ![new] = <<>>])
  BY <1>0 DEF TakeNew, Goto, TypeOK, TurnsInv, Turn
<1> HIDE DEF new
<1>3. chain'[new] = <<>>
  BY <1>0, <1>1, <1>2, NewEmulator, InUseNext
<1>4. \A k \in FlowKits : (k # new /\ k \in Range(cache')) => chain'[k] = chain[k]
  BY <1>0, <1>1, <1>2, NewEmulator
<1>5. \A q \in Procs : pc[q] # "idle" => q = p
  BY <1>2 DEF TurnsInv, OneCall
<1>6. LogInv'
  BY <1>2 DEF TurnsInv, LogInv, LogContiguous
<1>7. CachesBehind'
  <2> SUFFICES ASSUME NEW r \in Replicas, cache'[r] # NoKit PROVE Behind(cache[r])'
    BY DEF CachesBehind
  <2>1. cache'[r] = cache[r] /\ cache[r] \in FlowKits /\ Home[p] # r /\ cache[r] # new
    BY <1>0, <1>1, <1>2, InUseNow DEF TypeOK
  <2>2. Behind(cache[r])
    BY <1>2, <1>5, <2>1 DEF TurnsInv, CachesBehind
  <2>3. chain'[cache'[r]] = chain[cache[r]] /\ Len(chain[cache[r]]) \in Nat
    BY <1>0, <1>4, <2>1, InUseNext DEF TypeOK
  <2> QED
    BY <1>2, <1>6, <2>2, <2>3, BehindKept DEF TurnsInv, Behind
<1>8. OwnEmulators'
  <2>1. \A q \in Procs \ {p} : kit'[q] = NoKit
    BY <1>0, TurnAlone
  <2>2. \A r \in Replicas : cache[r] # new
    BY <1>0, <1>1, InUseNow
  <2> QED
    BY <1>2, <2>1, <2>2, <1>1 DEF TurnsInv, OwnEmulators
<1>9. Turn(p)'
  <2>1. Len(chain'[new]) = 0 /\ Cardinality(log) \in Nat /\ InitHeight \in Nat
    BY <1>3, FS_CardinalityType, ConstantsAssumption DEF TurnsInv, LogInv
  <2> QED
    BY <1>2, <2>1 DEF Turn, Serving, Behind, Top
<1> QED
  BY <1>6, <1>7, <1>8, <1>9 DEF Moves

\* What a call that has blocks to replay knows.
LEMMA TurnReplaying ==
  ASSUME TurnsInv, NEW p \in Procs, pc[p] = "replay"
  PROVE  /\ seen[p] = log /\ Behind(kit[p]) /\ kit[p] \in FlowKits
         /\ height[p] = Top(kit[p]) /\ height[p] = InitHeight + Len(chain[kit[p]])
         /\ Len(chain[kit[p]]) \in Nat /\ Cardinality(log) \in Nat /\ InitHeight \in Nat
         /\ height[p] < Total(seen[p]) =>
              \E r \in log : r.height = height[p] + 1 /\ RowsAt(log, height[p] + 1) = {r}
<1>1. seen[p] = log /\ Behind(kit[p]) /\ kit[p] \in FlowKits /\ height[p] = Top(kit[p])
  BY DEF TurnsInv, Turn, CallInv
<1>2. Len(chain[kit[p]]) \in Nat /\ Cardinality(log) \in Nat /\ InitHeight \in Nat
  BY <1>1, FS_CardinalityType, ConstantsAssumption DEF TurnsInv, TypeOK, LogInv
<1>3. height[p] = InitHeight + Len(chain[kit[p]])
  BY <1>1 DEF Top
<1>4. ASSUME height[p] < Total(seen[p])
      PROVE  \E r \in log : r.height = height[p] + 1 /\ RowsAt(log, height[p] + 1) = {r}
  <2>1. InitHeight < height[p] + 1 /\ height[p] + 1 <= Total(log) /\ height[p] + 1 \in Nat
    BY <1>1, <1>2, <1>3, <1>4 DEF Total
  <2> QED
    BY <2>1, RowAtHeight DEF TurnsInv, TypeOK
<1> QED
  BY <1>1, <1>2, <1>3, <1>4

\* A contract that is deployed once is on an emulator that ran the first rows only by its row.
LEMMA ContractOfRow ==
  ASSUME NoRedeployment, TurnsInv, NEW k \in FlowKits,
         \A i \in 1..Len(chain[k]) : [height |-> InitHeight + i, script |-> chain[k][i]] \in log,
         NEW d \in Deploys, Contract[d] \in OnChain(k)
  PROVE  \E i \in 1..Len(chain[k]) : [height |-> InitHeight + i, script |-> d] \in log
<1>1. PICK s \in Range(chain[k]) \cap Scripts : Contract[s] = Contract[d]
  BY DEF NoRedeployment, OnChain
<1>2. s = d
  BY <1>1 DEF NoRedeployment
<1>3. chain[k] \in Seq(Blocks)
  BY DEF TurnsInv, TypeOK
<1>4. PICK i \in 1..Len(chain[k]) : s = chain[k][i]
  BY <1>1, <1>3 DEF Range
<1> QED
  BY <1>2, <1>4

\* No load fails.
LEMMA TurnNoLoadFails ==
  ASSUME TurnsTaken, NoRedeployment, TurnsInv, NEW p \in Procs
  PROVE  ~LoadErrs(p) /\ ~MissingBlock(p) /\ ~BlockDiverges(p) /\ ~ResetStep(p)
<1>1. ~LoadErrs(p)
  BY DEF TurnsTaken, LoadErrs
<1>2. ~ResetStep(p)
  BY DEF TurnsInv, Turn, ResetStep, ResetCache, ResetState, ResetErrs
<1>3. ~MissingBlock(p)
  <2> SUFFICES ASSUME MissingBlock(p) PROVE FALSE
    OBVIOUS
  <2>1. pc[p] = "replay" /\ height[p] < Total(seen[p])
    BY DEF MissingBlock
  <2>2. /\ seen[p] = log /\ Behind(kit[p]) /\ kit[p] \in FlowKits
        /\ height[p] = InitHeight + Len(chain[kit[p]])
        /\ Len(chain[kit[p]]) \in Nat /\ InitHeight \in Nat
    BY <2>1, TurnReplaying
  <2>3. PICK r \in log : r.height = height[p] + 1 /\ RowsAt(log, height[p] + 1) = {r}
    BY <2>1, TurnReplaying
  <2>4. r.script \in Deploys /\ Contract[r.script] \in OnChain(kit[p])
    BY <2>2, <2>3 DEF MissingBlock
  <2>5. PICK i \in 1..Len(chain[kit[p]]) : [height |-> InitHeight + i, script |-> r.script] \in log
    BY <2>2, <2>4, ContractOfRow DEF Behind
  <2>6. [height |-> InitHeight + i, script |-> r.script] = r
    BY <2>5 DEF TurnsInv, Named
  <2>7. r.height = InitHeight + i
    BY <2>6
  <2> QED
    BY <2>2, <2>3, <2>7
<1>4. ~BlockDiverges(p)
  <2> SUFFICES ASSUME BlockDiverges(p) PROVE FALSE
    OBVIOUS
  <2>1. pc[p] = "replay"
    BY DEF BlockDiverges
  <2>2. Replays(chain[kit[p]], RowsBelow(log, Top(kit[p]) + 1))
    BY <2>1, TurnReplaying, BehindReplays DEF TurnsInv
  <2> QED
    BY <2>1, <2>2, TurnReplaying DEF BlockDiverges
<1> QED
  BY <1>1, <1>2, <1>3, <1>4

LEMMA RunMissingBlockTurn ==
  ASSUME TurnsInv, TypeInv', NEW p \in Procs, RunMissingBlock(p)
  PROVE  Moves(p)
<1> DEFINE k == kit[p]
           n == Len(chain[k])
<1>0. Proceed(p) /\ TypeOK
  BY DEF Proceed, LoadStep, TurnsInv
<1>1. /\ UNCHANGED <<log, cache, pc, seen, kit>> /\ pc[p] = "replay" /\ height[p] < Total(seen[p])
      /\ height'[p] = height[p] + 1
  BY <1>0 DEF RunMissingBlock, TypeOK
<1>2. /\ seen[p] = log /\ Behind(k) /\ k \in FlowKits /\ height[p] = InitHeight + n
      /\ n \in Nat /\ Cardinality(log) \in Nat /\ InitHeight \in Nat
  BY <1>1, TurnReplaying
<1>3. PICK r \in log : r.height = height[p] + 1 /\ chain' = Mine(k, r.script)
  <2>1. PICK r \in log : r.height = height[p] + 1 /\ RowsAt(log, height[p] + 1) = {r}
    BY <1>1, TurnReplaying
  <2> QED
    BY <1>2, <2>1 DEF RunMissingBlock
<1>4. r.script \in Blocks /\ r = [height |-> InitHeight + (n + 1), script |-> r.script]
  BY <1>0, <1>2, <1>3 DEF TypeOK, Rows, Blocks
<1>5. /\ Len(chain'[k]) = n + 1
      /\ \A i \in 1..n : chain'[k][i] = chain[k][i]
      /\ chain'[k][n + 1] = r.script
  <2>1. chain'[k] = Append(chain[k], r.script) /\ chain[k] \in Seq(Blocks)
    BY <1>0, <1>2, <1>3, MineEmulator DEF TypeOK
  <2> QED
    BY <1>4, <2>1, AppendProperties
<1>6. \A i \in 1..(n + 1) : [height |-> InitHeight + i, script |-> chain'[k][i]] \in log
  <2> SUFFICES ASSUME NEW i \in 1..(n + 1)
               PROVE  [height |-> InitHeight + i, script |-> chain'[k][i]] \in log
    OBVIOUS
  <2>1. CASE i = n + 1
    BY <1>4, <1>5, <2>1
  <2>2. CASE i # n + 1
    <3>1. i \in 1..n
      BY <1>2, <2>2
    <3> QED
      BY <1>2, <1>5, <3>1 DEF Behind
  <2> QED
    BY <2>1, <2>2
<1>7. n + 1 <= Cardinality(log) /\ height'[p] = InitHeight + (n + 1)
  BY <1>1, <1>2 DEF Total
<1>8. Len(chain'[k]) <= Cardinality(log) /\ kit'[p] = k /\ log' = log
  BY <1>1, <1>5, <1>7
<1>9. LogInv' /\ OwnEmulators'
  BY <1>0, <1>1, OwnKept DEF TurnsInv, LogInv, LogContiguous
<1>10. CachesBehind'
  <2> SUFFICES ASSUME NEW x \in Replicas, cache[x] # NoKit PROVE Behind(cache[x])'
    BY <1>1 DEF CachesBehind
  <2>1. CASE cache[x] = k
    BY <1>1, <1>5, <1>6, <1>8, <2>1 DEF Behind
  <2>2. CASE cache[x] # k
    <3>1. cache[x] \in FlowKits
      BY <1>0 DEF TypeOK
    <3>2. chain'[cache[x]] = chain[cache[x]] /\ Behind(cache[x])
      BY <1>0, <1>1, <1>3, <2>2, <3>1, MineEmulator, SettledCaches
    <3> QED
      BY <1>1, <3>2 DEF Behind
  <2> QED
    BY <2>1, <2>2
<1>11. Turn(p)'
  <2>1. Behind(kit[p])'
    BY <1>5, <1>6, <1>8 DEF Behind
  <2>2. Top(kit[p])' = InitHeight + (n + 1)
    BY <1>5, <1>8 DEF Top
  <2> HIDE DEF k, n
  <2> QED
    BY <1>1, <1>2, <1>7, <2>1, <2>2 DEF Turn, Serving
<1> QED
  BY <1>9, <1>10, <1>11 DEF Moves

LEMMA AddToCacheTurn ==
  ASSUME TurnsInv, TypeInv', NEW p \in Procs, AddToCache(p)
  PROVE  Moves(p)
<1>0. Proceed(p) /\ TypeOK /\ TypeInv /\ Home[p] \in Replicas
  BY ConstantsAssumption DEF Proceed, LoadStep, TurnsInv, TypeInv
<1>1. /\ UNCHANGED <<log, kit>> /\ pc[p] = "replay" /\ pc'[p] = "run" /\ height[p] >= Total(seen[p])
      /\ cache' = [cache EXCEPT ![Home[p]] = kit[p]] /\ Collect(chain)
  BY <1>0 DEF AddToCache, Goto, TypeOK
<1>2. /\ seen[p] = log /\ Behind(kit[p]) /\ kit[p] \in FlowKits
      /\ height[p] = InitHeight + Len(chain[kit[p]])
      /\ Len(chain[kit[p]]) \in Nat /\ Cardinality(log) \in Nat /\ InitHeight \in Nat
  BY <1>1, TurnReplaying
<1>3. Len(chain[kit[p]]) = Cardinality(log)
  BY <1>1, <1>2 DEF Behind, Total
<1>4. \A k \in FlowKits : k \in Range(cache') \cup Range(kit') => chain'[k] = chain[k]
  BY <1>1, CollectKeeps
<1>5. LogInv' /\ log' = log
  BY <1>1 DEF TurnsInv, LogInv, LogContiguous
<1>6. CachesBehind'
  <2> SUFFICES ASSUME NEW r \in Replicas, cache'[r] # NoKit PROVE Behind(cache[r])'
    BY DEF CachesBehind
  <2>1. Behind(cache'[r]) /\ cache'[r] \in FlowKits
    <3>1. CASE r = Home[p]
      BY <1>0, <1>1, <1>2, <3>1 DEF TypeOK
    <3>2. CASE r # Home[p]
      <4>1. cache'[r] = cache[r]
        BY <1>0, <1>1, <3>2 DEF TypeOK
      <4> QED
        BY <1>0, <1>1, <4>1, SettledCaches DEF TypeOK
    <3> QED
      BY <3>1, <3>2
  <2>2. chain'[cache'[r]] = chain[cache'[r]]
    BY <1>4, <2>1, InUseNext
  <2> QED
    BY <1>5, <2>1, <2>2 DEF Behind
<1>7. OwnEmulators'
  <2>1. \A q \in Procs \ {p} : kit'[q] = NoKit
    BY <1>0, TurnAlone
  <2>2. kit[p] # NoKit /\ \A r \in Replicas : cache'[r] = IF r = Home[p] THEN kit[p] ELSE cache[r]
    BY <1>0, <1>1, <1>2, ConstantsAssumption DEF TypeOK
  <2> QED
    BY <1>1, <2>1, <2>2 DEF TurnsInv, OwnEmulators
<1>8. Turn(p)'
  <2>1. chain'[kit'[p]] = chain[kit[p]]
    BY <1>1, <1>2, <1>4, InUseNext
  <2>2. Replays(chain'[kit'[p]], log')
    BY <1>2, <1>3, <1>5, <2>1 DEF Behind, Replays
  <2> QED
    BY <1>1, <2>2 DEF Turn, Serving
<1> QED
  BY <1>5, <1>6, <1>7, <1>8 DEF Moves

-----------------------------------------------------------------------------
(* The operations *)

\* A step that sends no block, after which the call has returned or loads again.
LEMMA LeaveTurn ==
  ASSUME TurnsInv, TypeInv', NEW p \in Procs, Proceed(p), pc[p] \in {"run", "storage"},
         pc'[p] \in {"idle", "readExecutions"}, kit'[p] = NoKit, UNCHANGED <<log, cache>>, Collect(chain)
  PROVE  Moves(p)
<1>1. LogInv' /\ OwnEmulators'
  BY OwnKept DEF TurnsInv, LogInv, LogContiguous
<1>2. CachesBehind'
  <2>1. \A k \in FlowKits : k \in Range(cache') => chain'[k] = chain[k]
    BY CollectKeeps
  <2> QED
    BY <1>1, <2>1, SettledKept
<1>3. Turn(p)'
  BY DEF Turn, Serving
<1> QED
  BY <1>1, <1>2, <1>3 DEF Moves

LEMMA ReadAccountTurn ==
  ASSUME TurnsInv, TypeInv', NEW p \in Procs, ReadAccount(p)
  PROVE  Moves(p)
<1>0. Proceed(p) /\ TypeOK
  BY DEF Proceed, OpStep, TurnsInv
<1>1. /\ UNCHANGED <<log, cache, chain, kit>> /\ pc[p] = "run" /\ pc'[p] = "storage"
      /\ height'[p] = Top(kit[p])
  BY <1>0 DEF ReadAccount, Goto, TypeOK
<1>2. LogInv' /\ OwnEmulators'
  BY <1>0, <1>1, OwnKept DEF TurnsInv, LogInv, LogContiguous
<1>3. CachesBehind'
  BY <1>1, <1>2, SettledKept
<1>4. Turn(p)'
  BY <1>1 DEF TurnsInv, Turn, Serving, Replays, Top
<1> QED
  BY <1>2, <1>3, <1>4 DEF Moves

\* The emulator a call is served ran all the rows, and a script of the call is on none.
LEMMA TurnServed ==
  ASSUME TurnsInv, NEW p \in Procs, pc[p] \in {"run", "storage"}
  PROVE  /\ kit[p] \in FlowKits /\ chain[kit[p]] \in Seq(Blocks)
         /\ Len(chain[kit[p]]) = Cardinality(log) /\ Cardinality(log) \in Nat
         /\ \A i \in 1..Len(chain[kit[p]]) :
              [height |-> InitHeight + i, script |-> chain[kit[p]][i]] \in log
BY FS_CardinalityType DEF TurnsInv, Turn, Serving, Replays, CallInv, TypeOK, LogInv

LEMMA SendTurn ==
  ASSUME TurnsInv, TypeInv', NEW p \in Procs, ExecuteTransaction(p) \/ DeployContract(p)
  PROVE  Moves(p)
<1> DEFINE k == kit[p]
           n == Cardinality(log)
<1>0. Proceed(p) /\ TypeOK
  BY DEF Proceed, OpStep, TurnsInv
<1>1. /\ UNCHANGED <<log, cache, kit, script>> /\ pc[p] = "run" /\ pc'[p] = "record"
      /\ chain' = Mine(k, script[p]) /\ script[p] \in Blocks
  BY <1>0 DEF ExecuteTransaction, DeployContract, Goto, TypeOK, TurnsInv, CallInv, Blocks, Scripts
<1>2. /\ k \in FlowKits /\ chain[k] \in Seq(Blocks) /\ Len(chain[k]) = n /\ n \in Nat
      /\ \A i \in 1..n : [height |-> InitHeight + i, script |-> chain[k][i]] \in log
  BY <1>1, TurnServed
<1>3. /\ Len(chain'[k]) = n + 1
      /\ \A i \in 1..n : chain'[k][i] = chain[k][i]
      /\ chain'[k][n + 1] = script[p]
  <2>1. chain'[k] = Append(chain[k], script[p])
    BY <1>0, <1>1, <1>2, MineEmulator
  <2> QED
    BY <1>1, <1>2, <2>1, AppendProperties
<1>4. LogInv' /\ OwnEmulators'
  BY <1>0, <1>1, OwnKept DEF TurnsInv, LogInv, LogContiguous
<1>5. CachesBehind'
  <2> SUFFICES ASSUME NEW r \in Replicas, cache[r] # NoKit, cache[r] # k PROVE Behind(cache[r])'
    BY <1>1 DEF CachesBehind
  <2>1. cache[r] \in FlowKits
    BY <1>0 DEF TypeOK
  <2>2. chain'[cache[r]] = chain[cache[r]] /\ Behind(cache[r])
    BY <1>0, <1>1, <2>1, MineEmulator, SettledCaches
  <2> QED
    BY <1>1, <2>2 DEF Behind
<1>6. Turn(p)'
  <2>1. \A i \in 1..n : [height |-> InitHeight + i, script |-> chain'[k][i]] \in log
    BY <1>2, <1>3
  <2> QED
    BY <1>1, <1>3, <2>1 DEF Turn, Serving
<1> QED
  BY <1>4, <1>5, <1>6 DEF Moves

LEMMA CreateAccountTurn ==
  ASSUME TurnsInv, TypeInv', NEW p \in Procs, CreateAccount(p)
  PROVE  Moves(p)
<1> DEFINE k == kit[p]
           n == Cardinality(log)
<1>0. Proceed(p) /\ TypeOK
  BY DEF Proceed, OpStep, TurnsInv
<1>1. /\ UNCHANGED <<log, cache>> /\ pc[p] = "run" /\ pc'[p] = "readExecutions" /\ kit'[p] = NoKit
      /\ Collect(Mine(k, Unrecorded))
  BY <1>0, LoadFrame DEF CreateAccount
<1>2. k \in FlowKits /\ chain[k] \in Seq(Blocks) /\ Len(chain[k]) = n /\ n \in Nat /\ k # NoKit
  BY <1>1, TurnServed, ConstantsAssumption
<1>3. \A j \in FlowKits : j \in Range(cache') =>
        chain'[j] = IF j = k THEN Append(chain[j], Unrecorded) ELSE chain[j]
  BY <1>0, <1>1, CollectKeeps, MineEmulator
<1>4. LogInv' /\ OwnEmulators'
  BY <1>0, <1>1, OwnKept DEF TurnsInv, LogInv, LogContiguous
<1>5. CachesBehind'
  <2> SUFFICES ASSUME NEW r \in Replicas, cache'[r] # NoKit
               PROVE  Behind(cache[r])' \/ (Home[p] = r /\ Len(chain'[cache'[r]]) > Cardinality(log'))
    BY <1>1 DEF CachesBehind
  <2>1. cache'[r] = cache[r] /\ cache[r] \in FlowKits /\ cache[r] \in Range(cache')
    BY <1>0, <1>1, InUseNext DEF TypeOK
  <2>2. CASE cache[r] = k
    <3>1. Home[p] = r
      BY <1>2, <2>2 DEF TurnsInv, OwnEmulators
    <3>2. chain'[k] = Append(chain[k], Unrecorded)
      BY <1>2, <1>3, <2>1, <2>2
    <3>3. Len(chain'[k]) = n + 1
      BY <1>2, <3>2
    <3> QED
      BY <1>1, <1>2, <2>1, <2>2, <3>1, <3>3
  <2>3. CASE cache[r] # k
    <3>1. chain'[cache[r]] = chain[cache[r]]
      BY <1>3, <2>1, <2>3
    <3>2. Behind(cache[r])
      BY <1>1, <2>1, SettledCaches
    <3> QED
      BY <1>1, <2>1, <3>1, <3>2 DEF Behind
  <2> QED
    BY <2>2, <2>3
<1>6. Turn(p)'
  BY <1>1 DEF Turn, Serving
<1> QED
  BY <1>4, <1>5, <1>6 DEF Moves

LEMMA RecordTurn ==
  ASSUME TurnsInv, TypeInv', NEW p \in Procs, Record(p)
  PROVE  Moves(p) /\ log \subseteq log'
<1> DEFINE k == kit[p]
           n == Cardinality(log)
           row == [height |-> InitHeight + (n + 1), script |-> script[p]]
<1>0. Proceed(p) /\ TypeOK /\ TypeInv
  BY DEF Proceed, OpStep, TurnsInv, TypeInv
<1>1. /\ UNCHANGED cache /\ pc[p] = "record" /\ pc'[p] = "idle" /\ kit'[p] = NoKit /\ Collect(chain)
      /\ k \in FlowKits /\ script[p] \in Scripts
  BY <1>0, ReturnFrame, RecordScript DEF Record, TypeInv, CallInv
<1>2. n \in Nat /\ InitHeight \in Nat
  BY FS_CardinalityType, ConstantsAssumption DEF TurnsInv, LogInv
<1>3. /\ Len(chain[k]) = n + 1
      /\ \A i \in 1..n : [height |-> InitHeight + i, script |-> chain[k][i]] \in log
      /\ chain[k][n + 1] = script[p]
  BY <1>1 DEF TurnsInv, Turn
<1>4. log' = log \cup {row}
  BY <1>3 DEF Record, Top
<1>5. LogInv' /\ Cardinality(log') = n + 1
  <2>1. InitHeight + (n + 1) = InitHeight + n + 1
    BY <1>2
  <2> QED
    BY <1>0, <1>1, <1>4, <2>1, RecordKeepsLog DEF TurnsInv, TypeOK
<1>6. OwnEmulators'
  BY <1>0, <1>1, OwnKept
<1>7. \A j \in FlowKits : j \in Range(cache') => chain'[j] = chain[j]
  BY <1>1, CollectKeeps
<1>8. CachesBehind'
  <2> SUFFICES ASSUME NEW r \in Replicas, cache'[r] # NoKit PROVE Behind(cache[r])'
    BY DEF CachesBehind
  <2>1. cache'[r] = cache[r] /\ cache[r] \in FlowKits /\ chain'[cache[r]] = chain[cache[r]]
    BY <1>0, <1>1, <1>7, InUseNext DEF TypeOK
  <2>2. CASE Behind(cache[r])
    <3>1. Len(chain[cache[r]]) \in Nat
      BY <1>0, <2>1 DEF TypeOK
    <3> QED
      BY <1>4, <1>5, <2>1, <2>2, <3>1, BehindKept DEF TurnsInv, Behind
  <2>3. CASE ~Behind(cache[r])
    <3>1. \A q \in Procs : pc[q] # "idle" => q = p
      BY <1>1 DEF TurnsInv, OneCall
    <3>2. cache[r] = k
      BY <1>1, <2>1, <2>3, <3>1 DEF TurnsInv, CachesBehind
    <3>3. \A i \in 1..(n + 1) : [height |-> InitHeight + i, script |-> chain[k][i]] \in log'
      <4> SUFFICES ASSUME NEW i \in 1..(n + 1)
                   PROVE  [height |-> InitHeight + i, script |-> chain[k][i]] \in log'
        OBVIOUS
      <4>1. CASE i = n + 1
        BY <1>3, <1>4, <4>1
      <4>2. CASE i # n + 1
        <5>1. i \in 1..n
          BY <1>2, <4>2
        <5> QED
          BY <1>3, <1>4, <5>1
      <4> QED
        BY <4>1, <4>2
    <3> HIDE DEF k, n, row
    <3>4. Len(chain'[cache'[r]]) = Cardinality(log') /\ Cardinality(log') \in Nat
      BY <1>2, <1>3, <1>5, <2>1, <3>2
    <3> QED
      BY <1>2, <1>3, <2>1, <3>2, <3>3, <3>4 DEF Behind
  <2> QED
    BY <2>2, <2>3
<1>9. Turn(p)'
  BY <1>1 DEF Turn, Serving
<1> QED
  BY <1>4, <1>5, <1>6, <1>8, <1>9 DEF Moves

\* A deployment is of a contract the emulator does not have: the call never rolls back.
LEMMA TurnNotDeployed ==
  ASSUME NoRedeployment, TurnsInv, NEW p \in Procs, pc[p] = "run", op[p] = "DeployContract"
  PROVE  ~Deployed(p)
<1> SUFFICES ASSUME Deployed(p) PROVE FALSE
  OBVIOUS
<1>1. script[p] \in Deploys /\ script[p] # NoScript
  BY ConstantsAssumption DEF TurnsInv, CallInv, Scripts
<1>2. PICK i \in 1..Len(chain[kit[p]]) : [height |-> InitHeight + i, script |-> script[p]] \in log
  BY <1>1, TurnServed, ContractOfRow DEF Deployed
<1>3. [height |-> InitHeight + i, script |-> script[p]].script = script[p]
  OBVIOUS
<1> QED
  BY <1>1, <1>2, <1>3 DEF TurnsInv, Named

LEMMA OpTurn ==
  ASSUME TurnsTaken, NoRedeployment, TurnsInv, TypeInv', NEW p \in Procs, OpStep(p)
  PROVE  Moves(p) /\ log \subseteq log'
<1>0. Proceed(p) /\ TypeOK
  BY DEF Proceed, TurnsInv
<1>1. pc[p] \notin {"truncate", "reload"}
  BY DEF TurnsInv, Turn
<1>2. ~(FindDeployment(p) \/ Truncate(p) \/ Reload(p) \/ DeployRefused(p) \/ StoreErrs(p))
  BY <1>1, TurnNotDeployed DEF TurnsTaken, FindDeployment, Truncate, Reload, DeployRefused, StoreErrs
<1>3. CASE ExecuteScript(p) \/ ReadStorage(p)
  BY <1>0, <1>3, ReturnFrame, LoadFrame, LeaveTurn DEF ExecuteScript, ReadStorage
<1>4. CASE ScriptErrs(p)
  <2>1. op[p] \notin {"DeployContract", "CreateAccount"}
    BY <1>4 DEF ScriptErrs, TurnsTaken, TurnsInv, OpsInv
  <2> QED
    BY <1>0, <1>4, <2>1, ReturnFrame, LeaveTurn DEF ScriptErrs, MayLeaveBlock
<1>5. CASE ReadAccount(p)
  BY <1>5, ReadAccountTurn DEF ReadAccount
<1>6. CASE CreateAccount(p)
  BY <1>6, CreateAccountTurn DEF CreateAccount
<1>7. CASE ExecuteTransaction(p) \/ DeployContract(p)
  BY <1>7, SendTurn DEF ExecuteTransaction, DeployContract
<1>8. CASE Record(p)
  BY <1>8, RecordTurn
<1> QED
  BY <1>2, <1>3, <1>4, <1>5, <1>6, <1>7, <1>8 DEF OpStep

LEMMA ProceedTurn ==
  ASSUME TurnsTaken, NoRedeployment, TurnsInv, NEW p \in Procs, Proceed(p)
  PROVE  TurnsInv' /\ log \subseteq log'
<1>1. TypeInv'
  BY TypeStep DEF TurnsInv, TypeInv, Next
<1>2. Moves(p) /\ log \subseteq log'
  <2>1. CASE OpStep(p)
    BY <1>1, <2>1, OpTurn
  <2>2. CASE LoadStep(p)
    <3>1. CASE ReadExecutions(p) \/ ReadDeployments(p)
      BY <1>1, <3>1, ReadTurn DEF ReadExecutions, ReadDeployments
    <3>2. CASE UseCached(p)
      BY <1>1, <3>2, UseCachedTurn DEF UseCached
    <3>3. CASE TakeNew(p)
      BY <1>1, <3>3, TakeNewTurn DEF TakeNew
    <3>4. CASE RunMissingBlock(p)
      BY <1>1, <3>4, RunMissingBlockTurn DEF RunMissingBlock
    <3>5. CASE AddToCache(p)
      BY <1>1, <3>5, AddToCacheTurn DEF AddToCache
    <3> QED
      BY <2>2, <3>1, <3>2, <3>3, <3>4, <3>5, TurnNoLoadFails DEF LoadStep
  <2> QED
    BY <2>1, <2>2, TurnNoLoadFails DEF Proceed
<1> QED
  BY <1>1, <1>2, TurnNext

-----------------------------------------------------------------------------
(* Requests, locks, evictions and restarts *)

LEMMA RequestTurn ==
  ASSUME LocksTaken, TurnsTaken, TurnsInv, NEW p \in Procs, Request(p)
  PROVE  TurnsInv'
<1>0. TypeOK /\ TypeInv'
  BY TypeStep DEF TurnsInv, TypeInv, Next
<1>1. PICK o \in Ops, w \in {"readExecutions", "waiting"} : op' = [op EXCEPT ![p] = o] /\ Goto(p, w)
  BY DEF Request, LocksTaken, Locked, Writers, Readers
<1>2. /\ UNCHANGED <<log, cache, chain, seen, kit, height>>
      /\ \A q \in Procs : pc[q] = "idle"
      /\ pc'[p] = w /\ op'[p] = o
      /\ \A q \in Procs \ {p} : pc'[q] = "idle" /\ op'[q] = op[q]
  BY <1>0, <1>1 DEF Request, Goto, TypeOK, TurnsTaken
<1>3. \A q \in Procs : kit[q] = NoKit
  BY <1>2 DEF TurnsInv, Turn
<1>4. OpsInv' /\ OneCall'
  BY <1>2 DEF TurnsInv, OpsInv, OneCall
<1>5. Named'
  BY <1>0, NamedRequest DEF TurnsInv
<1>6. LogInv' /\ OwnEmulators'
  BY <1>2 DEF TurnsInv, LogInv, LogContiguous, OwnEmulators
<1>7. CachesBehind'
  BY <1>2 DEF TurnsInv, CachesBehind, Behind
<1>8. ASSUME NEW q \in Procs PROVE Turn(q)'
  <2>1. pc'[q] \in {"idle", "readExecutions", "waiting"} /\ kit'[q] = NoKit
    BY <1>2, <1>3
  <2> QED
    BY <2>1 DEF Turn, Serving
<1> QED
  BY <1>0, <1>4, <1>5, <1>6, <1>7, <1>8 DEF TurnsInv, TypeInv

\* A step that at most empties caches, ends the calls of the replicas R, whose caches it empties, and
\* lets a call go on from its lock.
LEMMA DropTurn ==
  ASSUME TurnsInv, TypeInv', log' = log, NEW R \in SUBSET Replicas,
         \A r \in Replicas : cache'[r] \in {NoKit, cache[r]},
         \A r \in R : cache'[r] = NoKit,
         \A k \in FlowKits : k \in Range(cache') \cup Range(kit') => chain'[k] = chain[k],
         \A q \in Procs : script'[q] \in {script[q], NoScript},
         \A q \in Procs :
           IF Home[q] \in R
             THEN pc'[q] = "idle" /\ op'[q] = "none" /\ kit'[q] = NoKit
             ELSE /\ op'[q] = op[q] /\ seen'[q] = seen[q] /\ kit'[q] = kit[q] /\ height'[q] = height[q]
                  /\ script'[q] = script[q]
                  /\ pc'[q] = pc[q] \/ (pc[q] = "waiting" /\ pc'[q] = "readExecutions")
  PROVE  TurnsInv'
<1>0. TypeOK /\ CallInv /\ TypeOK' /\ CallInv'
  BY DEF TurnsInv, TypeInv
<1>1. OpsInv' /\ OneCall' /\ Named'
  BY DEF TurnsInv, OpsInv, OneCall, Named
<1>2. OwnEmulators'
  BY DEF TurnsInv, OwnEmulators
<1>3. LogInv'
  BY DEF TurnsInv, LogInv, LogContiguous
<1>4. CachesBehind'
  <2> SUFFICES ASSUME NEW r \in Replicas, cache'[r] # NoKit, ~Behind(cache[r])'
               PROVE  \/ \E q \in Procs : /\ Home[q] = r
                                          /\ pc'[q] \in {"readExecutions", "readDeployments", "fetch"}
                                          /\ Len(chain'[cache'[r]]) > Cardinality(log')
                      \/ \E q \in Procs : pc'[q] = "record" /\ kit'[q] = cache'[r]
    BY DEF CachesBehind
  <2>1. cache'[r] = cache[r] /\ cache[r] \in FlowKits /\ r \notin R /\ cache[r] # NoKit
    BY <1>0 DEF TypeOK
  <2>2. chain'[cache'[r]] = chain[cache[r]]
    BY <2>1, InUseNext
  <2>3. ~Behind(cache[r])
    BY <2>1, <2>2 DEF Behind
  <2>4. PICK q \in Procs :
          \/ /\ Home[q] = r
             /\ pc[q] \in {"readExecutions", "readDeployments", "fetch"}
             /\ Len(chain[cache[r]]) > Cardinality(log)
          \/ pc[q] = "record" /\ kit[q] = cache[r]
    BY <2>1, <2>3 DEF TurnsInv, CachesBehind
  <2>5. Home[q] = r
    BY <2>1, <2>4 DEF TurnsInv, OwnEmulators
  <2>6. pc'[q] = pc[q] /\ kit'[q] = kit[q]
    BY <2>1, <2>4, <2>5
  <2> QED
    BY <2>1, <2>2, <2>4, <2>6
<1>5. ASSUME NEW q \in Procs PROVE Turn(q)'
  <2>1. CASE Home[q] \in R
    <3>1. pc'[q] = "idle" /\ kit'[q] = NoKit
      BY <2>1
    <3> QED
      BY <3>1 DEF Turn, Serving
  <2>2. CASE Home[q] \notin R /\ pc'[q] \in {"idle", "waiting", "readExecutions", "readDeployments", "fetch"}
    <3>1. /\ kit'[q] = NoKit
          /\ pc'[q] = "readDeployments" => seen'[q] = TxRows(log')
          /\ pc'[q] = "fetch" => seen'[q] = log'
      BY <2>2 DEF TurnsInv, Turn, TxRows
    <3> QED
      BY <2>2, <3>1 DEF Turn, Serving
  <2>3. CASE Home[q] \notin R /\ pc'[q] \notin {"idle", "waiting", "readExecutions", "readDeployments", "fetch"}
    <3>1. /\ pc'[q] = pc[q] /\ kit'[q] = kit[q] /\ seen'[q] = seen[q] /\ height'[q] = height[q]
          /\ script'[q] = script[q]
      BY <2>3
    <3>2. pc[q] \notin {"reset", "resetState", "truncate", "reload"}
      BY DEF TurnsInv, Turn
    <3>3. kit[q] \in FlowKits
      BY <1>0, <2>3, <3>1, <3>2 DEF CallInv, TypeOK, Steps
    <3>4. chain'[kit'[q]] = chain[kit[q]]
      BY <3>1, <3>3, InUseNext
    <3> QED
      BY <3>1, <3>4 DEF TurnsInv, Turn, Serving, Behind, Replays, Top, TxRows
  <2> QED
    BY <2>1, <2>2, <2>3
<1> QED
  BY <1>0, <1>1, <1>2, <1>3, <1>4, <1>5 DEF TurnsInv

LEMMA EnvironmentTurn ==
  ASSUME TurnsInv
  PROVE  /\ \A p \in Procs : Acquire(p) => TurnsInv'
         /\ \A r \in Replicas : Evict(r) \/ Crash(r) => TurnsInv'
<1>0. TypeOK
  BY DEF TurnsInv
<1>1. ASSUME NEW p \in Procs, Acquire(p) PROVE TurnsInv'
  <2>1. TypeInv'
    BY <1>1, TypeStep DEF TurnsInv, TypeInv, Next
  <2>2. /\ UNCHANGED <<log, cache, chain, op, script, seen, kit, height>>
        /\ \A q \in Procs : pc'[q] = pc[q] \/ (pc[q] = "waiting" /\ pc'[q] = "readExecutions")
    BY <1>0, <1>1 DEF Acquire, Goto, TypeOK
  <2> DEFINE R == {}
  <2>3. /\ \A r \in R : cache'[r] = NoKit
        /\ \A q \in Procs : Home[q] \notin R
        /\ R \in SUBSET Replicas
    OBVIOUS
  <2> HIDE DEF R
  <2> QED
    BY <2>1, <2>2, <2>3, DropTurn
<1>2. ASSUME NEW r \in Replicas, Evict(r) PROVE TurnsInv'
  <2>1. TypeInv'
    BY <1>2, TypeStep DEF TurnsInv, TypeInv, Next
  <2>2. /\ UNCHANGED <<log, pc, op, script, seen, kit, height>>
        /\ \A s \in Replicas : cache'[s] \in {NoKit, cache[s]}
        /\ \A k \in FlowKits : k \in Range(cache') \cup Range(kit') => chain'[k] = chain[k]
    BY <1>0, <1>2, CollectKeeps DEF Evict, TypeOK
  <2> DEFINE R == {}
  <2>3. /\ \A s \in R : cache'[s] = NoKit
        /\ \A q \in Procs : Home[q] \notin R
        /\ R \in SUBSET Replicas
    OBVIOUS
  <2> HIDE DEF R
  <2> QED
    BY <2>1, <2>2, <2>3, DropTurn
<1>3. ASSUME NEW r \in Replicas, Crash(r) PROVE TurnsInv'
  <2>1. TypeInv'
    BY <1>3, TypeStep DEF TurnsInv, TypeInv, Next
  <2>2. /\ log' = log
        /\ \A s \in Replicas : cache'[s] \in {NoKit, cache[s]}
        /\ cache'[r] = NoKit
        /\ \A k \in FlowKits : k \in Range(cache') \cup Range(kit') => chain'[k] = chain[k]
    BY <1>0, <1>3, CollectKeeps DEF Crash, TypeOK
  <2>3. \A q \in Procs :
          IF Home[q] = r
            THEN pc'[q] = "idle" /\ op'[q] = "none" /\ kit'[q] = NoKit /\ script'[q] = NoScript
            ELSE /\ op'[q] = op[q] /\ seen'[q] = seen[q] /\ kit'[q] = kit[q] /\ height'[q] = height[q]
                 /\ script'[q] = script[q] /\ pc'[q] = pc[q]
    BY <1>3 DEF Crash
  <2> DEFINE R == {r}
  <2>4. /\ \A s \in R : cache'[s] = NoKit
        /\ \A q \in Procs : Home[q] \in R <=> Home[q] = r
        /\ R \in SUBSET Replicas
    BY <2>2
  <2> HIDE DEF R
  <2> QED
    BY <2>1, <2>2, <2>3, <2>4, DropTurn
<1> QED
  BY <1>1, <1>2, <1>3

LEMMA TurnInit == Init => TurnsInv
<1> SUFFICES ASSUME Init PROVE TurnsInv
  OBVIOUS
<1>1. TypeOK /\ CallInv
  BY ConstantsAssumption DEF Init, TypeOK, CallInv, Steps
<1>2. LogInv
  BY InitInv DEF Inv
<1>3. \A p \in Procs : pc[p] = "idle" /\ op[p] = "none" /\ kit[p] = NoKit /\ script[p] = NoScript
  BY DEF Init
<1>4. log = {} /\ \A r \in Replicas : cache[r] = NoKit
  BY DEF Init
<1>5. OpsInv /\ Named /\ OneCall /\ OwnEmulators /\ CachesBehind
  BY <1>3, <1>4 DEF OpsInv, Named, OneCall, OwnEmulators, CachesBehind
<1>6. \A p \in Procs : Turn(p)
  BY <1>3 DEF Turn, Serving
<1> QED
  BY <1>1, <1>2, <1>5, <1>6 DEF TurnsInv

LEMMA TurnStep ==
  ASSUME LocksTaken, TurnsTaken, NoRedeployment, TurnsInv, [Next]_vars
  PROVE  TurnsInv' /\ log \subseteq log'
<1>1. CASE UNCHANGED vars
  <2>1. log' = log /\ TypeInv'
    BY <1>1, TypeStep DEF vars, TurnsInv, TypeInv
  <2> DEFINE R == {}
  <2>2. /\ \A s \in R : cache'[s] = NoKit
        /\ \A q \in Procs : Home[q] \notin R
        /\ R \in SUBSET Replicas
    OBVIOUS
  <2> HIDE DEF R
  <2> QED
    BY <1>1, <2>1, <2>2, DropTurn DEF vars
<1>2. ASSUME NEW p \in Procs, Request(p) \/ Acquire(p) PROVE TurnsInv' /\ log' = log
  BY <1>2, RequestTurn, EnvironmentTurn DEF Request, Acquire
<1>3. ASSUME NEW r \in Replicas, Evict(r) \/ Crash(r) PROVE TurnsInv' /\ log' = log
  BY <1>3, EnvironmentTurn DEF Evict, Crash
<1> QED
  BY <1>1, <1>2, <1>3, ProceedTurn DEF Next

\* With any number of replicas, whose calls take turns, whose database answers and where no contract
\* is deployed twice: a cached emulator ran the first rows, or is about to be recorded or dropped.
THEOREM TurnsInvariant ==
  ASSUME LocksTaken, TurnsTaken, NoRedeployment
  PROVE  Spec => []TurnsInv
<1>1. Init => TurnsInv
  BY TurnInit
<1>2. TurnsInv /\ [Next]_vars => TurnsInv'
  BY TurnStep
<1> QED
  BY <1>1, <1>2, PTL DEF Spec

\* Whichever replica a call reaches, and however many blocks others made since that replica was
\* called, load replays what its emulator misses (src/blockchain/projects.go:295-427): the call is
\* served exactly the rows.
THEOREM ReplicasServed ==
  ASSUME LocksTaken, TurnsTaken, NoRedeployment
  PROVE  Spec => []ServesLog
<1>1. TurnsInv => ServesLog
  BY DEF TurnsInv, Turn, ServesLog
<1> QED
  BY <1>1, TurnsInvariant, PTL

\* No replica loses a row that another one added, by a load that takes its own emulator for one that
\* is ahead or by a rollback: the rows only grow.
THEOREM ReplicasLoseNothing ==
  ASSUME LocksTaken, TurnsTaken, NoRedeployment
  PROVE  Spec => NoHistoryLost
<1>1. TurnsInv /\ [Next]_vars => [HistoryKept]_vars
  BY TurnStep DEF HistoryKept
<1> QED
  BY <1>1, TurnsInvariant, PTL DEF Spec, NoHistoryLost

\* The replicas together implement the one history: what each of them records follows what the
\* others recorded, and deploys a contract the history does not have.
THEOREM ReplicasAreHistory ==
  ASSUME LocksTaken, TurnsTaken, NoRedeployment
  PROVE  Spec => ImplementsHistory
<1>1. Init => History!Init
  BY HistOfNone DEF Init, History!Init, HistOf
<1>2. TurnsInv /\ TurnsInv' /\ [Next]_vars => [History!Next]_Hist
  <2> SUFFICES ASSUME TurnsInv, TurnsInv', [Next]_vars PROVE History!Next \/ Hist' = Hist
    OBVIOUS
  <2>1. log' = log => Hist' = Hist
    BY DEF Hist
  <2>2. ASSUME NEW p \in Procs, Proceed(p) PROVE History!Next \/ log' = log
    <3>1. CASE ResetState(p) \/ Truncate(p)
      BY <3>1 DEF ResetState, Truncate, TurnsInv, Turn
    <3>2. CASE Record(p)
      <4>1. pc[p] = "record" /\ Len(chain[kit[p]]) = Cardinality(log) + 1
        BY <3>2 DEF Record, TurnsInv, Turn
      <4>2. script[p] \in Scripts /\ script[p] # NoScript
        BY <4>1, RecordScript, ConstantsAssumption DEF TurnsInv, TypeInv
      <4>3. ASSUME NEW r \in DeployRows(log), script[p] \in Deploys
            PROVE  Contract[r.script] # Contract[script[p]]
        <5>1. r.script # script[p] /\ r.script \in Scripts
          BY <4>2 DEF TurnsInv, Named, DeployRows, Scripts
        <5> QED
          BY <4>3, <5>1 DEF NoRedeployment
      <4> QED
        BY <3>2, <4>1, <4>3, RecordHist DEF TurnsInv, TypeInv
    <3> QED
      BY <2>2, <3>1, <3>2, RowsChange
  <2>3. ASSUME NEW p \in Procs, Request(p) \/ Acquire(p) PROVE log' = log
    BY <2>3 DEF Request, Acquire
  <2>4. ASSUME NEW r \in Replicas, Evict(r) \/ Crash(r) PROVE log' = log
    BY <2>4 DEF Evict, Crash
  <2> QED
    BY <2>1, <2>2, <2>3, <2>4 DEF Next, vars
<1> QED
  BY <1>1, <1>2, TurnsInvariant, PTL
     DEF Spec, ImplementsHistory, History!Spec, Hist, HistOf
=============================================================================
