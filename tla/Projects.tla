------------------------------ MODULE Projects ------------------------------
(***************************************************************************)
(* The stateful blockchain operations of one playground project            *)
(* (src/blockchain/projects.go) with the emulator cache they use           *)
(* (src/blockchain/cache.go).                                              *)
(*                                                                         *)
(* A project is a log of rows in the shared database: the transactions     *)
(* executed and the contracts deployed, each with the block height it was  *)
(* given.  Every replica of the server keeps an emulator for the project   *)
(* in its cache; `load' brings an emulator up to the log by replaying the  *)
(* blocks it misses, or replaces it when it is ahead of the log.           *)
(*                                                                         *)
(* A process is one call in progress at one replica.  A step of a call is  *)
(* what it does between two points where another call can be scheduled: a  *)
(* query, a cache access, a block sent to an emulator.                     *)
(***************************************************************************)
EXTENDS Integers, Sequences, FiniteSets, Functions

CONSTANTS
  Replicas,     \* servers that share the database
  Procs,        \* calls that may be in progress at once
  Home,         \* the replica each call runs at
  FlowKits,     \* emulator objects
  NoKit,        \* the nil emulator
  Txs,          \* transactions a user may execute
  Deploys,      \* contract deployments a user may ask for
  NoScript,     \* the argument of a call that has none
  Unrecorded,   \* a block of an emulator that has no row: an account creation or a failed deployment
  Contract,     \* the contract (name and account) a deployment, or a transaction by itself, adds
  NoContract,   \* what Contract gives for a transaction that adds none
  CoreContracts,\* contracts an emulator is bootstrapped with
  InitHeight,   \* height of a bootstrapped emulator
  Ops,          \* operations the users call
  Faults,       \* what may fail: subset of FaultKinds
  Serial        \* TRUE: a call starts only when every other has returned

Writers  == {"ExecuteTransaction", "DeployContract", "CreateAccount"}
Readers  == {"ExecuteScript", "GetAccounts"}
Unlocked == {"GetFlowJson", "Reset"}
Locked   == Writers \cup Readers

FaultKinds == {"read", "write", "script", "evict", "crash"}

Scripts == Txs \cup Deploys
Rows    == [height : Nat, script : Scripts]
Blocks  == Scripts \cup {Unrecorded}

ASSUME ConstantsAssumption ==
  /\ Home \in [Procs -> Replicas]
  /\ NoKit \notin FlowKits
  /\ Txs \cap Deploys = {}
  /\ NoScript \notin Scripts
  /\ Unrecorded \notin Scripts
  /\ DOMAIN Contract = Scripts
  /\ \A d \in Deploys : Contract[d] # NoContract
  /\ NoContract \notin CoreContracts
  /\ InitHeight \in Nat
  /\ Ops \subseteq Locked \cup Unlocked
  /\ Faults \subseteq FaultKinds
  /\ Serial \in BOOLEAN

VARIABLES
  log,      \* rows of the project in the database
  cache,    \* emulator each replica caches for the project, or NoKit
  chain,    \* blocks of each emulator above InitHeight
  pc,       \* next step of each call
  op,       \* operation of each call
  script,   \* its argument
  seen,     \* rows its load has read
  kit,      \* emulator it works on
  height,   \* a height it remembers
  retried,  \* its load has already reset the project once
  again     \* it has loaded before

vars == <<log, cache, chain, pc, op, script, seen, kit, height, retried, again>>

Steps == {"idle", "waiting", "readExecutions", "readDeployments", "fetch", "replay",
          "reset", "resetState", "run", "storage", "truncate", "reload", "record"}

-----------------------------------------------------------------------------
(* Emulators and rows *)

Top(k) == InitHeight + Len(chain[k])

OnChain(k) == CoreContracts \cup {Contract[s] : s \in Range(chain[k]) \cap Scripts}

InUse == Range(cache) \cup Range(kit)
Spare == FlowKits \ InUse

\* An emulator nothing refers to is garbage: its blocks are forgotten.
Collect(blocks) ==
  chain' = [k \in FlowKits |-> IF k \in Range(cache') \cup Range(kit') THEN blocks[k] ELSE <<>>]

Mine(k, b) == [chain EXCEPT ![k] = Append(@, b)]

TxRows(rows)     == {r \in rows : r.script \in Txs}
DeployRows(rows) == {r \in rows : r.script \in Deploys}
RowsBelow(rows, h) == {r \in rows : r.height < h}

Total(rows) == InitHeight + Cardinality(rows)

\* The row replayed at a height: transactions are searched before deployments.
RowsAt(rows, h) ==
  LET at == {r \in rows : r.height = h}
  IN  IF TxRows(at) # {} THEN TxRows(at) ELSE at

\* The blocks are exactly those the rows prescribe.
Replays(blocks, rows) ==
  /\ Len(blocks) = Cardinality(rows)
  /\ \A i \in 1..Len(blocks) : [height |-> InitHeight + i, script |-> blocks[i]] \in rows

\* Mutant of Outdated: an emulator one block ahead passes.
OutdatedByTwo(k, rows) == Top(k) > Total(rows) + 1

\* The emulator is ahead of the rows.
Outdated(k, rows) == Top(k) > Total(rows)

-----------------------------------------------------------------------------
TypeOK ==
  /\ log \in SUBSET Rows
  /\ cache \in [Replicas -> FlowKits \cup {NoKit}]
  /\ chain \in [FlowKits -> Seq(Blocks)]
  /\ pc \in [Procs -> Steps]
  /\ op \in [Procs -> Locked \cup Unlocked \cup {"none"}]
  /\ script \in [Procs -> Scripts \cup {NoScript}]
  /\ seen \in [Procs -> SUBSET Rows]
  /\ kit \in [Procs -> FlowKits \cup {NoKit}]
  /\ height \in [Procs -> Nat]
  /\ retried \in [Procs -> BOOLEAN]
  /\ again \in [Procs -> BOOLEAN]

Init ==
  /\ log = {}
  /\ cache = [r \in Replicas |-> NoKit]
  /\ chain = [k \in FlowKits |-> <<>>]
  /\ pc = [p \in Procs |-> "idle"]
  /\ op = [p \in Procs |-> "none"]
  /\ script = [p \in Procs |-> NoScript]
  /\ seen = [p \in Procs |-> {}]
  /\ kit = [p \in Procs |-> NoKit]
  /\ height = [p \in Procs |-> 0]
  /\ retried = [p \in Procs |-> FALSE]
  /\ again = [p \in Procs |-> FALSE]

-----------------------------------------------------------------------------
(* Control *)

Goto(p, step) == pc' = [pc EXCEPT ![p] = step]

\* The call returns, with a result or with an error, and releases its lock.
Return(p) ==
  /\ Goto(p, "idle")
  /\ op' = [op EXCEPT ![p] = "none"]
  /\ script' = [script EXCEPT ![p] = NoScript]
  /\ seen' = [seen EXCEPT ![p] = {}]
  /\ kit' = [kit EXCEPT ![p] = NoKit]
  /\ height' = [height EXCEPT ![p] = 0]
  /\ retried' = [retried EXCEPT ![p] = FALSE]
  /\ again' = [again EXCEPT ![p] = FALSE]

\* A load starts from the beginning, having reset the project or not.
Load(p, reset) ==
  /\ Goto(p, "readExecutions")
  /\ seen' = [seen EXCEPT ![p] = {}]
  /\ kit' = [kit EXCEPT ![p] = NoKit]
  /\ height' = [height EXCEPT ![p] = 0]
  /\ retried' = [retried EXCEPT ![p] = reset]
  /\ UNCHANGED <<op, script>>

\* Mutant of FailLoad: load tries again every time.
FailLoadAlways(p) ==
  /\ Goto(p, "reset")
  /\ seen' = [seen EXCEPT ![p] = {}]
  /\ kit' = [kit EXCEPT ![p] = NoKit]
  /\ height' = [height EXCEPT ![p] = 0]
  /\ UNCHANGED <<op, script, retried, again>>

\* rebuildState fails: the first time load resets the project and tries again.
FailLoad(p) ==
  \/ /\ retried[p]
     /\ Return(p)
  \/ /\ ~retried[p]
     /\ Goto(p, "reset")
     /\ seen' = [seen EXCEPT ![p] = {}]
     /\ kit' = [kit EXCEPT ![p] = NoKit]
     /\ height' = [height EXCEPT ![p] = 0]
     /\ UNCHANGED <<op, script, retried, again>>

Holding(p) == pc[p] \notin {"idle", "waiting"} /\ op[p] \in Locked

\* Mutant of MayLock: a call that changes the project does not wait for the readers.
MayLockBeside(p) ==
  \A q \in Procs \ {p} : (Home[q] = Home[p] /\ Holding(q)) => op[q] \in Readers

\* The project's RWMutex is free for the call at its replica.
MayLock(p) ==
  \A q \in Procs \ {p} :
    (Home[q] = Home[p] /\ Holding(q)) => (op[p] \in Readers /\ op[q] \in Readers)

\* No call in progress, row or emulator bears the script: a script names one block at a time.
Unused(s) ==
  /\ \A p \in Procs : script[p] # s
  /\ \A r \in log : r.script # s
  /\ \A k \in FlowKits : s \notin Range(chain[k])

Arguments(o) ==
  CASE o = "ExecuteTransaction" -> {s \in Txs : Unused(s)}
    [] o = "DeployContract"     -> {s \in Deploys : Unused(s)}
    [] OTHER                    -> {NoScript}

Request(p) ==
  /\ pc[p] = "idle"
  /\ Serial => \A q \in Procs : pc[q] = "idle"
  /\ \E o \in Ops, s \in Scripts \cup {NoScript} :
       /\ s \in Arguments(o)
       /\ op' = [op EXCEPT ![p] = o]
       /\ script' = [script EXCEPT ![p] = s]
       /\ Goto(p, CASE o = "Reset"       -> "reset"
                    [] o = "GetFlowJson" -> "readExecutions"
                    [] OTHER             -> "waiting")
  /\ UNCHANGED <<log, cache, chain, seen, kit, height, retried, again>>

Acquire(p) ==
  /\ pc[p] = "waiting"
  /\ MayLock(p)
  /\ Goto(p, "readExecutions")
  /\ UNCHANGED <<log, cache, chain, op, script, seen, kit, height, retried, again>>

-----------------------------------------------------------------------------
(* load, rebuildState and runMissingBlocks *)

ReadExecutions(p) ==
  /\ pc[p] = "readExecutions"
  /\ Goto(p, "readDeployments")
  /\ seen' = [seen EXCEPT ![p] = TxRows(log)]
  /\ UNCHANGED <<log, cache, chain, op, script, kit, height, retried, again>>

ReadDeployments(p) ==
  /\ pc[p] = "readDeployments"
  /\ Goto(p, "fetch")
  /\ seen' = [seen EXCEPT ![p] = @ \cup DeployRows(log)]
  /\ UNCHANGED <<log, cache, chain, op, script, kit, height, retried, again>>

\* Mutant of UseCached: no staleness check.
UseCachedUnchecked(p) ==
  LET k == cache[Home[p]] IN
  /\ pc[p] = "fetch"
  /\ k # NoKit
  /\ Goto(p, "replay")
  /\ kit' = [kit EXCEPT ![p] = k]
  /\ height' = [height EXCEPT ![p] = Top(k)]
  /\ UNCHANGED <<log, cache, chain, op, script, seen, retried, again>>

\* Mutant of UseCached: every block is replayed, on a cached emulator too.
UseCachedFromInit(p) ==
  LET k == cache[Home[p]] IN
  /\ pc[p] = "fetch"
  /\ k # NoKit
  /\ ~Outdated(k, seen[p])
  /\ Goto(p, "replay")
  /\ kit' = [kit EXCEPT ![p] = k]
  /\ height' = [height EXCEPT ![p] = InitHeight]
  /\ UNCHANGED <<log, cache, chain, op, script, seen, retried, again>>

\* The cached emulator is not ahead of the rows read: load goes on with it.
UseCached(p) ==
  LET k == cache[Home[p]] IN
  /\ pc[p] = "fetch"
  /\ k # NoKit
  /\ ~Outdated(k, seen[p])
  /\ Goto(p, "replay")
  /\ kit' = [kit EXCEPT ![p] = k]
  /\ height' = [height EXCEPT ![p] = Top(k)]
  /\ UNCHANGED <<log, cache, chain, op, script, seen, retried, again>>

\* Mutant of TakeNew: the height of the emulator dropped is kept.
TakeNewAtOldHeight(p) ==
  LET k == cache[Home[p]] IN
  /\ pc[p] = "fetch"
  /\ k # NoKit => Outdated(k, seen[p])
  /\ Spare # {}
  /\ Goto(p, "replay")
  /\ cache' = [cache EXCEPT ![Home[p]] = NoKit]
  /\ height' = [height EXCEPT ![p] = IF k = NoKit THEN InitHeight ELSE Top(k)]
  /\ LET new == CHOOSE x \in Spare : TRUE IN
       /\ kit' = [kit EXCEPT ![p] = new]
       /\ Collect([chain EXCEPT ![new] = <<>>])
  /\ UNCHANGED <<log, op, script, seen, retried, again>>

\* Cache miss, or an emulator ahead of the rows, which is dropped: a new one is taken from the pool.
TakeNew(p) ==
  LET k == cache[Home[p]] IN
  /\ pc[p] = "fetch"
  /\ k # NoKit => Outdated(k, seen[p])
  /\ Spare # {}
  /\ Goto(p, "replay")
  /\ cache' = [cache EXCEPT ![Home[p]] = NoKit]
  /\ height' = [height EXCEPT ![p] = InitHeight]
  /\ LET new == CHOOSE x \in Spare : TRUE IN
       /\ kit' = [kit EXCEPT ![p] = new]
       /\ Collect([chain EXCEPT ![new] = <<>>])
  /\ UNCHANGED <<log, op, script, seen, retried, again>>

RunMissingBlock(p) ==
  /\ pc[p] = "replay"
  /\ height[p] < Total(seen[p])
  /\ \E r \in RowsAt(seen[p], height[p] + 1) :
       /\ r.script \in Deploys => Contract[r.script] \notin OnChain(kit[p])
       /\ chain' = Mine(kit[p], r.script)
  /\ height' = [height EXCEPT ![p] = @ + 1]
  /\ UNCHANGED <<log, cache, pc, op, script, seen, kit, retried, again>>

\* A query of the load, or the creation of its emulator, fails.
LoadErrs(p) ==
  /\ "read" \in Faults
  /\ \/ /\ pc[p] \in {"readExecutions", "readDeployments", "fetch"}
        /\ UNCHANGED cache
     \/ /\ pc[p] = "fetch"
        /\ cache[Home[p]] # NoKit
        /\ Outdated(cache[Home[p]], seen[p])
        /\ cache' = [cache EXCEPT ![Home[p]] = NoKit]
  /\ FailLoad(p)
  /\ UNCHANGED log
  /\ Collect(chain)

\* No row at the next height, or a deployment the emulator refuses because the contract is there.
MissingBlock(p) ==
  /\ pc[p] = "replay"
  /\ height[p] < Total(seen[p])
  /\ LET at == RowsAt(seen[p], height[p] + 1) IN
       \/ at = {}
       \/ \E r \in at : r.script \in Deploys /\ Contract[r.script] \in OnChain(kit[p])
  /\ FailLoad(p)
  /\ UNCHANGED <<log, cache>>
  /\ Collect(chain)

\* On an emulator that did not replay the rows below, a script that succeeded may now fail.
BlockDiverges(p) ==
  /\ pc[p] = "replay"
  /\ height[p] < Total(seen[p])
  /\ ~Replays(chain[kit[p]], RowsBelow(seen[p], height[p] + 1))
  /\ FailLoad(p)
  /\ UNCHANGED <<log, cache>>
  /\ \E r \in RowsAt(seen[p], height[p] + 1) : Collect(Mine(kit[p], r.script))

\* Mutant of AddToCache: the blocks that are missing are not waited for.
AddToCacheEarly(p) ==
  /\ pc[p] = "replay"
  /\ Goto(p, "run")
  /\ cache' = [cache EXCEPT ![Home[p]] = kit[p]]
  /\ seen' = [seen EXCEPT ![p] = {}]
  /\ height' = [height EXCEPT ![p] = 0]
  /\ UNCHANGED <<log, op, script, kit, retried, again>>
  /\ Collect(chain)

AddToCache(p) ==
  /\ pc[p] = "replay"
  /\ height[p] >= Total(seen[p])
  /\ Goto(p, "run")
  /\ cache' = [cache EXCEPT ![Home[p]] = kit[p]]
  /\ seen' = [seen EXCEPT ![p] = {}]
  /\ height' = [height EXCEPT ![p] = 0]
  /\ UNCHANGED <<log, op, script, kit, retried, again>>
  /\ Collect(chain)

-----------------------------------------------------------------------------
(* Reset, called by the user or by load *)

ResetCache(p) ==
  /\ pc[p] = "reset"
  /\ Goto(p, "resetState")
  /\ cache' = [cache EXCEPT ![Home[p]] = NoKit]
  /\ UNCHANGED <<log, op, script, seen, kit, height, retried, again>>
  /\ Collect(chain)

ResetState(p) ==
  /\ pc[p] = "resetState"
  /\ log' = {}
  /\ IF op[p] = "Reset" THEN Return(p) ELSE Load(p, TRUE) /\ UNCHANGED again
  /\ UNCHANGED <<cache, chain>>

\* The project cannot be read, or its rows cannot be deleted.
ResetErrs(p) ==
  /\ \/ pc[p] = "reset" /\ "read" \in Faults
     \/ pc[p] = "resetState" /\ "write" \in Faults
  /\ Return(p)
  /\ UNCHANGED <<log, cache, chain>>

-----------------------------------------------------------------------------
(* The operations, on the emulator load returned *)

\* Mutant of ExecuteTransaction: the transaction recorded is not the one executed.
ExecuteTransactionUnnamed(p) ==
  /\ pc[p] = "run" /\ op[p] = "ExecuteTransaction"
  /\ Goto(p, "record")
  /\ chain' = Mine(kit[p], script[p])
  /\ script' = [script EXCEPT ![p] = NoScript]
  /\ UNCHANGED <<log, cache, op, seen, kit, height, retried, again>>

ExecuteTransaction(p) ==
  /\ pc[p] = "run" /\ op[p] = "ExecuteTransaction"
  /\ Goto(p, "record")
  /\ chain' = Mine(kit[p], script[p])
  /\ UNCHANGED <<log, cache, op, script, seen, kit, height, retried, again>>

ExecuteScript(p) ==
  /\ pc[p] = "run" /\ op[p] \in {"ExecuteScript", "GetFlowJson"}
  /\ Return(p)
  /\ UNCHANGED <<log, cache>>
  /\ Collect(chain)

\* getAccount reads the account, then runs a script that reads its storage.
ReadAccount(p) ==
  /\ pc[p] = "run"
  /\ op[p] = "GetAccounts" \/ (op[p] = "CreateAccount" /\ again[p])
  /\ Goto(p, "storage")
  /\ height' = [height EXCEPT ![p] = Top(kit[p])]
  /\ UNCHANGED <<log, cache, chain, op, script, seen, kit, retried, again>>

\* The last account is read, or the next one is, with a load of its own.
ReadStorage(p) ==
  /\ pc[p] = "storage"
  /\ \/ Return(p)
     \/ /\ ~again[p]
        /\ Load(p, FALSE)
        /\ again' = [again EXCEPT ![p] = TRUE]
  /\ UNCHANGED <<log, cache>>
  /\ Collect(chain)

CreateAccount(p) ==
  /\ pc[p] = "run" /\ op[p] = "CreateAccount" /\ ~again[p]
  /\ Load(p, FALSE)
  /\ again' = [again EXCEPT ![p] = TRUE]
  /\ UNCHANGED <<log, cache>>
  /\ Collect(Mine(kit[p], Unrecorded))

\* Mutant of Deployed: the contracts of the account are not looked at.
DeployedNever(p) == FALSE

Deployed(p) == Contract[script[p]] \in OnChain(kit[p])

DeployContract(p) ==
  /\ pc[p] = "run" /\ op[p] = "DeployContract"
  /\ ~Deployed(p)
  /\ Goto(p, "record")
  /\ chain' = Mine(kit[p], script[p])
  /\ UNCHANGED <<log, cache, op, script, seen, kit, height, retried, again>>

\* Heights of the rows the contract has; 0, the zero value, when it has none.
DeployedAt(s) ==
  LET of == {r \in DeployRows(log) : Contract[r.script] = Contract[s]}
  IN  IF of = {} THEN {0} ELSE {r.height : r \in of}

FindDeployment(p) ==
  /\ pc[p] = "run" /\ op[p] = "DeployContract"
  /\ Deployed(p) /\ ~again[p]
  /\ Goto(p, "truncate")
  /\ \E h \in DeployedAt(script[p]) : height' = [height EXCEPT ![p] = h]
  /\ UNCHANGED <<log, cache, chain, op, script, seen, kit, retried, again>>

\* Mutant of Truncate: the block before the deployment goes too.
TruncateBefore(p) ==
  /\ pc[p] = "truncate"
  /\ Goto(p, "reload")
  /\ log' = RowsBelow(log, height[p] - 1)
  /\ UNCHANGED <<cache, chain, op, script, seen, kit, height, retried, again>>

\* Mutant of Truncate: only deployments are deleted.
TruncateDeployments(p) ==
  /\ pc[p] = "truncate"
  /\ Goto(p, "reload")
  /\ log' = TxRows(log) \cup RowsBelow(log, height[p])
  /\ UNCHANGED <<cache, chain, op, script, seen, kit, height, retried, again>>

Truncate(p) ==
  /\ pc[p] = "truncate"
  /\ Goto(p, "reload")
  /\ log' = RowsBelow(log, height[p])
  /\ UNCHANGED <<cache, chain, op, script, seen, kit, height, retried, again>>

Reload(p) ==
  /\ pc[p] = "reload"
  /\ cache' = [cache EXCEPT ![Home[p]] = NoKit]
  /\ Load(p, FALSE)
  /\ again' = [again EXCEPT ![p] = TRUE]
  /\ UNCHANGED log
  /\ Collect(chain)

\* A deployment and the creation of an account send a block that no row stands for when they fail.
MayLeaveBlock(p) ==
  /\ pc[p] = "run"
  /\ \/ op[p] = "DeployContract" /\ ~Deployed(p)
     \/ op[p] = "CreateAccount" /\ ~again[p]

\* The script does not run, before its block is sent or after it; a transaction or a read leaves none.
ScriptErrs(p) ==
  /\ "script" \in Faults
  /\ pc[p] \in {"run", "storage"}
  /\ Return(p)
  /\ UNCHANGED <<log, cache>>
  /\ \/ Collect(chain)
     \/ MayLeaveBlock(p) /\ Collect(Mine(kit[p], Unrecorded))

\* The contract is on the reloaded emulator too: deploying never updates.
DeployRefused(p) ==
  /\ pc[p] = "run" /\ op[p] = "DeployContract"
  /\ Deployed(p) /\ again[p]
  /\ Return(p)
  /\ UNCHANGED <<log, cache>>
  /\ Collect(chain)

Record(p) ==
  /\ pc[p] = "record"
  /\ log' = log \cup {[height |-> Top(kit[p]), script |-> script[p]]}
  /\ Return(p)
  /\ UNCHANGED cache
  /\ Collect(chain)

\* A row cannot be found, written or deleted: the call ends where it is.
StoreErrs(p) ==
  /\ \/ "write" \in Faults /\ pc[p] \in {"record", "truncate"}
     \/ "read" \in Faults /\ pc[p] = "run" /\ op[p] = "DeployContract" /\ Deployed(p) /\ ~again[p]
  /\ Return(p)
  /\ UNCHANGED <<log, cache>>
  /\ Collect(chain)

-----------------------------------------------------------------------------
(* The environment *)

\* Emulators of other projects fill the cache.
Evict(r) ==
  /\ "evict" \in Faults
  /\ cache[r] # NoKit
  /\ cache' = [cache EXCEPT ![r] = NoKit]
  /\ UNCHANGED <<log, pc, op, script, seen, kit, height, retried, again>>
  /\ Collect(chain)

\* A replica stops and starts again: its cache, its emulators and its calls are gone.
Crash(r) ==
  LET stay(f, none) == [p \in Procs |-> IF Home[p] = r THEN none ELSE f[p]] IN
  /\ "crash" \in Faults
  /\ cache' = [cache EXCEPT ![r] = NoKit]
  /\ pc' = stay(pc, "idle")
  /\ op' = stay(op, "none")
  /\ script' = stay(script, NoScript)
  /\ seen' = stay(seen, {})
  /\ kit' = stay(kit, NoKit)
  /\ height' = stay(height, 0)
  /\ retried' = stay(retried, FALSE)
  /\ again' = stay(again, FALSE)
  /\ UNCHANGED log
  /\ Collect(chain)

-----------------------------------------------------------------------------
LoadStep(p) ==
  \/ ReadExecutions(p) \/ ReadDeployments(p)
  \/ UseCached(p) \/ TakeNew(p)
  \/ RunMissingBlock(p) \/ AddToCache(p)
  \/ LoadErrs(p) \/ MissingBlock(p) \/ BlockDiverges(p)

ResetStep(p) == ResetCache(p) \/ ResetState(p) \/ ResetErrs(p)

OpStep(p) ==
  \/ ExecuteTransaction(p) \/ ExecuteScript(p)
  \/ ReadAccount(p) \/ ReadStorage(p) \/ CreateAccount(p)
  \/ DeployContract(p) \/ FindDeployment(p) \/ Truncate(p) \/ Reload(p) \/ DeployRefused(p)
  \/ Record(p) \/ ScriptErrs(p) \/ StoreErrs(p)

\* What a call does once it has its lock.
Proceed(p) == LoadStep(p) \/ ResetStep(p) \/ OpStep(p)

Next ==
  \/ \E p \in Procs : Request(p) \/ Acquire(p) \/ Proceed(p)
  \/ \E r \in Replicas : Evict(r) \/ Crash(r)

Spec == Init /\ [][Next]_vars

\* Goroutines run, and sync.RWMutex starves neither readers nor writers.
Fairness == \A p \in Procs : WF_vars(Proceed(p)) /\ SF_vars(Acquire(p))

FairSpec == Spec /\ Fairness

-----------------------------------------------------------------------------
(* Properties *)

\* The calls that have an emulator and are about to use it, or are using it.
Serving(p) == pc[p] \in {"run", "storage"}

\* The rows of a project number its blocks from the first above the bootstrapped height, none
\* missing and none twice: what runMissingBlocks needs to find a row at every height it replays.
LogContiguous ==
  {r.height : r \in log} = (InitHeight + 1)..(InitHeight + Cardinality(log))

\* The emulator `load' gives to a call ran exactly the blocks persisted: state recreation with
\* caching shows the project the database holds, whatever the cache held before.
ServesLog == \A p \in Procs : Serving(p) => Replays(chain[kit[p]], log)

\* The same for the calls that change the project: what a transaction or a deployment runs on.
WriterServesLog ==
  \A p \in Procs : (Serving(p) /\ op[p] \in Writers) => Replays(chain[kit[p]], log)

\* The account and its storage that getAccount puts together come from the same block.
NoTornAccount == \A p \in Procs : pc[p] = "storage" => height[p] = Top(kit[p])

\* No emulator runs a persisted block twice: what the per-project lock is for while an
\* emulator is brought up to date.
NoBlockTwice ==
  \A k \in FlowKits : \A i, j \in DOMAIN chain[k] :
    (chain[k][i] = chain[k][j] /\ chain[k][i] \in Scripts) => i = j

\* A row disappears only because the user resets the project, or because the contract deployed
\* by the first row to go is being deployed anew: redeploying rolls back to the block before it.
HistoryKept ==
  \A r \in log \ log' :
    \/ \E p \in Procs : op[p] = "Reset"
    \/ \E p \in Procs : /\ op[p] = "DeployContract"
                        /\ \E d \in DeployRows(log) : /\ Contract[d.script] = Contract[script[p]]
                                                     /\ d.height <= r.height
NoHistoryLost == [][HistoryKept]_vars

\* What the database holds is a history: the scripts of its rows in the order of their heights.
History ==
  INSTANCE ProjectHistory WITH
    history  <- [i \in 1..Cardinality(log) |->
                   (CHOOSE r \in log : r.height = InitHeight + i).script],
    MayClear <- "Reset" \in Ops \/ "read" \in Faults

\* At one replica the rows of a project implement the abstract history, whatever fails.
ImplementsHistory == History!Spec

\* No contract has two deployment rows: the one GetContractDeploymentOnAddress finds is the one to
\* roll back to.
OneDeployment == History!OneDeployment

\* Whatever two calls at one replica, or two replicas, do to an emulator and to the rows while one
\* of them replays, load never gives out an emulator with fewer blocks than it counted itself.
NeverBehind == \A p \in Procs : pc[p] = "replay" => height[p] <= Top(kit[p])

\* Every call returns: no failure inside a load keeps the project's lock forever.
EveryCallReturns == \A p \in Procs : pc[p] # "idle" ~> pc[p] = "idle"
=============================================================================
