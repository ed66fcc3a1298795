# A TLA+ verification of the Flow Playground API

The Flow Playground lets its users edit Cadence contracts, transactions and scripts
and run them on an emulated Flow blockchain. The server (`src/server/server.go`) is
deployed as several replicas that share one SQL database and nothing else. What makes it
more than a CRUD server is `src/blockchain`: the blockchain of a project lives in memory, in an
emulator each replica caches for itself, and what is persisted is only a log of the transactions
and contract deployments with their block heights. Every call first *loads* the
project: it brings the cached emulator up to the log by replaying the blocks it misses, or replaces
it when it is ahead.

This directory holds TLA+ modules for that machinery, small instances of them for TLC, and proofs
for TLAPS. `PROJECT.json` lists every run, mutant, finding, hazard and theorem with its lines
of the source.

## 1. Inventory

| Component | Source | State | Operations | Interacts with |
|---|---|---|---|---|
| blockchain projects | `blockchain/projects.go`, `cache.go` | LRU cache of emulators by project | `ExecuteTransaction`, `ExecuteScript`, `CreateAccount`, `DeployContract`, `GetAccount(s)`, `GetFlowJson`, `Reset`; inside them `load`, `rebuildState`, `runMissingBlocks` | storage (rows), pool (new emulators), mutex, emulator |
| per-project mutex | `blockchain/mutex.go` | map from project ID to `sync.RWMutex` | `load`, `remove` | every operation but `Reset` and `GetFlowJson` |
| emulator pool | `blockchain/pool.go` | buffered channel of emulators; goroutines that fill it | `new`, `add`, `create` | `rebuildState` |
| flowKit | `blockchain/flowkit.go` | one emulator: blocks, accounts, contracts | `executeTransaction`, `executeScript`, `createAccount`, `deployContract`, `getAccount`, `getAccountStorage`, `getLatestBlockHeight` | called by projects |
| storage | `storage/sql.go` | projects, files, users, executions, deployments | inserts, updates, `ResetProjectState`, `Truncate...AtBlockHeight`, `DeleteProject`, counts, `ProjectAccessed` | every layer above |
| controllers | `controller/*.go` | none | create, update, delete, reset, file changes, executions | storage, blockchain projects |
| resolver | `resolver.go` | `lastCreatedProject` | one per GraphQL field; authorises and calls a controller | controllers, auth |
| generated GraphQL | `generated.go`, `schema.graphql` | the response being built, its errors | decodes arguments, runs the fields in order or side by side, marshals, propagates nulls | resolver, error middleware |
| auth | `auth/*.go`, `middleware/sessions` | users, session cookies, one lock | `GetOrCreateUser`, `CheckProjectAccess` | storage |
| error middleware | `middleware/errors` | none | turns an error into what the user sees | generated GraphQL |
| server, telemetry, configuration | `server`, `telemetry`, `build` | process wiring, metrics | start up, ping, counters | all, read only |

Behaviour that is hard to get right here:

* **interleaving**: calls of one project at one replica (a readers-writer lock, which `Reset` and
  `GetFlowJson` do not take, and under which readers change the cache and the emulator), and at two
  replicas (no lock at all);
* **staleness**: the cached emulator against the rows, decided by comparing two heights;
* **partial failure**: the block is on the emulator and the row is not in the database; the error of a
  query inside `load` makes it reset the project;
* **crashes and evictions**: every emulator can disappear at any time;
* **ordering**: rows of two kinds share one sequence of heights; every response puts back the cookie its request was
  sent with; the fields of a query run side by side, those of a mutation one after the other;
* **no transactions**: a mutation is several statements with nothing around them, so requests of two users, or of one
  impatient one, see each other half done;
* **resources**: a pool that must neither overflow nor run dry, a map of mutexes that must hand the same
  mutex to everybody.

What makes each component correct:

* projects: the emulator a call works on ran exactly the persisted blocks; the rows number the blocks
  without a gap; nothing persisted disappears except by a reset or by redeploying a contract; no block runs
  twice; every call returns;
* mutex: a writer is alone in its project, the mutex unlocked is the one locked, nobody starves;
* pool: an emulator always finds its place, none is lost, an emptied pool fills again;
* storage and controllers: executions and files are listed in the order they were made, an answer of success means
  that the project shows the change, a title is not lost, and a deleted project leaves nothing behind but what a failed
  request left;
* auth: a client has one user, keeps it, and owns what it created; the limit of projects is exceeded only by requests at
  once; every request is answered;
* generated GraphQL and error middleware: a null goes exactly as far up as the schema says and has an error that explains
  it, mutations run in order, and an error has the code of its kind.

## 2. Modules

| Module | Models | State and actions |
|---|---|---|
| `Projects` | `projects.go`, `cache.go`, and what they use of `flowkit.go` and `sql.go` | `log` the rows, `cache` per replica, `chain` the blocks of each emulator; for each call its step `pc`, operation `op`, argument `script`, rows read `seen`, emulator `kit`, remembered `height`, and two flags |
| `ProjectHistory` | what the rows promise: a sequence of scripts that grows, is rolled back by redeploying, or is cleared | `history` |
| `ProjectsInvariant` | the inductive invariants of `Projects` | none |
| `ProjectMutex` | `mutex.go` with the steps of Go's `sync.RWMutex` | the map `pMutex`, each mutex's `writer` and `readers`, each call's mutexes |
| `ProjectLock` | the abstract readers-writer lock per project | `holds` |
| `FlowKitPool` | `pool.go` | counts of emulators in the channel, being created, being added |
| `Store` | the rows of one project (`sql.go`) and the requests that change them | the project's `exists` and `count`, `executions`, `deployments`; for each request its step, operation and what it read |
| `Files` | the row of one project and its files (`controller/files.go`, `controller/projects.go`, `sql.go`) under the mutations of `resolver.go` | `exists`, `title`, `files`, and how many were `inserted` and `deleted`; for each request its step, operation and what it read |
| `Users` | `auth`, `middleware/sessions`, the limit of `controller/projects.go`, and the resolvers that authorise | the tables `users` and `owner`; the `cookie` of each client; the `session` and `header` of each request; for each of its fields the step and what it read; the Authenticator's `lock` |
| `Schema` | the objects, fields, arguments and inputs of `generated.go` and `schema.graphql` | none: constants |
| `Response` | how `generated.go` builds a response, and `middleware/errors` | `nodes` of the response with their values, `errors`, `response` |
| `MCProjects`, `MCFiles`, `MCUsers`, `MCResponse` | values of the constants for TLC | none |
| `ProjectsProofs`, `ProjectHistoryProofs`, `ProjectMutexProofs`, `FlowKitPoolProofs`, `StoreProofs`, `FilesProofs`, `UsersProofs`, `ResponseProofs` | proofs | none |

How they compose: `Projects` takes the lock of a project as `Acquire`/`MayLock`/`Holding`, which is one lock of
`ProjectLock`; `ProjectMutex` is proved to implement `ProjectLock`. `Projects` takes a new emulator in one step
(`TakeNew`), which is `new` of `FlowKitPool`. `Projects` instantiates `ProjectHistory` on its rows. `Store` looks at the
same requests from the database: a load is one step there, and the writes to the rows are taken apart. `Files` has the
other tables of a project, and takes an execution as what it does to the project's row. `Users` stops where a request is
authorised, which is where `Store` and `Files` start. `Response` extends `Schema`, and takes a resolver as any outcome it can
have: a value, nothing, an error of any kind, a panic.

### Projects

A *process* is one call in progress at its `Home` replica; a step is what it does between two points at which
another call can be scheduled: a query, an access of the cache, a block sent to an emulator. The walk of a call
through `pc`:

    idle -Request-> waiting -Acquire-> readExecutions -> readDeployments -> fetch -> replay (a step per block)
         -AddToCache-> run -> ... -> idle
    an error before AddToCache: -> reset -> resetState -> readExecutions, once; the second error ends the call
    DeployContract of a contract that is there: run -> truncate -> reload -> readExecutions -> ... -> run
    ExecuteTransaction, DeployContract: run -> record -> idle
    GetAccounts, CreateAccount: run -> storage -> idle, or -> readExecutions for the next address
    Reset called by the user: idle -> reset -> resetState -> idle

The correspondence of each definition with its lines is in `PROJECT.json` under `map`. Abstractions:

* A block is the identity of the script it ran, or `Unrecorded` when no row will stand for it (an account
  creation, one that failed too, or a failed deployment). Cadence is not modelled, except that a deployment is refused when its contract
  is on the emulator, and that on an emulator which did not run the rows below a script that succeeded may
  fail (`BlockDiverges`). On the same blocks a replay succeeds as it did the first time.
* A transaction that fails in Cadence is recorded with its errors and replayed like the others, so it is a
  transaction.
* `Contract` gives the contract (name and account) a deployment adds. A transaction can add one too.
* An emulator nothing refers to is garbage, and its identity is used again (`Collect`).
* `ScriptExecution` rows are not modelled: nothing but a listing reads them. `GetAccount` is `GetAccounts` with
  one address; `GetAccounts` loads once for each of at most two addresses.
* An access of the cache is one step. In the code it is not: `cache.go` hands one groupcache `lru.Cache` to all projects and
  to all readers of a project, and that library is not safe for concurrent use. What a data race inside it does is not modelled.
* In `rebuildState` the access of the cache, the height of the emulator and the staleness check are one step, as
  are the height and the insertion of the row in `Record`.
* `Faults` chooses what may fail: `read` a query or the creation of an emulator, `write` an insertion or a
  deletion, `script` a script, `evict` the LRU, `crash` a replica.

Bounds: two or three calls, two replicas, the scripts of `Txs` and `Deploys`. A script is the argument of one
call, row or block at a time (`Unused`), so the length of the log is bounded by their number, and an identity
becomes free again once its rows and blocks are gone, which is what lets histories of any length recur. `Spare`
never runs out, as there are more emulators than replicas and calls. `CoreContracts` are contracts an emulator is
bootstrapped with; they make a deployment refused after a reload (`DeployRefused`). Two calls are enough for every
pair of operations to meet; a third one is used where a block must first be recorded for two others to race on it.

### ProjectMutex

`load` and `remove` are critical sections of the map's own mutex and are one step each. The Go statement
`defer p.mutex.remove(id).Unlock()` evaluates `remove(id)` as soon as it is reached, so it looks the mutex up a
second time while the lock is held, and unlocks what it found: `mut` and `deferred` are two variables for that reason. The steps
of `sync.RWMutex` are external: a writer announces itself and waits for the readers there, readers that
come later queue and are released by its `Unlock`.

### FlowKitPool

Only numbers: of emulators in the channel, of `create` goroutines that bootstrap one or are about to add one, of
emulators that failed to bootstrap, and each call of `new` between receiving an emulator and starting the goroutine
that replaces it. `MaxFailures` bounds the failures.

### Store

A *process* is one request, and a step is one query or one database transaction. A request reads the project first
(`authorize` does), takes the lock if its operation is one of `Projects`, loads, and writes:

    idle -Request-> waiting -Acquire-> load -> run -> record -> (ExecuteTransaction) save -> idle
    DeployContract of a contract that is there: run -> truncate -> load -> run
    a load that fails: -> find -> reset -> load, once; the second failure ends the request
    Reset, DeleteProject: idle -Request-> find -> reset or delete -> idle

* A load succeeds exactly when the rows number the blocks up to some height (`FilledTo`), which becomes the
  emulator's; otherwise, or when `load` is among the `Faults`, it resets the project. Why a load leaves the emulator at
  the last row is what `Projects` shows.
* `InsertTransactionExecution` reads the project with one query (`FindProject`) and saves it whole with another
  (`SaveExecution`). The library's `Save` updates the row, or inserts it when there is none, so it can write a
  deleted project back; `Fails` allows the database to refuse that.
* Truncation sets the count to the height rolled back to less one, which is not the number of executions left: the
  next index leaves a gap, and what must survive is the order.
* Titles, access times, files and users are in `Files` and `Users`.

### Files

A *process* is one mutation, and a step is one statement of the database. Reading the project to authorise sets its
`accessed_at` first (`ProjectAccessed`); then the file is changed, and last the row of the project is updated
(`fileChanged`, `UpdateRow`) and read back:

    idle -Request-> access -> authorize -> count -> insert -> update -> read -> idle      (createFile)
                                        -> change -> reread -> update -> read -> idle     (updateFile)
                                        -> change -> update -> read -> idle               (deleteFile)
                                        -> update -> read -> idle                         (updateProject)
                                        -> get -> delete -> idle                          (deleteProject)
                                        -> run [-> find -> save] -> update -> read -> idle (executions, deployments)

* `updated_at` is not a clock: `stale` has the requests that changed something since the row was last written, which is
  what the clients that compare it can tell. When an execution inserts a deleted project again, the row comes back with the
  `updated_at` that was read, which clears nothing: `restored` has the requests in progress then. `acked` has the files whose creation was answered with success, `written`
  the title a user set last, `overtaken` that an execution had read the row before. No action reads these five.
* A file has its `type` and `index`, and what was inserted when it was counted for (`after`): contents play no part.
* Scripts and the emulator may fail (`run` in `Faults`), any statement may (`query`).

### Users

A *call* is one root field of a request. The fields of a query run at once, those of a mutation in order (`MayStart`,
as `Response` shows). The client sends the cookie it has (`Send`) and takes the one that comes back (`Respond`), in
whatever order the responses arrive, or never (`response` in `Faults`). The session is one object for the request, which is
why a field finds the user another one of them created. Reading the session saves it, and checks no error
(`SaveSession`, `SaveFails`): when the save of a new user fails, the user stays in the session and not in the response, until a
later field's save works (`unsaved`). A field asks for the user under the lock of the Authenticator, from
`Acquire` to the `Unlock` of each way out:

    start -GetProject-> lock -Acquire-> user -> access -> done                 (project, updateProject)
    start -Acquire-> user [-> create] -> count -> insert -> done               (createProject)
    start -Acquire-> user [-> create] -> done                                  (projectList)

* Users and projects are numbers in the order they were inserted. `author`, `made`, `unsaved` and `mayStray` decide no step.
* A project of a time before users (`LegacyProjects`) belongs to nobody; a client that has its secret becomes the owner when
  it opens it with a user (`CheckProjectAccess`, which reads the session a second time, so saves it again).
* `GetProject` keeps the owner it read (`seen`), and the check uses it later.

### Schema and Response

`Schema` lists the fields of each object with the type they marshal to, what may be null, whether the object resolves the
field in a goroutine (`delays`) and whether it counts its null (`counts`); and the arguments and inputs. It is read off the
field functions, the `_Object` functions and the `marshal...` functions of `generated.go`, all of the same few forms. What counts
in an object is exactly what is required of it: `SchemaAssumption`, which TLC evaluates in the run `Response`.

`Response` runs an operation on it: for each position the object selected from, and its fields. `Valid` is what the
validation of gqlparser leaves: fields that exist, each once, with a selection where there is an object. A node is the value at one path. A field with a resolver
of its own runs beside its siblings, once the plain ones are done (`Ready`); the root fields of a mutation are plain and
wait for each other. `ResolverError`, `ArgumentError` and `MustNotBeNull` end a node with a null and an error, `NoValue` with a
null only, and `Complete` decides the null of an object or list when all in it have ended. `Respond` is the middleware: it
gives each error its message and writes its code into the extensions, which are one map for all of them. An operation the
executor cannot parse or validate is `Rejected`, with errors only.

## 3. Runs

| Run | Instance | Question |
|---|---|---|
| `ProjectsLocked` | 1 replica, 2 calls, locked operations, 2 transactions, 2 deployments of a contract, `write script evict crash` | Does every call work on exactly the persisted blocks, with rows contiguous, no torn account, no block run twice and nothing lost? |
| `ProjectsReadErrors` | the same with `read` errors, so loads reset the project; a third deployment, of a core contract | Is the inductive invariant of the proofs one, do the calls that change the project work on the persisted blocks, do the rows implement `ProjectHistory`, is a contract deployed once at most? |
| `ProjectsReplicas` | 2 replicas, calls one after the other, accounts created, `evict crash`, no reset, no contract deployed twice | Does a replica catch up with the blocks of another? |
| `ProjectsRaces` | 1 replica, 2 calls, with `Reset` and `GetFlowJson`, `read`, fair | What still holds when nothing is locked: a replay never counts blocks its emulator lacks, and every call returns |
| `FlowKitPool` | 3 places, 3 calls, 2 failures, fair | Can the pool overflow, lose an emulator, or stay empty? |
| `ProjectMutex` | 3 calls, 2 projects, 3 mutexes, fair | Exclusion, the refinement of `ProjectLock`, and does every call get its lock? |
| `Store` | 3 requests, heights 2 to 6, no `Reset`, `load write script` | Are executions listed in the order they ran, whatever is rolled back, reset by a load or deleted? |
| `Files` | 2 requests, 2 types of file, a project that starts with one contract, 2 titles, 2 more files, `query run` | Are files listed in the order they were made, is a success one the project shows, is a title lost, what does a deletion leave? |
| `Users` | 1 client, 2 requests of 2 fields (the list of projects twice; an update and a creation; two creations), 1 project per user, a legacy project, `query save response`, fair | Does a client get one user and keep it, own what it created, stay near its limit, and get its answers? |
| `Response` | 3 operations (two queries, one of three mutations), lists of up to 2, up to 2 errors, fair | Do nulls go as far up as the schema says, with an error each; do mutations run in order; are codes those of the errors? |

Deadlock is not checked in `Store`: once the project is deleted no request for it is served. Heights there leave
room for four blocks, which is enough for a rollback to a deployment with executions below and above it, and
another rollback after that; three requests, for a writer, one that waits for it, and one that deletes the project.
It is not checked in `Response` either: a response
that was sent is the end.

In `Files` two requests are enough for every pair of mutations to interleave at every statement, and a process serves one
request after the other, so a third request can start between two steps of the first. Two files besides the template give a deletion
between a count and an insertion. In `Users` two requests of one client, each with two fields, are what the cookie, the
session and the lock are about; two users and three projects let a client lose one user and get another, and pass a limit of
one. Two creations in one mutation let the second one run after the first could not save its user. Clients share only the lock, so one client is enough for the properties, which speak of one client at a time. The
operations of `Response` have each form of field: plain and resolved, required and not, lists of required elements inside a
required object, an object inside a list, scalars; two errors are the least that can share a map.

In `ProjectMutex` there is a mutex more than projects, so that two calls could make one each if the map let them.
In `FlowKitPool` failures stay below the places, so that `Refills` has something to say.

`ServesLog` holds in `ProjectsLocked` although readers share the lock, because with one replica and no failing
query the cached emulator is never behind: a reader has blocks to replay only on a new emulator of its own. In
`ProjectsReadErrors` it does not hold for readers (one reader's failing query resets the project under another),
which is why that run states `WriterServesLog`.

Each property has a mutant: a definition changed the way a plausible bug would change the code (`Mutant of ...` in the
modules), under which the run's instance violates it.

### Fairness

`Fairness` of `Projects`: a call that has its lock goes on (`WF`): goroutines are scheduled, queries and
the emulator answer or fail. `Acquire` is strongly fair, because `sync.RWMutex` starves neither readers nor writers. That
is what `ProjectMutex` checks on the steps of the mutex, from weak fairness of the calls and strong fairness of `Announce`
(the inner `sync.Mutex` hands over after a millisecond of starvation). Nothing makes a user call. In `FlowKitPool` goroutines
run and `new` starts the replacement; nothing makes a load take an emulator. In `Users` a request goes on to its response,
strongly fair (`SF`) because a `sync.Mutex` hands over to a waiter that starves; nothing makes a client send. In
`Response` the goroutines of a request run (`WF` of `Next`).

## 4. Where the code and its words part

Each of these is a run that finds a counterexample; `PROJECT.json` quotes the words.

| Run | What happens |
|---|---|
| `StaleAfterReset` | A project reset at replica A and used again to the same height: B, which missed it, serves the old blocks. Heights are compared, not histories. |
| `SharedReplay` | Two readers replay the missing block on the one cached emulator. |

Other behaviour the models have, which no run is spent on; a change of a configuration shows each:

* Two replicas record the same height (no lock is shared): the next load finds a gap, and resets everything.
  `NoHistoryLost` fails when `Serial` is `FALSE` in `ProjectsReplicas`, without `DeployContract` among its operations too.
* Redeploying a contract that a transaction added finds no deployment row and truncates at height 0: everything goes.
  `NoHistoryLost` fails when `Contract` gives `t1` of `ProjectsLocked` the contract `c1` (without its symmetry).
* A project is deleted while a deployment of it waits for the lock: the deployment is recorded for a project that is gone, and stays.
* With `script` or `write` among the faults of `ProjectsReplicas`, `ServesLog` fails: a deployment or an account creation that
  failed, or a block that could not be recorded, leaves a block with no row on one replica, and when the other one records a block of that height, the
  first never applies it. With `read`, `NoHistoryLost` fails, as on one replica.
* With two deployments of one contract (`Deploys = {d1, d2}`) in `ProjectsReplicas`, `ServesLog` fails without any reset: one
  replica rolls back by deploying the contract again, the project grows to the same height, and the other replica serves the
  blocks that were rolled back.
* With `Reset` among the operations of `ProjectsLocked`, `LogContiguous` fails: it clears the rows between a
  transaction and its record, which leaves a row above a gap. The next load resets the project again.
* With `Reset` among those of `Store`, `ListedInOrder` fails: between finding the deployment to roll back to and the
  truncation, it leaves a count above 0 on a project with no rows, and a later rollback gives an index out twice.
* With `GetFlowJson` in the place of `ExecuteScript` in `SharedReplay`, `NoBlockTwice` fails all the same, and with
  no lock to share.
* A query that fails once inside `load` deletes the rows of the project: with `read` among the faults of
  `ProjectsLocked`, `NoHistoryLost` fails.
* `CreateAccount` reads its account back through a load, which drops the emulator that is one block above the rows: it
  never sees the account.
* Emulators that failed to bootstrap are not tried again: with `MaxFailures` equal to `Size` the pool stays empty, and
  every load that needs an emulator bootstraps it itself.
* `SaveExecution` writes a deleted project back, and `SaveProject` in `Files` the title and `updated_at` it read: `TitleKept`,
  `OrphansFailed` and `TouchedBeforeSuccess` say exactly when that shows. For the last one it takes three requests: with
  `Procs = {p1, p2, p3}` a file is created, the project deleted and written back, and the creation answered with success under
  an `updated_at` from before it.
* Reading a project to authorise moves its `updated_at` (gorm sets it with `accessed_at`), although `files.go:96` uses it
  as the time of a change.
* Files are selected by their own ID, not with the project's: an update or deletion of a file of another project that the
  user names would be done. In `Files` a request names files of its project only.
* An update of a file ignores the index it is given, although the validation accepts an update with nothing but an index.
* A legacy project becomes its user's only when the client has a user already: opening it without one is refused first.
* When a response is lost, or two requests are sent before the client has a cookie, the client ends up with another user
  than the one that owns what it created (`mayStray`). So it does without either when its new user is never saved: the first
  `createProject` of a mutation inserts the user and fails to save the session (`auth.go:76`), the second finds the user in the
  session, its own save fails and is ignored (`sessions.go:57`), and the project is created for a user the client never gets.
  `OwnProjects` without `unsaved` and the `mayStray` of `Respond` that goes with it fails in the run `Users`.
* Errors of more than one kind in a response all get the code of the last one; those of a request that was rejected have none.

Beside the models: the cache of emulators is a groupcache `lru.Cache` that all projects of a replica use with no lock of its
own (`cache.go:41`), while the locks are one per project and are shared by its readers; the logs of a script are collected in one list per emulator (`Interceptor.go`), which scripts running at
the same time on it clear, fill and read without a lock, so one may be given the logs of another; metrics count an operation as
completed before it runs, and skip the counter of a resolver that panics; the spans of fields without arguments end early; stale
projects are counted and never removed.

## 5. Proofs

* `TypeCorrect` (`ProjectsProofs`): types of `Projects`, for any constants. `TypeInv` adds `CallInv`, which says at which
  steps a call has an emulator and a script: without it `chain[kit[p]]` has no type.
* `InvariantHolds`, `RowsContiguous`, `WritersServed` (`ProjectsProofs`): assuming `OneReplica` and `LocksTaken`
  (no `Reset` by the user and no `GetFlowJson`), for any number of calls and scripts and all faults, `Inv` is an
  invariant. `LogContiguous` is not inductive: recording the block above the rows needs the emulator to have exactly one block
  more than the rows (`WriterInv`), which needs `load` to have filled it with exactly the rows (`LoadInv`), which
  needs a cached emulator that passes the staleness check to have run exactly the rows (`CacheInv`: an emulator at
  most as high as the rows ran them, and a higher one is dropped), which needs the lock (`LockInv`). A reader may be
  overtaken by another reader's reset; `LoadInv` says that then there are no rows left.
* `RowsAreHistory`, `OneDeploymentRow` (`ProjectsProofs`), under the same assumptions, and for the first that queries may
  fail (`"read" \in Faults`, which is what lets the history be cleared): the rows implement `ProjectHistory`. `Inv` is not enough,
  as it does not say which scripts the rows hold. `RowsInv` adds that a script names one row or one call (`Named`), that a
  contract has one row (`Once`), and what a call that is about to record or truncate knows of the rows (`Deploying`): its contract
  has none, because the emulator it found without the contract ran exactly the rows (`WriterInv`), or the height is one of
  the contract's. Nobody else writes in between because of the lock.
* `NeverBehindHolds` (`ProjectsProofs`): for any replicas and operations, with no lock. An emulator a call holds only grows
  (`Grows`), because what is emptied is `Spare`, and a replay starts at the emulator's own height or at the bootstrapped one.
* `EveryCallServed`, `AccountsNotTorn`, `BlocksRunOnce` (`ProjectsProofs`), under the same assumptions and `ReadsSucceed` (no
  query fails), which they cannot do without: a query that fails inside a load clears the rows, under the feet of the other readers.
  Writes may fail, replicas crash, scripts fail and the cache evict. They follow from `CalmInvariant`. Readers share the lock,
  and each of them may write to the emulator it found. What keeps them apart is that a cached emulator ran
  exactly the rows, so that a reader replays only on an emulator of its own. A load clears the rows when a block cannot be replayed,
  and therefore `CalmInv` says that none is refused: no row redeploys a contract that a row below it added (`NeverRefused`),
  nor does the deployment about to become a row (`NeverRefusedNext`), so no load ever enters `reset` (`NoReset`), and what a load read
  are the rows (`LoadsKnow`). A block is not run twice because a call's script is on no emulator before the call runs it
  (`NotRunYet`) and a replay goes on where its emulator ended. TLC checked `CalmInv` on `ProjectsLocked` before it was proved.
* `RowsNotLost`, `RowsNeverCleared` (`ProjectsProofs`), under these and `OnlyDeployed` (transactions add no contract): a row
  goes only when a deployment of its contract, or of one below it, is deployed again, and the rows implement `ProjectHistory` with
  clearing forbidden. `OnlyDeployed` is the case in which the code is right: redeploying a contract that a transaction added
  truncates at height 0 (section 4). `RollsBackToDeployment` says that a call at `truncate` has the height of a deployment of its contract:
  the emulator refused the contract, so a row added it, and that row is a deployment.
* `ReplicasServed`, `ReplicasLoseNothing`, `ReplicasAreHistory` (`ProjectsProofs`), for any number of replicas, calls and scripts,
  from `TurnsInvariant`. They assume `LocksTaken`, `TurnsTaken` (calls follow one another, no query and no write fails, and where
  scripts fail nothing is deployed and no account created) and `NoRedeployment` (a contract is deployed once, by a deployment). None of these can be
  left out: section 4 says how each fails. Evictions and restarts at any moment, accounts created and transactions recorded by any
  replica remain. `CacheInv` is false here, as a replica that was not called is behind. What holds instead is that every cached
  emulator ran the first rows (`CachesBehind`), because the rows only grow. The exceptions are what makes the staleness check
  matter: an emulator is ahead of the rows while its own call is about to record its block, or when `CreateAccount` left a block
  without a row on it. In the second case the same call loads at once and drops the emulator, before another replica can record a
  block of that height (`OneCall`), and no other replica has that emulator (`OwnEmulators`). No load fails and nothing is rolled
  back, because a deployment's contract is on an emulator only through the deployment's own row (`ContractOfRow`).
  TLC checked `TurnsInv` on the instance of `ProjectsReplicas`, and with failing scripts, no deployments and no account
  creations.
* `LockInvHolds`, `MutualExclusion`, `MutexImplementsLock` (`ProjectMutexProofs`): the map gives everybody the same mutex
  (`MapInv`), what the mutex counts is who holds it (`MutexInv`), so a step that gives a call the lock is a step of
  `ProjectLock`.
* `NeverFullHolds`, `OneForOneHolds` (`FlowKitPoolProofs`): emulators in the channel, in creation, to be added and
  taken but not yet replaced are, together with those that failed, exactly `Size`; so one that is about to be added
  is not in the channel, which has a place for it.
* `StoreInvHolds`, `ExecutionsListedInOrder` (`StoreProofs`): assuming `"Reset" \notin Ops`, for any number of requests
  and heights. The order of indexes is kept because an execution's index is below the count and the new one takes the
  count; that survives a rollback to height h, which sets the count to h - 1, because every index is below its
  block's height (`IndexInv`). An index gets no higher than its block because the count is at most the height of the last
  row, and the new block is above every row (`WriterInv`), which the lock keeps true between the load and the
  record (`LockInv`).
* `FilesTypeCorrect`, `FilesInOrder`, `OnlyFailedOrphans`, `SuccessIsTouched`, `TitleNotLost` (`FilesProofs`), for any
  requests, types, templates and failures. The order of files is kept by an index that counts: a type has as many files as
  were there or inserted less those deleted (`Sized`), and every index and every count a request holds is at most what was
  there or inserted, and at least that less the deletions (`Numbered`, `Counted`), so a new file is below an older one by at most
  the deletions since (`OrderInv`). A success is not stale because `UpdateRow` comes after the change and every later write
  of the row only clears, but for the one that inserts it again (`TouchedInv`). A title differs from the one written last only while a call at `save` holds
  another (`TitleInv`). An orphan was not acknowledged because `ReadBack` found the row, and deleting the row deletes every file
  that was there (`AckedInv`).
* `UsersTypeCorrect`, `OneUserCreated`, `UserKept`, `ProjectsOwned`, `LimitExceededByRequests` (`UsersProofs`), for any clients,
  requests, fields, limit, legacy projects and failures, from `UsersInvHolds`. A request creates one user at most because a field
  creates with the lock (`LockInv`) after it found none in the session under that lock, and creating sets the session before it releases
  (`CallInv`, `SessionInv`). A client keeps its user because the session starts with the user of the cookie it was sent
  with and never changes it, and a cookie that is set is the session's (`SessionInv`); a user in the session is the one that
  was sent, or is in the response, or no save of it has worked (`unsaved`), and then the client may stray, which is the exception
  of `OwnProjects`; two requests of a client that did not
  stray can only run at once when the cookie names a user (`StrayInv`). The limit is passed by no more projects than there are
  requests: a field counts and inserts in two steps, but the fields of a mutation run one after the other (`SerialInv`), so a
  request has one insertion pending at most, and each pending insertion found room (`LimitInv` counts what was created and what is pending).
  TLC checked `UsersInv` on the instance of `Users`.
* `ResponseTypeCorrect`, `NullsReachParents`, `NullsExplained`, `ErrorsCoded`, `MutationsRunInOrder` (`ResponseProofs`), for any
  schema that satisfies `SchemaAssumption`, any valid operations and any length of lists, from `ResponseInvHolds`. What is in a
  node was opened by a value, so a node with no value has nothing in it (`TreeInv`), and a node ends after everything in it
  (`DoneInv`). A null is then decided once, with all children at their last value: an object is null when a child that counts is
  null, and what counts is what its type requires (`SchemaAssumption`, `FieldInv`, `ObjectInv`), so the chain of required nodes
  from a missing value up to a null grows by one node for each null (`CarriesChild`). An error lies in a node that has no value
  because of it (`ErrorsInv`), and no two such nodes are one inside the other, so no path is reported twice. The code that all
  errors share is the one of the last error with a code, and every error of a resolver has one. A mutation runs after those before
  it because `Ready` waits for the node, a node is done with everything in it, and no field is selected twice. TLC checked
  `ResponseInv` on the operations of the run before it was proved.
* `OneDeploymentHolds` (`ProjectHistoryProofs`), assuming that no script is both a transaction and a deployment.

Assumptions: only the named `ASSUME`s on constants, and what is stated above. Only model-checked: the liveness properties, and that each
property can fail (its mutant). Failed proofs found what was wrong with the models: the `pc` after
`Send` was a `CASE` with two arms for one field; nothing said that a client is never the absent one (`NoClient`), or what makes an
operation valid, without which a mutation selected twice has no order. `:>`, `@@` and `ToString` of module `TLC` mean nothing to
the provers: the nodes of a response are written as functions, and of the position of an element only that it is one is used.
Out of the provers' reach: the liveness properties (`Refills`, `EveryCallLocks`, `EveryCallReturns`, `EveryRequestAnswered`,
`EveryRequestResponds`).

## 6. Not modelled, and why

* Cadence, the emulator's inside, its logs and events, `flow.json`: external, or text with no state the other parts see. A
  script is what its success and the contracts it adds.
* In `generated.go`: introspection and the complexity of a query, which no limit uses.
* Script executions as rows, versions, and the text columns of a project other than its title: written once or whole, and
  read by nothing that decides anything.
* HTML embeds, the ping and version endpoints, configuration and wiring, telemetry, Sentry: they read the rest, or start it.
* The helpers of `e2eTest`: a client for the tests.

The modules were written in the order of the importance of what they model: `Projects` with its abstract history, the lock
and the pool it assumes, `Store` for what the database sees of the same calls, then `Files` and `Users` for the layers above,
and `Schema` and `Response` for the outermost one. What a continuation would take first: how
much of `ReplicasServed` survives when two replicas are called at once, which needs the lock they do not share.
