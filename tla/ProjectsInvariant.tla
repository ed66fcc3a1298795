------------------------- MODULE ProjectsInvariant -------------------------
(***************************************************************************)
(* The inductive invariants of Projects.                                   *)
(*                                                                         *)
(* Inv: why the rows of a project stay contiguous, and why a transaction   *)
(* or a deployment runs on exactly the blocks they prescribe, when the     *)
(* project lives at one replica and its calls take its lock.  RowsInv adds *)
(* what the rows hold, and CalmInv what holds when reads succeed.          *)
(*                                                                         *)
(* TurnsInv: why a replica catches up with the others when calls take      *)
(* turns.                                                                  *)
(***************************************************************************)
EXTENDS Projects

OneReplica == \A r \in Replicas, p \in Procs : Home[p] = r
LocksTaken == Ops \subseteq Locked

\* A call that is not idle runs one of the operations, and only the idle ones run none.
OpsInv == \A p \in Procs : IF pc[p] = "idle" THEN op[p] = "none" ELSE op[p] \in Ops

\* What the RWMutex gives: a call that changes the project holds it alone.
LockInv ==
  \A p, q \in Procs : (p # q /\ Holding(p) /\ Holding(q)) => (op[p] \in Readers /\ op[q] \in Readers)

\* A block has one row.
LogInv ==
  /\ IsFiniteSet(log)
  /\ \A r, s \in log : r.height = s.height => r = s
  /\ LogContiguous

\* The emulator is ahead of the rows, or it ran exactly them: what the staleness check tells apart.
Reliable(k) ==
  /\ Len(chain[k]) >= Cardinality(log)
  /\ Len(chain[k]) = Cardinality(log) => Replays(chain[k], log)

CacheInv == \A r \in Replicas : cache[r] # NoKit => Reliable(cache[r])

\* An emulator being filled is nobody else's, and has run the rows up to the height reached.
Filling(p) ==
  /\ kit[p] \notin Range(cache)
  /\ \A q \in Procs \ {p} : kit[q] # kit[p]
  /\ height[p] = Top(kit[p])
  /\ height[p] <= Total(log)
  /\ \A i \in 1..Len(chain[kit[p]]) :
       [height |-> InitHeight + i, script |-> chain[kit[p]][i]] \in log

Filled(p) == height[p] = Total(log) /\ Replays(chain[kit[p]], log)

\* What a load knows at each of its steps.
Loading(p) ==
  /\ pc[p] = "readDeployments" => seen[p] = TxRows(log)
  /\ pc[p] \in {"fetch", "replay"} => seen[p] = log
  /\ pc[p] = "replay" => Filling(p) \/ Filled(p)

\* A reader's load may have been overtaken by another reader's reset of the project.
LoadInv ==
  \A p \in Procs : /\ pc[p] # "idle" => op[p] \in Writers \/ log = {} \/ Loading(p)
                   /\ op[p] \in Writers => Loading(p)

\* Only the emulator the writer works on is cached.
Alone(p) == \A r \in Replicas : cache[r] \in {NoKit, kit[p]}

\* The emulator of a writer: the rows, and once its script has run, its script.
WriterInv ==
  \A p \in Procs :
    op[p] \in Writers =>
      /\ Serving(p) => Alone(p) /\ Replays(chain[kit[p]], log)
      /\ pc[p] = "record" =>
           /\ Alone(p)
           /\ script[p] \in Scripts
           /\ Len(chain[kit[p]]) = Cardinality(log) + 1
           /\ \A i \in 1..Cardinality(log) :
                [height |-> InitHeight + i, script |-> chain[kit[p]][i]] \in log
           /\ chain[kit[p]][Cardinality(log) + 1] = script[p]

\* A call has an emulator exactly at the steps that use one, a script exactly when it needs one,
\* and only a call that changes the project gets to record a row or to delete some.
CallInv ==
  \A p \in Procs :
    /\ pc[p] \in {"replay", "run", "storage", "record"} => kit[p] \in FlowKits
    /\ pc[p] \in {"truncate", "reload"} => op[p] = "DeployContract"
    /\ pc[p] = "record" => op[p] \in {"ExecuteTransaction", "DeployContract"}
    /\ pc[p] = "storage" => op[p] \in {"GetAccounts", "CreateAccount"}
    /\ op[p] = "ExecuteTransaction" => script[p] \in Txs
    /\ op[p] = "DeployContract" => script[p] \in Deploys

Inv ==
  /\ TypeOK
  /\ OpsInv
  /\ CallInv
  /\ LockInv
  /\ LogInv
  /\ CacheInv
  /\ LoadInv
  /\ WriterInv
-----------------------------------------------------------------------------
(* What the rows hold besides their heights *)

\* A script names one row, or the one call that is going to add it.
Named ==
  /\ \A r, s \in log : r.script = s.script => r = s
  /\ \A p \in Procs : script[p] # NoScript => \A r \in log : r.script # script[p]
  /\ \A p, q \in Procs : p # q /\ script[p] # NoScript => script[p] # script[q]

\* A contract has one deployment.
Once ==
  \A r, s \in DeployRows(log) : Contract[r.script] = Contract[s.script] => r = s

\* The contract about to be recorded has none, the one to be truncated at has one at that height,
\* or was not deployed by a row.
Deploying ==
  \A p \in Procs :
    /\ pc[p] = "record" => \A r \in DeployRows(log) :
                             script[p] \in Deploys => Contract[r.script] # Contract[script[p]]
    /\ pc[p] = "truncate" => height[p] \in DeployedAt(script[p])

RowsInv == Named /\ Once /\ Deploying

-----------------------------------------------------------------------------
(* Without errors of the database on reads no load ever resets the project: why every call, the  *)
(* readers too, is served the rows, and why no row is lost.                                      *)

ReadsSucceed == "read" \notin Faults

\* Only a deployment adds the contract of a deployment.
OnlyDeployed ==
  \A d \in Deploys : Contract[d] \notin CoreContracts /\ \A t \in Txs : Contract[t] # Contract[d]

NoReset == \A p \in Procs : pc[p] \notin {"reset", "resetState"}

LoadsKnow == \A p \in Procs : Loading(p)

\* A deployment row adds a contract that no row below adds: an emulator never refuses it.
NeverRefused ==
  \A d \in DeployRows(log) :
    /\ Contract[d.script] \notin CoreContracts
    /\ \A r \in log : r.height < d.height => Contract[r.script] # Contract[d.script]

\* The same for the deployment about to become a row.
NeverRefusedNext ==
  \A p \in Procs :
    (pc[p] = "record" /\ op[p] = "DeployContract") =>
      /\ Contract[script[p]] \notin CoreContracts
      /\ \A r \in log : Contract[r.script] # Contract[script[p]]

\* A script has run on no emulator before its call runs it.
NotRunYet ==
  \A p \in Procs :
    (script[p] # NoScript /\ pc[p] # "record") => \A k \in FlowKits : script[p] \notin Range(chain[k])

CalmInv ==
  /\ NoReset
  /\ LoadsKnow
  /\ ServesLog
  /\ NoTornAccount
  /\ NeverRefused
  /\ NeverRefusedNext
  /\ NoBlockTwice
  /\ NotRunYet

\* A rollback is to before a deployment of the contract that is deployed again.
RollsBackToDeployment ==
  \A p \in Procs :
    pc[p] = "truncate" =>
      \E d \in DeployRows(log) : Contract[d.script] = Contract[script[p]] /\ d.height = height[p]

-----------------------------------------------------------------------------
(* Any number of replicas whose calls take turns: a replica that was not called catches up.      *)

\* Calls take turns, and no failure leaves a block without a row or a project without its rows.
TurnsTaken ==
  /\ Serial
  /\ "read" \notin Faults /\ "write" \notin Faults
  /\ "script" \in Faults => "DeployContract" \notin Ops /\ "CreateAccount" \notin Ops

\* A contract is deployed once: nothing rolls the project back.
NoRedeployment ==
  \A d \in Deploys : Contract[d] \notin CoreContracts /\ \A s \in Scripts \ {d} : Contract[s] # Contract[d]

OneCall == \A p, q \in Procs : pc[p] # "idle" /\ pc[q] # "idle" => p = q

\* An emulator is at one replica.
OwnEmulators ==
  /\ \A r, s \in Replicas : cache[r] # NoKit /\ cache[r] = cache[s] => r = s
  /\ \A p \in Procs, r \in Replicas : kit[p] # NoKit /\ kit[p] = cache[r] => r = Home[p]

\* The emulator ran the first rows, all of them or not.
Behind(k) ==
  /\ Len(chain[k]) <= Cardinality(log)
  /\ \A i \in 1..Len(chain[k]) : [height |-> InitHeight + i, script |-> chain[k][i]] \in log

\* A cached emulator missed the blocks of the other replicas at worst.  It is ahead of the rows only
\* while a call of its replica is about to record its block, or loads and will drop it: it has an
\* account more.
CachesBehind ==
  \A r \in Replicas : cache[r] # NoKit =>
    \/ Behind(cache[r])
    \/ \E p \in Procs : /\ Home[p] = r
                        /\ pc[p] \in {"readExecutions", "readDeployments", "fetch"}
                        /\ Len(chain[cache[r]]) > Cardinality(log)
    \/ \E p \in Procs : pc[p] = "record" /\ kit[p] = cache[r]

\* What a call knows at each of its steps; it never resets the project nor rolls it back.
Turn(p) ==
  /\ pc[p] \notin {"reset", "resetState", "truncate", "reload"}
  /\ pc[p] \in {"idle", "waiting", "readExecutions", "readDeployments", "fetch"} => kit[p] = NoKit
  /\ pc[p] = "readDeployments" => seen[p] = TxRows(log)
  /\ pc[p] \in {"fetch", "replay"} => seen[p] = log
  /\ pc[p] = "replay" => Behind(kit[p]) /\ height[p] = Top(kit[p])
  /\ Serving(p) => Replays(chain[kit[p]], log)
  /\ pc[p] = "storage" => height[p] = Top(kit[p])
  /\ pc[p] = "record" =>
       /\ Len(chain[kit[p]]) = Cardinality(log) + 1
       /\ \A i \in 1..Cardinality(log) : [height |-> InitHeight + i, script |-> chain[kit[p]][i]] \in log
       /\ chain[kit[p]][Cardinality(log) + 1] = script[p]

TurnsInv ==
  /\ TypeOK /\ CallInv
  /\ OpsInv
  /\ LogInv
  /\ Named
  /\ OneCall
  /\ OwnEmulators
  /\ CachesBehind
  /\ \A p \in Procs : Turn(p)
=============================================================================
