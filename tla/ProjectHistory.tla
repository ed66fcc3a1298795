--------------------------- MODULE ProjectHistory ---------------------------
(***************************************************************************)
(* What the blockchain of a project promises its user, without emulators,  *)
(* replicas or caches: a history of transactions and deployments that      *)
(* grows at its end, and that is cut only by deploying a contract again    *)
(* (src/blockchain/projects.go:163-234) or by clearing the project         *)
(* (src/blockchain/projects.go:57-73).                                     *)
(***************************************************************************)
EXTENDS Integers, Sequences, FiniteSets, Functions

CONSTANTS Txs, Deploys, Contract, MayClear

VARIABLE history    \* scripts of the blocks above the bootstrapped ones, in order

Init == history = <<>>

\* Deployments of the contract a script adds.
DeploymentsOf(s) ==
  {i \in DOMAIN history : history[i] \in Deploys /\ Contract[history[i]] = Contract[s]}

ExecuteTransaction(t) ==
  /\ t \notin Range(history)
  /\ history' = Append(history, t)

\* A contract is deployed only when the history holds no deployment of it.
DeployContract(d) ==
  /\ d \notin Range(history)
  /\ DeploymentsOf(d) = {}
  /\ history' = Append(history, d)

\* Deploying a contract again first rolls back to the block before it was deployed.
Rollback(d) ==
  \E i \in DeploymentsOf(d) : history' = SubSeq(history, 1, i - 1)

Clear ==
  /\ MayClear
  /\ history' = <<>>

Next ==
  \/ \E t \in Txs : ExecuteTransaction(t)
  \/ \E d \in Deploys : DeployContract(d) \/ Rollback(d)
  \/ Clear

Spec == Init /\ [][Next]_history

-----------------------------------------------------------------------------
TypeOK == history \in Seq(Txs \cup Deploys)

\* A contract has one deployment in the history at most: redeploying it knows which block to roll
\* back to, and the deployment found on its address is the one to undo.
OneDeployment ==
  \A i, j \in DOMAIN history :
    (history[i] \in Deploys /\ history[j] \in Deploys /\ Contract[history[i]] = Contract[history[j]])
      => i = j
=============================================================================
