------------------------ MODULE ProjectHistoryProofs ------------------------
(***************************************************************************)
(* The history of a project holds one deployment of a contract at most.    *)
(***************************************************************************)
EXTENDS ProjectHistory, SequenceTheorems, TLAPS

HistoryInv == TypeOK /\ OneDeployment

LEMMA AppendStep ==
  ASSUME HistoryInv, NEW s \in Txs \cup Deploys, s \in Deploys => DeploymentsOf(s) = {},
         history' = Append(history, s)
  PROVE  HistoryInv'
<1> DEFINE n == Len(history)
<1>1. /\ history \in Seq(Txs \cup Deploys) /\ n \in Nat
      /\ Len(history') = n + 1
      /\ \A i \in 1..n : history'[i] = history[i]
      /\ history'[n + 1] = s
      /\ history' \in Seq(Txs \cup Deploys)
  BY AppendProperties DEF HistoryInv, TypeOK
<1>2. \A i \in 1..n : s \in Deploys => ~(history[i] \in Deploys /\ Contract[history[i]] = Contract[s])
  BY <1>1 DEF DeploymentsOf
<1>3. ASSUME NEW i \in 1..(n + 1), NEW j \in 1..(n + 1),
             history'[i] \in Deploys, history'[j] \in Deploys, Contract[history'[i]] = Contract[history'[j]]
      PROVE  i = j
  <2>1. CASE i \in 1..n /\ j \in 1..n
    BY <1>1, <1>3, <2>1 DEF HistoryInv, OneDeployment
  <2>2. CASE i = n + 1 /\ j \in 1..n
    BY <1>1, <1>2, <1>3, <2>2
  <2>3. CASE i \in 1..n /\ j = n + 1
    BY <1>1, <1>2, <1>3, <2>3
  <2> QED
    BY <1>1, <2>1, <2>2, <2>3
<1>4. DOMAIN history' = 1..(n + 1)
  BY <1>1
<1> QED
  BY <1>1, <1>3, <1>4 DEF HistoryInv, TypeOK, OneDeployment

LEMMA RollbackStep ==
  ASSUME HistoryInv, NEW d \in Deploys, Rollback(d)
  PROVE  HistoryInv'
<1>1. PICK i \in DeploymentsOf(d) : history' = SubSeq(history, 1, i - 1)
  BY DEF Rollback
<1>2. i \in 1..Len(history) /\ history \in Seq(Txs \cup Deploys)
  BY DEF DeploymentsOf, HistoryInv, TypeOK
<1>3. /\ history' \in Seq(Txs \cup Deploys)
      /\ Len(history') = i - 1
      /\ \A j \in 1..(i - 1) : history'[j] = history[j]
  BY <1>1, <1>2, SubSeqProperties
<1> QED
  BY <1>2, <1>3 DEF HistoryInv, TypeOK, OneDeployment

\* Redeploying rolls back before it deploys (src/blockchain/projects.go:188-219), so no contract
\* has two deployments in the history of a project.
THEOREM OneDeploymentHolds ==
  ASSUME Txs \cap Deploys = {}
  PROVE  Spec => []OneDeployment
<1>1. Init => HistoryInv
  BY DEF Init, HistoryInv, TypeOK, OneDeployment
<1>2. HistoryInv /\ [Next]_history => HistoryInv'
  <2> SUFFICES ASSUME HistoryInv, [Next]_history PROVE HistoryInv'
    OBVIOUS
  <2>1. ASSUME NEW t \in Txs, ExecuteTransaction(t) PROVE HistoryInv'
    BY <2>1, AppendStep DEF ExecuteTransaction
  <2>2. ASSUME NEW d \in Deploys, DeployContract(d) PROVE HistoryInv'
    BY <2>2, AppendStep DEF DeployContract
  <2>3. ASSUME NEW d \in Deploys, Rollback(d) PROVE HistoryInv'
    BY <2>3, RollbackStep
  <2>4. CASE Clear
    BY <2>4 DEF Clear, HistoryInv, TypeOK, OneDeployment
  <2>5. CASE history' = history
    BY <2>5 DEF HistoryInv, TypeOK, OneDeployment
  <2> QED
    BY <2>1, <2>2, <2>3, <2>4, <2>5 DEF Next
<1>3. HistoryInv => OneDeployment
  BY DEF HistoryInv
<1> QED
  BY <1>1, <1>2, <1>3, PTL DEF Spec
=============================================================================
