-------------------------- MODULE FlowKitPoolProofs --------------------------
(***************************************************************************)
(* The pool never holds more emulators than it has places for, and loses   *)
(* only those that fail to bootstrap, for every size of the pool, every    *)
(* number of calls and every number of failures.                           *)
(***************************************************************************)
EXTENDS FlowKitPool, FiniteSetTheorems, TLAPS

LEMMA TakenFinite == IsFiniteSet(Taken) /\ Cardinality(Taken) \in Nat
<1>1. IsFiniteSet(Taken)
  BY PoolAssumption, FS_Subset DEF Taken
<1> QED
  BY <1>1, FS_CardinalityType

\* One more call has an emulator it has not replaced.
LEMMA TakeCounts ==
  ASSUME TypeOK, NEW c \in Callers, pc[c] # "taken", pc' = [pc EXCEPT ![c] = "taken"]
  PROVE  Cardinality(Taken') = Cardinality(Taken) + 1
<1>1. Taken' = Taken \cup {c} /\ c \notin Taken
  BY DEF Taken, TypeOK
<1> QED
  BY <1>1, TakenFinite, FS_AddElement

\* One call fewer does.
LEMMA ReplaceCounts ==
  ASSUME TypeOK, NEW c \in Callers, pc[c] = "taken", pc' = [pc EXCEPT ![c] = "idle"]
  PROVE  Cardinality(Taken') = Cardinality(Taken) - 1
<1>1. Taken' = Taken \ {c} /\ c \in Taken
  BY DEF Taken, TypeOK
<1> QED
  BY <1>1, TakenFinite, FS_RemoveElement

\* The others leave Taken alone.
LEMMA SameTaken ==
  ASSUME TypeOK, NEW c \in Callers, pc[c] # "taken", NEW step, step # "taken", pc' = [pc EXCEPT ![c] = step]
  PROVE  Taken' = Taken
BY DEF Taken, TypeOK

LEMMA PoolInvInit == Init => PoolInv
<1> SUFFICES ASSUME Init PROVE PoolInv
  OBVIOUS
<1>1. Taken = {}
  BY DEF Init, Taken
<1>2. Cardinality(Taken) = 0
  BY <1>1, FS_EmptySet
<1> QED
  BY <1>2, PoolAssumption DEF Init, PoolInv, TypeOK, Emulators, OneForOne

LEMMA PoolInvStep == PoolInv /\ [Next]_vars => PoolInv'
<1> SUFFICES ASSUME PoolInv, [Next]_vars PROVE PoolInv'
  OBVIOUS
<1> USE PoolAssumption, TakenFinite DEF PoolInv, TypeOK, Emulators, OneForOne
<1>1. CASE Bootstrapped
  <2>1. Taken' = Taken
    BY <1>1 DEF Bootstrapped, Taken
  <2> QED
    BY <1>1, <2>1 DEF Bootstrapped
<1>2. CASE CreateFails
  <2>1. Taken' = Taken
    BY <1>2 DEF CreateFails, Taken
  <2> QED
    BY <1>2, <2>1 DEF CreateFails
<1>3. CASE Add
  <2>1. Taken' = Taken
    BY <1>3 DEF Add, Taken
  <2>2. instances < Size
    BY <1>3 DEF Add
  <2> QED
    BY <1>3, <2>1, <2>2 DEF Add
<1>4. ASSUME NEW c \in Callers, Take(c) PROVE PoolInv'
  <2>1. Cardinality(Taken') = Cardinality(Taken) + 1
    BY <1>4, TakeCounts DEF Take
  <2> QED
    BY <1>4, <2>1 DEF Take
<1>5. ASSUME NEW c \in Callers, Replace(c) PROVE PoolInv'
  <2>1. Cardinality(Taken') = Cardinality(Taken) - 1
    BY <1>5, ReplaceCounts DEF Replace
  <2> QED
    BY <1>5, <2>1 DEF Replace
<1>6. ASSUME NEW c \in Callers, TakeNone(c) \/ BootstrapReturns(c) PROVE PoolInv'
  <2>1. Taken' = Taken
    BY <1>6, SameTaken DEF TakeNone, BootstrapReturns
  <2> QED
    BY <1>6, <2>1 DEF TakeNone, BootstrapReturns
<1>7. CASE UNCHANGED vars
  <2>1. Taken' = Taken
    BY <1>7 DEF vars, Taken
  <2> QED
    BY <1>7, <2>1 DEF vars
<1> QED
  BY <1>1, <1>2, <1>3, <1>4, <1>5, <1>6, <1>7 DEF Next, Create

\* The default branch of add (src/blockchain/pool.go:65-67) is never taken, whatever fails.
THEOREM NeverFullHolds == Spec => []NeverFull
<1>1. PoolInv => NeverFull
  <2> SUFFICES ASSUME PoolInv, adding > 0 PROVE instances < Size
    BY DEF NeverFull
  <2>1. instances + creating + adding + Cardinality(Taken) + failed = Size
    BY DEF PoolInv, OneForOne, Emulators
  <2>2. instances \in Nat /\ creating \in Nat /\ adding \in Nat /\ failed \in Nat /\ Size \in Nat
    BY PoolAssumption DEF PoolInv, TypeOK
  <2> QED
    BY <2>1, <2>2, TakenFinite
<1> QED
  BY <1>1, PoolInvInit, PoolInvStep, PTL DEF Spec

\* For each emulator taken one is created (src/blockchain/pool.go:50-59): the pool is short of
\* those that failed to bootstrap and of no other.
THEOREM OneForOneHolds == Spec => []OneForOne
<1>1. PoolInv => OneForOne
  BY DEF PoolInv
<1> QED
  BY <1>1, PoolInvInit, PoolInvStep, PTL DEF Spec
=============================================================================
