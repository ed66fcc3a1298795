------------------------- MODULE ProjectMutexProofs -------------------------
(***************************************************************************)
(* The map of mutexes gives each project a lock that only readers share,   *)
(* for any number of calls and projects, and so implements ProjectLock.    *)
(***************************************************************************)
EXTENDS ProjectMutex, TLAPS

LEMMA LockInvInit == Init => LockInv
BY MutexAssumption DEF Init, LockInv, TypeOK, MapInv, MutexInv, Known, UnlocksItsOwn, Past, HasLock

\* The steps that leave the map and the mutex a call is bound to alone.
LEMMA SameMap ==
  ASSUME MapInv, UNCHANGED <<pMutex, mut, id>>, \A p \in Procs : Past(p)' => Past(p)
  PROVE  MapInv'
BY DEF MapInv, Past

LEMMA LoadMutexStep ==
  ASSUME LockInv, NEW p \in Procs, LoadMutex(p)
  PROVE  LockInv'
<1> USE MutexAssumption
<1>1. /\ pc[p] = "load" /\ pc' = [pc EXCEPT ![p] = "lock"]
      /\ mut' = [mut EXCEPT ![p] = pMutex'[id[p]]]
      /\ UNCHANGED <<writer, readers, id, mode, deferred>>
  BY DEF LoadMutex, Goto
<1>2. \/ pMutex[id[p]] # NoMutex /\ pMutex' = pMutex
      \/ \E m \in Fresh : pMutex[id[p]] = NoMutex /\ pMutex' = [pMutex EXCEPT ![id[p]] = m]
  BY DEF LoadMutex
<1> DEFINE Grown == /\ pMutex' \in [Ids -> Mutexes \cup {NoMutex}]
                    /\ pMutex'[id[p]] \in Mutexes
                    /\ \A i \in Ids : pMutex[i] # NoMutex => pMutex'[i] = pMutex[i]
                    /\ \A i, j \in Ids : (pMutex'[i] = pMutex'[j] /\ pMutex'[i] # NoMutex) => i = j
<1>3. Grown
  <2>1. CASE pMutex[id[p]] # NoMutex /\ pMutex' = pMutex
    BY <2>1 DEF LockInv, TypeOK, MapInv
  <2>2. ASSUME NEW m \in Fresh, pMutex[id[p]] = NoMutex, pMutex' = [pMutex EXCEPT ![id[p]] = m]
        PROVE  Grown
    <3>1. m \in Mutexes /\ \A i \in Ids : pMutex[i] # m
      BY DEF Fresh, Range, LockInv, TypeOK
    <3> QED
      BY <2>2, <3>1 DEF LockInv, TypeOK, MapInv
  <2> QED
    BY <1>2, <2>1, <2>2
<1>4. TypeOK'
  BY <1>1, <1>3 DEF LockInv, TypeOK
<1>5. MapInv'
  BY <1>1, <1>3 DEF LockInv, TypeOK, MapInv, Past
<1>6. MutexInv' /\ UnlocksItsOwn'
  BY <1>1 DEF LockInv, TypeOK, MutexInv, Known, UnlocksItsOwn, HasLock
<1> QED
  BY <1>4, <1>5, <1>6 DEF LockInv

LEMMA AnnounceStep ==
  ASSUME LockInv, NEW p \in Procs, Announce(p)
  PROVE  LockInv'
<1>1. /\ pc[p] = "lock" /\ mode[p] = "write" /\ writer[mut[p]] = NoProc
      /\ writer' = [writer EXCEPT ![mut[p]] = p] /\ pc' = [pc EXCEPT ![p] = "draining"]
      /\ UNCHANGED <<pMutex, readers, id, mode, mut, deferred>>
  BY DEF Announce, Goto
<1>2. mut[p] \in Mutexes
  BY <1>1 DEF LockInv, MapInv, Past
<1>3. TypeOK'
  BY <1>1 DEF LockInv, TypeOK
<1>4. MapInv'
  BY <1>1, SameMap DEF LockInv, TypeOK, Past
<1>5. \A q \in Procs : writer[mut[q]] = q => mut[q] # mut[p]
  BY <1>1, MutexAssumption
<1>6. MutexInv'
  BY <1>1, <1>2, <1>5 DEF LockInv, TypeOK, MutexInv, Known, HasLock
<1>7. UnlocksItsOwn'
  BY <1>1 DEF LockInv, TypeOK, UnlocksItsOwn
<1> QED
  BY <1>3, <1>4, <1>6, <1>7 DEF LockInv

LEMMA RLockStep ==
  ASSUME LockInv, NEW p \in Procs, RLock(p)
  PROVE  LockInv'
<1>1. /\ pc[p] = "lock" /\ mode[p] = "read"
      /\ UNCHANGED <<pMutex, writer, id, mode, mut, deferred>>
      /\ mut[p] \in Mutexes
  BY DEF RLock, LockInv, MapInv, Past
<1>2. CASE /\ writer[mut[p]] = NoProc
           /\ readers' = [readers EXCEPT ![mut[p]] = @ \cup {p}]
           /\ pc' = [pc EXCEPT ![p] = "locked"]
  <2>1. TypeOK'
    BY <1>1, <1>2 DEF LockInv, TypeOK
  <2>2. MapInv' /\ UnlocksItsOwn'
    BY <1>1, <1>2, SameMap DEF LockInv, TypeOK, Past, UnlocksItsOwn
  <2>3. \A q \in Procs : (HasLock(q) /\ mode[q] = "write") => mut[q] # mut[p]
    BY <1>2, MutexAssumption DEF LockInv, MutexInv, Known, HasLock
  <2>4. MutexInv'
    BY <1>1, <1>2, <2>3 DEF LockInv, TypeOK, MutexInv, Known, HasLock
  <2> QED
    BY <2>1, <2>2, <2>4 DEF LockInv
<1>3. CASE UNCHANGED readers /\ pc' = [pc EXCEPT ![p] = "queued"]
  BY <1>1, <1>3, SameMap DEF LockInv, TypeOK, MutexInv, Known, UnlocksItsOwn, HasLock, Past
<1> QED
  BY <1>2, <1>3 DEF RLock, Goto

LEMMA UnlockStep ==
  ASSUME LockInv, NEW p \in Procs, Unlock(p)
  PROVE  LockInv'
<1> DEFINE m == mut[p]
<1>1. /\ pc[p] = "held" /\ mode[p] = "write" /\ m \in Mutexes /\ deferred[p] = m
      /\ writer' = [writer EXCEPT ![m] = NoProc]
      /\ readers' = [readers EXCEPT ![m] = @ \cup Queue(m)]
      /\ pc' = [q \in Procs |-> IF q = p THEN "idle" ELSE IF q \in Queue(m) THEN "released" ELSE pc[q]]
      /\ mut' = [mut EXCEPT ![p] = NoMutex]
      /\ deferred' = [deferred EXCEPT ![p] = NoMutex]
      /\ UNCHANGED <<pMutex, id, mode>>
  BY DEF Unlock, Forget, LockInv, MapInv, Past, UnlocksItsOwn
<1>2. TypeOK'
  <2>1. Queue(m) \in SUBSET Procs
    BY DEF Queue
  <2>2. pc' \in [Procs -> {"idle", "load", "lock", "draining", "queued", "released", "locked", "held"}]
    BY <1>1 DEF LockInv, TypeOK
  <2>3. readers' \in [Mutexes -> SUBSET Procs]
    BY <1>1, <2>1 DEF LockInv, TypeOK
  <2> QED
    BY <1>1, <2>2, <2>3, MutexAssumption DEF LockInv, TypeOK
<1>3. MapInv'
  BY <1>1 DEF LockInv, TypeOK, MapInv, Past, Queue
<1>4. \A q \in Procs \ {p} : /\ mut'[q] = mut[q] /\ mode'[q] = mode[q]
                            /\ pc'[q] = IF q \in Queue(m) THEN "released" ELSE pc[q]
  BY <1>1 DEF LockInv, TypeOK
<1>5. \A q \in Procs : writer[mut[q]] = q /\ q # p => mut[q] # m
  BY <1>1 DEF LockInv, MutexInv, Known
<1>6. MutexInv'
  <2> SUFFICES ASSUME NEW q \in Procs, q # p PROVE Known(q)'
    BY <1>1 DEF MutexInv, Known, HasLock
  <2>1. CASE q \in Queue(m)
    BY <1>1, <1>4, <2>1 DEF LockInv, TypeOK, MutexInv, Known, HasLock, Queue
  <2>2. CASE q \notin Queue(m)
    <3>1. pc'[q] = pc[q] /\ mut'[q] = mut[q] /\ mode'[q] = mode[q]
      BY <1>4, <2>2
    <3>2. Past(q) => mut[q] \in Mutexes
      BY DEF LockInv, MapInv
    <3>3. (pc[q] \in {"draining", "locked", "held"} /\ mode[q] = "write") => mut[q] # m
      BY <1>5 DEF LockInv, MutexInv, Known
    <3> QED
      BY <1>1, <3>1, <3>2, <3>3 DEF LockInv, TypeOK, MutexInv, Known, HasLock, Past
  <2> QED
    BY <2>1, <2>2
<1>7. UnlocksItsOwn'
  BY <1>1 DEF LockInv, TypeOK, UnlocksItsOwn
<1> QED
  BY <1>2, <1>3, <1>6, <1>7 DEF LockInv

LEMMA RUnlockStep ==
  ASSUME LockInv, NEW p \in Procs, RUnlock(p)
  PROVE  LockInv'
<1>1. /\ pc[p] = "held" /\ mode[p] = "read" /\ mut[p] \in Mutexes
      /\ readers' = [readers EXCEPT ![mut[p]] = @ \ {p}]
      /\ pc' = [pc EXCEPT ![p] = "idle"]
      /\ mut' = [mut EXCEPT ![p] = NoMutex]
      /\ deferred' = [deferred EXCEPT ![p] = NoMutex]
      /\ UNCHANGED <<pMutex, writer, id, mode>>
  BY DEF RUnlock, Forget, Goto, LockInv, MapInv, Past, UnlocksItsOwn
<1>2. TypeOK'
  BY <1>1 DEF LockInv, TypeOK
<1>3. MapInv'
  BY <1>1 DEF LockInv, TypeOK, MapInv, Past
<1>4. MutexInv'
  BY <1>1 DEF LockInv, TypeOK, MapInv, MutexInv, Known, HasLock, Past
<1>5. UnlocksItsOwn'
  BY <1>1 DEF LockInv, TypeOK, UnlocksItsOwn
<1> QED
  BY <1>2, <1>3, <1>4, <1>5 DEF LockInv

LEMMA LockInvStep == LockInv /\ [Next]_vars => LockInv'
<1> SUFFICES ASSUME LockInv, [Next]_vars PROVE LockInv'
  OBVIOUS
<1>1. ASSUME NEW p \in Procs, Call(p) PROVE LockInv'
  BY <1>1 DEF Call, Goto, LockInv, TypeOK, MapInv, MutexInv, Known, UnlocksItsOwn, Past, HasLock
<1>2. ASSUME NEW p \in Procs, Remove(p) PROVE LockInv'
  <2>1. pc[p] = "locked" /\ mut[p] = pMutex[id[p]]
    BY <1>2 DEF Remove, LockInv, MapInv, Past
  <2> QED
    BY <1>2, <2>1, SameMap DEF Remove, Goto, LockInv, TypeOK, MutexInv, Known, UnlocksItsOwn, Past, HasLock
<1>3. ASSUME NEW p \in Procs, Drained(p) \/ Wake(p) PROVE LockInv'
  BY <1>3, SameMap DEF Drained, Wake, Goto, LockInv, TypeOK, MutexInv, Known, UnlocksItsOwn, Past, HasLock
<1>4. CASE UNCHANGED vars
  BY <1>4 DEF vars, LockInv, TypeOK, MapInv, MutexInv, Known, UnlocksItsOwn, Past, HasLock
<1> QED
  BY <1>1, <1>2, <1>3, <1>4, LoadMutexStep, AnnounceStep, RLockStep, UnlockStep, RUnlockStep
     DEF Next, Step

LEMMA ExclusiveInv == LockInv => Exclusive
BY MutexAssumption DEF LockInv, TypeOK, MapInv, MutexInv, Known, Exclusive, Past, HasLock, Modes

\* A call that changes a project holds the project's lock alone, for any number of calls and
\* projects (src/blockchain/mutex.go:37-43).
THEOREM MutualExclusion == Spec => []Exclusive
BY LockInvInit, LockInvStep, ExclusiveInv, PTL DEF Spec

\* The mutex a call unlocks is the one it locked, although it looks it up twice, and what a mutex
\* counts is who holds it (src/blockchain/mutex.go:49-72).
THEOREM LockInvHolds == Spec => []LockInv
BY LockInvInit, LockInvStep, PTL DEF Spec

-----------------------------------------------------------------------------
(* The refinement *)

Holds == [p \in Procs |-> IF HasLock(p) THEN {<<id[p], mode[p]>>} ELSE {}]

\* A step that gives a call the lock is a step of the abstract lock.
LEMMA GetStep ==
  ASSUME LockInv, LockInv', NEW p \in Procs, pc' = [pc EXCEPT ![p] = "locked"], ~HasLock(p),
         UNCHANGED <<id, mode>>
  PROVE  Lock!Get(p, id[p], mode[p])
<1>1. HasLock(p)' /\ \A q \in Procs \ {p} : HasLock(q)' <=> HasLock(q)
  BY DEF HasLock, LockInv, TypeOK
<1>2. Exclusive'
  BY ExclusiveInv, MutexAssumption DEF LockInv, TypeOK, MapInv, MutexInv, Known, Exclusive, Past, HasLock, Modes
<1>3. \A q \in Procs : (q # p /\ HasLock(q) /\ id[q] = id[p]) => (mode[p] = "read" /\ mode[q] = "read")
  BY <1>1, <1>2 DEF Exclusive
<1>4. Holds[p] = {} /\ Holds' = [Holds EXCEPT ![p] = {<<id[p], mode[p]>>}]
  BY <1>1 DEF Holds
<1>5. ASSUME NEW q \in Procs, NEW n \in Modes, <<id[p], n>> \in Holds[q]
      PROVE  mode[p] = "read" /\ n = "read"
  <2>1. q # p /\ HasLock(q) /\ id[q] = id[p] /\ mode[q] = n
    BY <1>5 DEF Holds
  <2> QED
    BY <1>3, <2>1
<1> QED
  BY <1>4, <1>5 DEF Lock!Get, Holds

LEMMA ReleaseStep ==
  ASSUME LockInv, NEW p \in Procs, Unlock(p) \/ RUnlock(p)
  PROVE  Lock!Release(p)
<1>1. HasLock(p) /\ ~HasLock(p)' /\ UNCHANGED <<id, mode>>
  BY DEF Unlock, RUnlock, Forget, Goto, HasLock, LockInv, TypeOK
<1>2. \A q \in Procs \ {p} : HasLock(q)' <=> HasLock(q)
  BY DEF Unlock, RUnlock, Goto, HasLock, LockInv, TypeOK, Queue
<1>3. Holds' = [Holds EXCEPT ![p] = {}] /\ Holds[p] # {}
  BY <1>1, <1>2 DEF Holds
<1> QED
  BY <1>3 DEF Lock!Release, Holds

LEMMA LockSimulation == LockInv /\ LockInv' /\ [Next]_vars => [Lock!Next]_Holds
<1> SUFFICES ASSUME LockInv, LockInv', [Next]_vars PROVE Lock!Next \/ Holds' = Holds
  OBVIOUS
<1>1. ASSUME NEW p \in Procs, Call(p) \/ Announce(p) \/ LoadMutex(p) \/ Remove(p)
      PROVE  Holds' = Holds
  <2>1. /\ \A q \in Procs : HasLock(q)' <=> HasLock(q)
        /\ \A q \in Procs : HasLock(q) => id'[q] = id[q] /\ mode'[q] = mode[q]
    BY <1>1 DEF Call, Announce, LoadMutex, Remove, Goto, HasLock, LockInv, TypeOK
  <2> QED
    BY <2>1 DEF Holds
<1>2. ASSUME NEW p \in Procs, Drained(p) \/ Wake(p) \/ RLock(p)
      PROVE  Lock!Next \/ Holds' = Holds
  <2>1. ~HasLock(p) /\ UNCHANGED <<id, mode>> /\ id[p] \in Ids /\ mode[p] \in Modes
    BY <1>2 DEF Drained, Wake, RLock, HasLock, LockInv, TypeOK
  <2>2. CASE pc' = [pc EXCEPT ![p] = "locked"]
    <3>1. Lock!Get(p, id[p], mode[p])
      BY <2>1, <2>2, GetStep
    <3> QED
      BY <2>1, <3>1 DEF Lock!Next, Lock!Get
  <2>3. CASE pc' = [pc EXCEPT ![p] = "queued"]
    <3>1. \A q \in Procs : HasLock(q)' <=> HasLock(q)
      BY <2>1, <2>3 DEF HasLock, LockInv, TypeOK
    <3> QED
      BY <2>1, <3>1 DEF Holds
  <2>4. pc' = [pc EXCEPT ![p] = "locked"] \/ pc' = [pc EXCEPT ![p] = "queued"]
    BY <1>2 DEF Drained, Wake, RLock, Goto
  <2> QED
    BY <2>2, <2>3, <2>4
<1>3. ASSUME NEW p \in Procs, Unlock(p) \/ RUnlock(p) PROVE Lock!Next
  BY <1>3, ReleaseStep DEF Lock!Next
<1>4. CASE UNCHANGED vars
  BY <1>4 DEF vars, Holds, HasLock
<1> QED
  BY <1>1, <1>2, <1>3, <1>4 DEF Next, Step

\* The lock the operations of Projects take is a readers-writer lock for each project: the
\* abstraction their model rests on (src/blockchain/projects.go:78-79 and its siblings).
THEOREM MutexImplementsLock == Spec => ImplementsLock
<1>1. Init => Lock!Init
  BY DEF Init, Lock!Init, HasLock
<1>2. LockInv /\ LockInv' /\ [Next]_vars => [Lock!Next]_Holds
  BY LockSimulation
<1> QED
  BY <1>1, <1>2, LockInvInit, LockInvStep, PTL DEF Spec, ImplementsLock, Lock!Spec, Holds
=============================================================================
