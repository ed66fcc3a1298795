---------------------------- MODULE ProjectMutex ----------------------------
(***************************************************************************)
(* The lock of each project at one replica (src/blockchain/mutex.go) as    *)
(* the operations of Projects use it:                                      *)
(*                                                                         *)
(*     p.mutex.load(id).Lock()                                             *)
(*     defer p.mutex.remove(id).Unlock()                                   *)
(*                                                                         *)
(* load and remove are critical sections of the map's own mutex, so each   *)
(* is one step; remove is called as soon as the lock is held, and the      *)
(* mutex it returns is unlocked when the operation returns.  The           *)
(* sync.RWMutex is modelled with the steps of its Lock and Unlock: a       *)
(* writer announces itself, readers that come later queue behind it, and   *)
(* its Unlock releases the readers in the queue.                           *)
(***************************************************************************)
EXTENDS Functions

CONSTANTS
  Procs,     \* calls
  Ids,       \* project IDs
  Mutexes,   \* sync.RWMutex objects
  NoMutex,   \* no map entry, or nil
  NoProc     \* no call

Modes == {"read", "write"}

ASSUME MutexAssumption ==
  /\ NoMutex \notin Mutexes
  /\ NoProc \notin Procs

VARIABLES
  pMutex,    \* mutex of each project ID
  writer,    \* the call each mutex has as its writer: the one that announced itself
  readers,   \* the calls each mutex counts as readers
  pc,
  id,        \* project of each call
  mode,      \* RLock or Lock
  mut,       \* the mutex load returned to the call
  deferred   \* the mutex its deferred call unlocks

vars == <<pMutex, writer, readers, pc, id, mode, mut, deferred>>

TypeOK ==
  /\ pMutex \in [Ids -> Mutexes \cup {NoMutex}]
  /\ writer \in [Mutexes -> Procs \cup {NoProc}]
  /\ readers \in [Mutexes -> SUBSET Procs]
  /\ pc \in [Procs -> {"idle", "load", "lock", "draining", "queued", "released", "locked", "held"}]
  /\ id \in [Procs -> Ids]
  /\ mode \in [Procs -> Modes]
  /\ mut \in [Procs -> Mutexes \cup {NoMutex}]
  /\ deferred \in [Procs -> Mutexes \cup {NoMutex}]

Init ==
  /\ pMutex = [i \in Ids |-> NoMutex]
  /\ writer = [m \in Mutexes |-> NoProc]
  /\ readers = [m \in Mutexes |-> {}]
  /\ pc = [p \in Procs |-> "idle"]
  /\ id \in [Procs -> Ids]
  /\ mode \in [Procs -> Modes]
  /\ mut = [p \in Procs |-> NoMutex]
  /\ deferred = [p \in Procs |-> NoMutex]

Goto(p, step) == pc' = [pc EXCEPT ![p] = step]

-----------------------------------------------------------------------------
(* mutex.load and mutex.remove *)

Call(p) ==
  /\ pc[p] = "idle"
  /\ Goto(p, "load")
  /\ \E i \in Ids, m \in Modes :
       /\ id' = [id EXCEPT ![p] = i]
       /\ mode' = [mode EXCEPT ![p] = m]
  /\ UNCHANGED <<pMutex, writer, readers, mut, deferred>>

\* A mutex that neither the map nor a call refers to: a new object.
Fresh == Mutexes \ (Range(pMutex) \cup Range(mut))

\* Mutant of LoadMutex: every call makes a mutex of its own.
LoadMutexAnew(p) ==
  /\ pc[p] = "load"
  /\ \E m \in Fresh : /\ pMutex' = [pMutex EXCEPT ![id[p]] = m]
                      /\ mut' = [mut EXCEPT ![p] = m]
  /\ Goto(p, "lock")
  /\ UNCHANGED <<writer, readers, id, mode, deferred>>

LoadMutex(p) ==
  /\ pc[p] = "load"
  /\ \/ /\ pMutex[id[p]] # NoMutex
        /\ UNCHANGED pMutex
     \/ /\ pMutex[id[p]] = NoMutex
        /\ \E m \in Fresh : pMutex' = [pMutex EXCEPT ![id[p]] = m]
  /\ mut' = [mut EXCEPT ![p] = pMutex'[id[p]]]
  /\ Goto(p, "lock")
  /\ UNCHANGED <<writer, readers, id, mode, deferred>>

\* Mutant of Remove: the entry of the map is deleted, although other calls use the mutex.
RemoveDeletes(p) ==
  /\ pc[p] = "locked"
  /\ Goto(p, "held")
  /\ deferred' = [deferred EXCEPT ![p] = pMutex[id[p]]]
  /\ pMutex' = [pMutex EXCEPT ![id[p]] = NoMutex]
  /\ UNCHANGED <<writer, readers, id, mode, mut>>

Remove(p) ==
  /\ pc[p] = "locked"
  /\ Goto(p, "held")
  /\ deferred' = [deferred EXCEPT ![p] = pMutex[id[p]]]
  /\ UNCHANGED <<pMutex, writer, readers, id, mode, mut>>

-----------------------------------------------------------------------------
(* sync.RWMutex *)

\* Lock: the writers of a mutex queue for its inner mutex, and one announces itself.
Announce(p) ==
  /\ pc[p] = "lock" /\ mode[p] = "write"
  /\ writer[mut[p]] = NoProc
  /\ writer' = [writer EXCEPT ![mut[p]] = p]
  /\ Goto(p, "draining")
  /\ UNCHANGED <<pMutex, readers, id, mode, mut, deferred>>

\* The readers that were there before it are gone.
Drained(p) ==
  /\ pc[p] = "draining"
  /\ readers[mut[p]] = {}
  /\ Goto(p, "locked")
  /\ UNCHANGED <<pMutex, writer, readers, id, mode, mut, deferred>>

RLock(p) ==
  /\ pc[p] = "lock" /\ mode[p] = "read"
  /\ \/ /\ writer[mut[p]] = NoProc
        /\ readers' = [readers EXCEPT ![mut[p]] = @ \cup {p}]
        /\ Goto(p, "locked")
     \/ /\ writer[mut[p]] # NoProc
        /\ Goto(p, "queued")
        /\ UNCHANGED readers
  /\ UNCHANGED <<pMutex, writer, id, mode, mut, deferred>>

\* A reader the writer released runs again.
Wake(p) ==
  /\ pc[p] = "released"
  /\ Goto(p, "locked")
  /\ UNCHANGED <<pMutex, writer, readers, id, mode, mut, deferred>>

Queue(m) == {q \in Procs : pc[q] = "queued" /\ mut[q] = m}

\* The call forgets its mutexes when it returns.
Forget(p) ==
  /\ mut' = [mut EXCEPT ![p] = NoMutex]
  /\ deferred' = [deferred EXCEPT ![p] = NoMutex]
  /\ UNCHANGED <<pMutex, id, mode>>

\* Unlock: the readers in the queue are counted again and will run.
Unlock(p) ==
  LET m == deferred[p] IN
  /\ pc[p] = "held" /\ mode[p] = "write"
  /\ writer' = [writer EXCEPT ![m] = NoProc]
  /\ readers' = [readers EXCEPT ![m] = @ \cup Queue(m)]
  /\ pc' = [q \in Procs |-> IF q = p THEN "idle" ELSE IF q \in Queue(m) THEN "released" ELSE pc[q]]
  /\ Forget(p)

RUnlock(p) ==
  /\ pc[p] = "held" /\ mode[p] = "read"
  /\ readers' = [readers EXCEPT ![deferred[p]] = @ \ {p}]
  /\ Goto(p, "idle")
  /\ UNCHANGED writer
  /\ Forget(p)

-----------------------------------------------------------------------------
Step(p) ==
  \/ LoadMutex(p) \/ Remove(p)
  \/ Drained(p) \/ RLock(p) \/ Wake(p)
  \/ Unlock(p) \/ RUnlock(p)

Next == \E p \in Procs : Call(p) \/ Announce(p) \/ Step(p)

Spec == Init /\ [][Next]_vars

\* Goroutines run, operations return, and the inner mutex of a sync.RWMutex, a sync.Mutex, starves
\* no writer.
Fairness == \A p \in Procs : WF_vars(Step(p)) /\ SF_vars(Announce(p))

FairSpec == Spec /\ Fairness

-----------------------------------------------------------------------------
(* Properties *)

HasLock(p) == pc[p] \in {"locked", "held"}

\* A call that changes a project is the only one past the lock of that project, although every
\* call looks the mutex up in the map by itself, twice.
Exclusive ==
  \A p, q \in Procs :
    (p # q /\ HasLock(p) /\ HasLock(q) /\ id[p] = id[q]) => (mode[p] = "read" /\ mode[q] = "read")

\* The mutex a call unlocks is the one it locked.
UnlocksItsOwn == \A p \in Procs : pc[p] = "held" => deferred[p] = mut[p]

\* Every call gets its lock: neither kind of call starves the other, and nobody waits for a
\* mutex nobody will unlock.
EveryCallLocks == \A p \in Procs : pc[p] = "load" ~> pc[p] = "held"

Lock ==
  INSTANCE ProjectLock WITH
    holds <- [p \in Procs |-> IF HasLock(p) THEN {<<id[p], mode[p]>>} ELSE {}]

\* The map of mutexes implements a lock for each project.
ImplementsLock == Lock!Spec

-----------------------------------------------------------------------------
(* The inductive invariant *)

Past(p) == pc[p] \notin {"idle", "load"}

\* The map gives every call the same mutex for a project, and different projects different ones.
MapInv ==
  /\ \A p \in Procs : Past(p) => mut[p] = pMutex[id[p]] /\ mut[p] \in Mutexes
  /\ \A i, j \in Ids : (pMutex[i] = pMutex[j] /\ pMutex[i] # NoMutex) => i = j

\* What its mutex knows of a call.
Known(p) ==
  /\ pc[p] \in {"draining", "locked", "held"} /\ mode[p] = "write" => writer[mut[p]] = p
  /\ pc[p] \in {"released", "locked", "held"} /\ mode[p] = "read" => p \in readers[mut[p]]
  /\ pc[p] \in {"queued", "released"} => mode[p] = "read"
  /\ pc[p] = "draining" => mode[p] = "write"
  /\ HasLock(p) /\ mode[p] = "write" => readers[mut[p]] = {}

MutexInv == \A p \in Procs : Known(p)

LockInv ==
  /\ TypeOK
  /\ MapInv
  /\ MutexInv
  /\ UnlocksItsOwn
=============================================================================
