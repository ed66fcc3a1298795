----------------------------- MODULE FlowKitPool -----------------------------
(***************************************************************************)
(* The pool of bootstrapped emulators a replica keeps for the projects     *)
(* that need a new one (src/blockchain/pool.go): a buffered channel, the   *)
(* goroutines that fill it, and the calls of new.                          *)
(*                                                                         *)
(* Only the number of emulators matters here, so the goroutines of create  *)
(* are counted and not named.                                              *)
(***************************************************************************)
EXTENDS Integers, FiniteSets

CONSTANTS
  Size,        \* capacity of the channel: 10 in projects.go
  Callers,     \* loads that may ask for an emulator at once
  MaxFailures  \* emulators that may fail to bootstrap

ASSUME PoolAssumption ==
  /\ Size \in Nat \ {0}
  /\ IsFiniteSet(Callers)
  /\ MaxFailures \in Nat

VARIABLES
  instances,  \* emulators in the channel
  creating,   \* goroutines of create that bootstrap an emulator
  adding,     \* goroutines of create that have one to add
  pc,         \* what each call of new is doing
  failed      \* emulators that failed to bootstrap

vars == <<instances, creating, adding, pc, failed>>

\* The calls that took an emulator and have not started the goroutine that replaces it.
Taken == {c \in Callers : pc[c] = "taken"}

TypeOK ==
  /\ instances \in 0..Size
  /\ creating \in Nat
  /\ adding \in Nat
  /\ pc \in [Callers -> {"idle", "taken", "bootstrapping"}]
  /\ failed \in Nat

\* Mutant of Init: one goroutine too many.
InitWithOneMore ==
  /\ instances = 0
  /\ creating = Size + 1
  /\ adding = 0
  /\ pc = [c \in Callers |-> "idle"]
  /\ failed = 0

\* newFlowKitPool: an empty channel, and a goroutine for each of its places.
Init ==
  /\ instances = 0
  /\ creating = Size
  /\ adding = 0
  /\ pc = [c \in Callers |-> "idle"]
  /\ failed = 0

-----------------------------------------------------------------------------
\* create has its emulator, and is about to add it.
Bootstrapped ==
  /\ creating > 0
  /\ creating' = creating - 1
  /\ adding' = adding + 1
  /\ UNCHANGED <<instances, pc, failed>>

\* create gives up; nothing tries again.
CreateFails ==
  /\ failed < MaxFailures
  /\ creating > 0
  /\ creating' = creating - 1
  /\ failed' = failed + 1
  /\ UNCHANGED <<instances, adding, pc>>

\* add drops an emulator the channel has no place for.
Add ==
  /\ adding > 0
  /\ adding' = adding - 1
  /\ instances' = IF instances < Size THEN instances + 1 ELSE instances
  /\ UNCHANGED <<creating, pc, failed>>

\* new receives from the channel.
Take(c) ==
  /\ pc[c] = "idle"
  /\ instances > 0
  /\ instances' = instances - 1
  /\ pc' = [pc EXCEPT ![c] = "taken"]
  /\ UNCHANGED <<creating, adding, failed>>

\* Mutant of Replace: no emulator is created for the one taken.
ReplaceNone(c) ==
  /\ pc[c] = "taken"
  /\ pc' = [pc EXCEPT ![c] = "idle"]
  /\ UNCHANGED <<instances, creating, adding, failed>>

\* new starts the goroutine that replaces the emulator, and returns it.
Replace(c) ==
  /\ pc[c] = "taken"
  /\ pc' = [pc EXCEPT ![c] = "idle"]
  /\ creating' = creating + 1
  /\ UNCHANGED <<instances, adding, failed>>

\* Mutant of TakeNone: one is created although none was taken.
TakeNoneReplaced(c) ==
  /\ pc[c] = "idle"
  /\ instances = 0
  /\ pc' = [pc EXCEPT ![c] = "taken"]
  /\ UNCHANGED <<instances, creating, adding, failed>>

\* The channel is empty: new bootstraps an emulator itself.
TakeNone(c) ==
  /\ pc[c] = "idle"
  /\ instances = 0
  /\ pc' = [pc EXCEPT ![c] = "bootstrapping"]
  /\ UNCHANGED <<instances, creating, adding, failed>>

\* It returns that emulator, or the error.
BootstrapReturns(c) ==
  /\ pc[c] = "bootstrapping"
  /\ pc' = [pc EXCEPT ![c] = "idle"]
  /\ UNCHANGED <<instances, creating, adding, failed>>

Create == Bootstrapped \/ CreateFails \/ Add

Next ==
  \/ Create
  \/ \E c \in Callers : Take(c) \/ Replace(c) \/ TakeNone(c) \/ BootstrapReturns(c)

Spec == Init /\ [][Next]_vars

\* Goroutines run: emulators are bootstrapped and added, and a call of new goes on. Nothing makes
\* a load ask for an emulator.
Fairness ==
  /\ WF_vars(Bootstrapped \/ CreateFails)
  /\ WF_vars(Add)
  /\ \A c \in Callers : WF_vars(Replace(c))

FairSpec == Spec /\ Fairness

-----------------------------------------------------------------------------
(* Properties *)

Emulators == instances + creating + adding + Cardinality(Taken)

\* An emulator that was bootstrapped finds a place in the channel: the default branch of add,
\* "shouldn't happen since we take one and create one", is never taken.
NeverFull == adding > 0 => instances < Size

\* For every emulator taken one is created: the pool is short of those that failed to bootstrap,
\* which nothing tries again, and of no other.
OneForOne == Emulators + failed = Size

\* An emptied pool fills again, unless as many emulators failed as it has places: emulators are
\* prepared ahead of the loads that need them.
Refills == (instances = 0 /\ MaxFailures < Size) ~> instances > 0

\* The inductive form of NeverFull and OneForOne.
PoolInv == TypeOK /\ OneForOne
=============================================================================
