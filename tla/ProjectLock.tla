----------------------------- MODULE ProjectLock -----------------------------
(***************************************************************************)
(* What the operations of Projects take for granted of their lock: for     *)
(* each project a lock that many readers hold at once, or one writer       *)
(* alone.  Acquire, Holding and MayLock of module Projects are this lock   *)
(* for one project.                                                        *)
(***************************************************************************)
CONSTANTS Procs, Ids, Modes

VARIABLE holds    \* the locks each call holds: pairs of a project and a mode

Init == holds = [p \in Procs |-> {}]

\* A call gets the lock of a project that no other call holds, or that only readers hold.
Get(p, i, m) ==
  /\ holds[p] = {}
  /\ \A q \in Procs : \A n \in Modes : <<i, n>> \in holds[q] => (m = "read" /\ n = "read")
  /\ holds' = [holds EXCEPT ![p] = {<<i, m>>}]

Release(p) ==
  /\ holds[p] # {}
  /\ holds' = [holds EXCEPT ![p] = {}]

Next == \E p \in Procs : Release(p) \/ \E i \in Ids, m \in Modes : Get(p, i, m)

Spec == Init /\ [][Next]_holds
=============================================================================
