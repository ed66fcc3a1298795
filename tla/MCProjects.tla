----------------------------- MODULE MCProjects -----------------------------
(* Small instances of Projects for TLC. *)
EXTENDS ProjectsInvariant, TLC

CONSTANTS p1, p2, p3, r1, r2, t1, t2, t3, d1, d2, d3, c1, c2

OneHome == [p \in Procs |-> r1]
TwoHomes == [p \in Procs |-> IF p = p1 THEN r1 ELSE r2]

\* d1 and d2 deploy the same contract, d3 another one.
Contracts ==
  [s \in Txs \cup Deploys |-> CASE s \in {d1, d2} -> c1 [] s = d3 -> c2 [] OTHER -> NoContract]

Symmetry == Permutations(Procs) \cup Permutations(Txs)
=============================================================================
