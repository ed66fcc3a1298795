------------------------------ MODULE MCFiles ------------------------------
(* A small instance of Files for TLC. *)
EXTENDS Files, TLC

\* A project that starts with one contract.
OneContract == [t \in Types |-> IF t = "contract" THEN 1 ELSE 0]

Symmetry == Permutations(Procs) \cup Permutations(Titles)
=============================================================================
