------------------------------ MODULE MCUsers ------------------------------
(* A small instance of Users for TLC. *)
EXTENDS Users, TLC

CONSTANTS c1, old

Ask(f, g) == (1 :> f) @@ (2 :> g)

\* A page asks twice for the list of projects.
AskedQueries == {Ask("projectList", "projectList")}

\* A batch of mutations changes a project and creates one, or creates two.
AskedMutations == {Ask("updateProject", "createProject"), Ask("createProject", "createProject")}

\* c1 used the playground before there were users.
SecretsHeld == [c \in Clients |-> IF c = c1 THEN {old} ELSE {}]
=============================================================================
