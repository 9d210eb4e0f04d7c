---------------------------- MODULE MCDeployment ----------------------------
(* Small instances of Deployment.                                          *)
EXTENDS Deployment, TLC

MCFiles == <<"001_initial.sql", "002_fixes.sql">>

MCBounds == <<1, 3>>

(* The replicas are interchangeable, and so are workers and runs.          *)
Symmetry == Permutations(Replica) \cup Permutations(Observer) \cup Permutations(Runner)
=============================================================================
