--------------------------- MODULE MCAnalystAgent ---------------------------
(***************************************************************************)
(* Model values and symmetry for the runs of AnalystAgent.                 *)
(***************************************************************************)
EXTENDS AnalystAgent, TLC

(* Investigations are interchangeable, and so are sources and agents.      *)
Symmetry == Permutations(Inv) \cup Permutations(Source) \cup Permutations(Agent)

=============================================================================
