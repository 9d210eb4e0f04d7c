----------------------------- MODULE MCPipeline -----------------------------
(***************************************************************************)
(* Model values and symmetry for the runs of Pipeline.                     *)
(***************************************************************************)
EXTENDS Pipeline, TLC

(* Investigations are interchangeable, and so are the workers of a stage.  *)
Symmetry ==
  Permutations(Inv) \cup Permutations(Enricher)
    \cup Permutations(Analyst) \cup Permutations(Correlator)

=============================================================================
