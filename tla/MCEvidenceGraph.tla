-------------------------- MODULE MCEvidenceGraph --------------------------
(* Small instances of EvidenceGraph and of the views of it.                *)
EXTENDS EvidenceViews

CONSTANTS i1, i2, h1, h2

(* A URL and a domain; the redirects of the first may lead to the second.  *)
MCHostOf == [i \in Inv |-> IF i = i1 THEN h1 ELSE h2]

MCUrlInv == {i1}

(* Workers of a stage are interchangeable.                                 *)
Symmetry == Permutations(Enricher) \cup Permutations(Correlator)
=============================================================================
