---------------------------- MODULE MCCollectors ----------------------------
(* Small instances of Collectors: two names, and a literal for an address  *)
(* that may be connected to and for one that may not.                      *)
EXTENDS Collectors

CONSTANTS h1, h2, good, bad, a1, a2, b1

MCHost == {h1, h2, good, bad}

MCLiteralAddress == [h \in {good, bad} |-> IF h = good THEN a1 ELSE b1]
=============================================================================
