------------------------- MODULE InvestigationStatus -------------------------
(***************************************************************************)
(* The status of an investigation and the transitions core/lifecycle.py    *)
(* declares legal.  Pure definitions: the pipeline's modules and the       *)
(* abstract life cycle both extend this module.                            *)
(***************************************************************************)

CONSTANT Inv        \* the investigations that may be submitted

Active == {"pending", "enriching", "analyzing", "correlating"}

Terminal == {"complete", "failed", "cancelled"}

Status == Active \cup Terminal

(* VALID_TRANSITIONS: an active status has one successor, and may always   *)
(* fail or be cancelled; a terminal one has none.                          *)
ValidTransitions(source) ==
  CASE source = "pending"     -> {"enriching", "failed", "cancelled"}
    [] source = "enriching"   -> {"analyzing", "failed", "cancelled"}
    [] source = "analyzing"   -> {"correlating", "failed", "cancelled"}
    [] source = "correlating" -> {"complete", "failed", "cancelled"}
    [] OTHER                  -> {}

IsValid(source, target) == target \in ValidTransitions(source)

=============================================================================
