------------------------------ MODULE Lifecycle ------------------------------
(***************************************************************************)
(* What core/lifecycle.py promises of one investigation, whoever writes    *)
(* its row: it is created pending and from then on every change of its     *)
(* status is one of VALID_TRANSITIONS.  Pipeline is shown to implement     *)
(* this specification.                                                     *)
(***************************************************************************)
EXTENDS InvestigationStatus

VARIABLE status     \* "absent" until the row is inserted

Init == status = [i \in Inv |-> "absent"]

Create(i) ==
  /\ status[i] = "absent"
  /\ status' = [status EXCEPT ![i] = "pending"]

Move(i) ==
  \E target \in Status :
    /\ status[i] \in Active
    /\ IsValid(status[i], target)
    /\ status' = [status EXCEPT ![i] = target]

Next == \E i \in Inv : Create(i) \/ Move(i)

Spec == Init /\ [][Next]_status

=============================================================================
