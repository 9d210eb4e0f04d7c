------------------------------ MODULE SubmitApi ------------------------------
(***************************************************************************)
(* The write side of api/routes/investigations.py: submit() inserts a row  *)
(* and then publishes the first task, cancel() moves the row to cancelled. *)
(***************************************************************************)
EXTENDS InvestigationStore, TaskStream

VARIABLE api    \* how far the request that submits each investigation got

ApiSteps == {"none", "inserted", "published", "lost"}

ApiTypeOK == api \in [Inv -> ApiSteps]

ApiInit == api = [i \in Inv |-> "none"]

Submit(i) ==
  /\ api[i] = "none"
  /\ Insert(i)
  /\ api' = [api EXCEPT ![i] = "inserted"]
  /\ UNCHANGED streamVars

PublishFirst(i) ==
  /\ api[i] = "inserted"
  /\ Xadd("enrich", i)
  /\ api' = [api EXCEPT ![i] = "published"]
  /\ UNCHANGED rows

(* Redis is unreachable, or the API dies here.  The insert is not undone.  *)
PublishFails(i) ==
  /\ api[i] = "inserted"
  /\ api' = [api EXCEPT ![i] = "lost"]
  /\ UNCHANGED <<rows, streamVars>>

(* A request on a terminal investigation is answered 409, on an unknown    *)
(* one 404; neither changes anything.                                      *)
Cancel(i) ==
  /\ status[i] \in Active
  /\ MarkCancelled(i)
  /\ UNCHANGED <<api, streamVars>>

=============================================================================
