------------------------------- MODULE Sweeper -------------------------------
(***************************************************************************)
(* The sweeper process of workers/sweeper.py.  It selects active           *)
(* investigations whose row has not been touched for a while and, for each *)
(* of them, touches the row and publishes a task to the stream of the      *)
(* status it selected, which may be out of date by then.                   *)
(***************************************************************************)
EXTENDS InvestigationStore, TaskStream

CONSTANT SweepBatch     \* sweeper_batch_size

ASSUME SweepBatchIsPositive == SweepBatch \in Nat \ {0}

VARIABLES
  backlog,    \* the rows fetched and not yet looked at
  touched     \* the row between its UPDATE and its publish, if any

sweeper == <<backlog, touched>>

SweepRow == [inv : Inv, status : Active]

SweeperTypeOK == backlog \subseteq SweepRow /\ touched \subseteq SweepRow

SweeperInit == backlog = {} /\ touched = {}

(* STAGE_RECOVERY                                                          *)
RecoveryStream(st) ==
  CASE st \in {"pending", "enriching"} -> "enrich"
    [] st = "analyzing"                -> "analyze"
    [] st = "correlating"              -> "correlate"

(* Mutant of StaleRows: only investigations that were started.             *)
StartedStaleRows ==
  {i \in Inv : status[i] \in Active \ {"pending"} /\ stale[i]}

StaleRows == {i \in Inv : status[i] \in Active /\ stale[i]}

(* STALE_QUERY: the oldest SweepBatch of them, in whatever order they are. *)
SweepFetch ==
  /\ backlog = {} /\ touched = {}
  /\ \E chosen \in SUBSET StaleRows :
       /\ chosen # {}
       /\ Cardinality(chosen) <= SweepBatch
       /\ chosen = StaleRows \/ Cardinality(chosen) = SweepBatch
       /\ backlog' = {[inv |-> i, status |-> status[i]] : i \in chosen}
  /\ UNCHANGED <<touched, rows, streamVars>>

(* Mutant of SweepTouch: updated_at is left alone.                         *)
SweepWithoutTouch ==
  /\ touched = {}
  /\ \E r \in backlog : touched' = {r} /\ backlog' = backlog \ {r}
  /\ UNCHANGED <<rows, streamVars>>

SweepTouch ==
  /\ touched = {}
  /\ \E r \in backlog :
       /\ Touch(r.inv)
       /\ touched' = {r}
       /\ backlog' = backlog \ {r}
  /\ UNCHANGED streamVars

SweepPublish ==
  /\ \E r \in touched : Xadd(RecoveryStream(r.status), r.inv)
  /\ touched' = {}
  /\ UNCHANGED <<backlog, rows>>

SweepStep == SweepFetch \/ SweepTouch \/ SweepPublish

(* An exception ends the sweep, or the process dies: the rows it had not   *)
(* come to are left for the next sweep.                                    *)
SweepAborts ==
  /\ backlog \cup touched # {}
  /\ backlog' = {} /\ touched' = {}
  /\ UNCHANGED <<rows, streamVars>>

=============================================================================
