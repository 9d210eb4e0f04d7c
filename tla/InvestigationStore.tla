-------------------------- MODULE InvestigationStore --------------------------
(***************************************************************************)
(* The rows PostgreSQL keeps of each investigation, and the statements     *)
(* core/lifecycle.py, core/store.py and analyst/grounding.py run on them.  *)
(* Each operator is one statement or one transaction, hence one atomic     *)
(* step.  An observation is the source it came from, a result the set of   *)
(* observations it cites; updated_at is abstracted to whether it is older  *)
(* than the sweeper's threshold.                                           *)
(***************************************************************************)
EXTENDS InvestigationStatus

VARIABLES
  status,     \* investigations.status; "absent" until the row exists
  stale,      \* updated_at is older than sweeper_stale_after_seconds
  evidence,   \* the sources with an observation row
  marked,     \* enrichment_status has been written
  result,     \* the observations the stored result cites; {} is no result
  linked      \* the edges correlation derives are in the graph

rows == <<status, stale, evidence, marked, result, linked>>

Source == {"dns", "http"}

RowsTypeOK ==
  /\ status \in [Inv -> Status \cup {"absent"}]
  /\ stale \in [Inv -> BOOLEAN]
  /\ evidence \in [Inv -> SUBSET Source]
  /\ marked \in [Inv -> BOOLEAN]
  /\ result \in [Inv -> SUBSET Source]
  /\ linked \in [Inv -> BOOLEAN]

RowsInit ==
  /\ status = [i \in Inv |-> "absent"]
  /\ stale = [i \in Inv |-> FALSE]
  /\ evidence = [i \in Inv |-> {}]
  /\ marked = [i \in Inv |-> FALSE]
  /\ result = [i \in Inv |-> {}]
  /\ linked = [i \in Inv |-> FALSE]

(* UPDATE ... SET status, updated_at = now() WHERE status IN (from).       *)
MoveTo(i, from, target) ==
  /\ status' = IF status[i] \in from
               THEN [status EXCEPT ![i] = target] ELSE status
  /\ stale'  = IF status[i] \in from
               THEN [stale EXCEPT ![i] = FALSE] ELSE stale
  /\ UNCHANGED <<evidence, marked, result, linked>>

Insert(i) == MoveTo(i, {"absent"}, "pending")

Advance(i, expected, target) == MoveTo(i, {expected}, target)

AdvanceOrResume(i, expected, working) == MoveTo(i, {expected, working}, working)

(* Mutant of MarkFailed: terminal investigations fail too.                 *)
MarkFailedAlways(i) == MoveTo(i, Status, "failed")

(* status NOT IN ('complete', 'failed', 'cancelled')                       *)
MarkFailed(i) == MoveTo(i, Active, "failed")

MarkCancelled(i) == MoveTo(i, Active, "cancelled")

(* One row for each (investigation, source); a second pass overwrites it.  *)
SaveObservation(i, source) ==
  /\ evidence' = [evidence EXCEPT ![i] = @ \cup {source}]
  /\ UNCHANGED <<status, stale, marked, result, linked>>

SetEnrichmentStatus(i) ==
  /\ marked' = [marked EXCEPT ![i] = TRUE]
  /\ stale' = [stale EXCEPT ![i] = FALSE]
  /\ UNCHANGED <<status, evidence, result, linked>>

(* What verify() lets through: at least one citation, and each of them an  *)
(* observation collected for this very investigation.                      *)
Grounded(i, cited) == cited # {} /\ cited \subseteq evidence[i]

(* Mutant of PersistResult: a later result replaces the first.             *)
PersistResultAnew(i, cited) ==
  /\ result' = [result EXCEPT ![i] = cited]
  /\ UNCHANGED <<status, stale, evidence, marked, linked>>

(* INSERT ... ON CONFLICT DO NOTHING: the first result stays.              *)
PersistResult(i, cited) ==
  /\ result' = IF result[i] = {} THEN [result EXCEPT ![i] = cited] ELSE result
  /\ UNCHANGED <<status, stale, evidence, marked, linked>>

CreateRelationships(i) ==
  /\ linked' = [linked EXCEPT ![i] = TRUE]
  /\ UNCHANGED <<status, stale, evidence, marked, result>>

(* The sweeper's touch, whatever the status has become.                    *)
Touch(i) ==
  /\ stale' = [stale EXCEPT ![i] = FALSE]
  /\ UNCHANGED <<status, evidence, marked, result, linked>>

(* updated_at falls behind the threshold.                                  *)
Age(i) ==
  /\ status[i] \in Active
  /\ ~stale[i]
  /\ stale' = [stale EXCEPT ![i] = TRUE]
  /\ UNCHANGED <<status, evidence, marked, result, linked>>

=============================================================================
