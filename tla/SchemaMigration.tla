--------------------------- MODULE SchemaMigration ---------------------------
(***************************************************************************)
(* The one-shot service of migrations/run.py and what docker-compose.yml   *)
(* makes of it: the files an image ships are applied in order, each in one *)
(* transaction with the row that records it, and services start only after *)
(* a run that succeeded.  A run may die anywhere and be started again, by  *)
(* Compose or by hand beside it; a later image ships more files.           *)
(***************************************************************************)
EXTENDS Integers, Sequences

CONSTANTS
  Files,      \* the migrations in filename order
  Runner      \* runs of the migration that may overlap

ASSUME FilesAreDistinct ==
  /\ Files \in Seq(STRING) /\ Files # <<>>
  /\ \A m, n \in DOMAIN Files : Files[m] = Files[n] => m = n

VARIABLES
  ledger,     \* the filenames in schema_migrations
  applied,    \* the files whose statements took effect, in that order
  shipped,    \* how many of Files the deployed image holds
  rstep,      \* rstep[r]: where run r is in main()
  pending,    \* pending[r]: the files it has still to apply, as their positions
  serving     \* the image the services run, by what it ships; 0 before any

schemaVars == <<ledger, applied, shipped, rstep, pending, serving>>

Ended == {"idle", "succeeded", "failed"}

Recorded == {applied[n] : n \in DOMAIN applied}

SchemaTypeOK ==
  /\ ledger \subseteq {Files[n] : n \in DOMAIN Files}
  /\ applied \in Seq(STRING)
  /\ shipped \in 1 .. Len(Files)
  /\ rstep \in [Runner -> Ended \cup {"list", "apply"}]
  /\ pending \in [Runner -> SUBSET DOMAIN Files]
  /\ serving \in 0 .. Len(Files)

SchemaInit ==
  /\ ledger = {} /\ applied = <<>>
  /\ shipped = 1
  /\ rstep = [r \in Runner |-> "idle"]
  /\ pending = [r \in Runner |-> {}]
  /\ serving = 0

StartRun(r) ==
  /\ rstep[r] \in Ended
  /\ rstep' = [rstep EXCEPT ![r] = "list"]
  /\ UNCHANGED <<ledger, applied, shipped, pending, serving>>

(* The shipped files that are not recorded.                                *)
ListPending(r) ==
  /\ rstep[r] = "list"
  /\ pending' = [pending EXCEPT ![r] = {n \in 1 .. shipped : Files[n] \notin ledger}]
  /\ rstep' = [rstep EXCEPT ![r] = "apply"]
  /\ UNCHANGED <<ledger, applied, shipped, serving>>

RunFails(r) ==
  /\ rstep' = [rstep EXCEPT ![r] = "failed"]
  /\ pending' = [pending EXCEPT ![r] = {}]
  /\ UNCHANGED <<ledger, applied, shipped, serving>>

(* The one file of a run whose turn it is: they are sorted by name.        *)
InTurn(r, n) == n \in pending[r] /\ \A m \in pending[r] : n <= m

(* Mutant of ApplyNext: no transaction around the file and its record.     *)
ApplyNextUnrecorded(r) ==
  /\ rstep[r] = "apply"
  /\ \E n \in pending[r] :
       /\ InTurn(r, n) /\ Files[n] \notin ledger
       /\ applied' = Append(applied, Files[n])
       /\ \/ ledger' = ledger \cup {Files[n]} /\ UNCHANGED rstep
          \/ rstep' = [rstep EXCEPT ![r] = "failed"] /\ UNCHANGED ledger
       /\ pending' = [pending EXCEPT ![r] = @ \ {n}]
  /\ UNCHANGED <<shipped, serving>>

(* One transaction.  Where another run was faster, the filename is taken   *)
(* and the statements are rolled back.                                     *)
ApplyNext(r) ==
  /\ rstep[r] = "apply"
  /\ \E n \in pending[r] :
       /\ InTurn(r, n)
       /\ IF Files[n] \in ledger
          THEN RunFails(r)
          ELSE /\ applied' = Append(applied, Files[n])
               /\ ledger' = ledger \cup {Files[n]}
               /\ pending' = [pending EXCEPT ![r] = @ \ {n}]
               /\ UNCHANGED <<shipped, rstep, serving>>

(* The seed is loaded, or skipped, and the exit status is zero.            *)
FinishRun(r) ==
  /\ rstep[r] = "apply" /\ pending[r] = {}
  /\ rstep' = [rstep EXCEPT ![r] = "succeeded"]
  /\ UNCHANGED <<ledger, applied, shipped, pending, serving>>

(* The connection, a statement or the seed fails, or the process dies.     *)
AbortRun(r) ==
  /\ rstep[r] \notin Ended
  /\ RunFails(r)

(* Mutant of StartServices: they wait for the run to start only.           *)
StartServicesBeside ==
  /\ \E r \in Runner : rstep[r] # "idle"
  /\ serving' = shipped
  /\ UNCHANGED <<ledger, applied, shipped, rstep, pending>>

(* service_completed_successfully                                          *)
StartServices ==
  /\ \E r \in Runner : rstep[r] = "succeeded"
  /\ serving' = shipped
  /\ UNCHANGED <<ledger, applied, shipped, rstep, pending>>

(* A new image is deployed: its services wait for a run of its own.        *)
Upgrade ==
  /\ shipped < Len(Files)
  /\ \A r \in Runner : rstep[r] \in Ended
  /\ shipped' = shipped + 1
  /\ rstep' = [r \in Runner |-> "idle"]
  /\ UNCHANGED <<ledger, applied, pending, serving>>

RunStep(r) ==
  StartRun(r) \/ ListPending(r) \/ ApplyNext(r) \/ FinishRun(r) \/ AbortRun(r)

SchemaNext == (\E r \in Runner : RunStep(r)) \/ StartServices \/ Upgrade

SchemaSpec == SchemaInit /\ [][SchemaNext]_schemaVars

-----------------------------------------------------------------------------
(* Properties.                                                             *)

(* run.py:1: "in filename order, exactly once each", wherever a run dies   *)
(* and is started again; what is recorded is what was applied.  The run of *)
(* TLC has one Runner; that two of them may overlap is what the theorem    *)
(* MigrationsApplyOnceInOrder adds.                                        *)
AppliedOnceInOrder ==
  /\ applied = SubSeq(Files, 1, Len(applied))
  /\ ledger = Recorded

(* No service starts on a schema older than the one it was built for.      *)
ServicesFindSchema == \A n \in 1 .. serving : Files[n] \in ledger
=============================================================================
