----------------------------- MODULE Deployment -----------------------------
(***************************************************************************)
(* What runs around the pipeline, in one system: the migration that gates  *)
(* all services, the rate limit that the API replicas share and the        *)
(* histogram that the workers of a stage share.                            *)
(***************************************************************************)
EXTENDS SchemaMigration, RateLimit, StageMetrics

vars == <<schemaVars, limitVars, metricsVars>>

Init == SchemaInit /\ LimitInit /\ MetricsInit

Migrate == SchemaNext /\ UNCHANGED <<limitVars, metricsVars>>

(* The API and the workers are services: they start after the migration.   *)
Admit == serving > 0 /\ LimitNext /\ UNCHANGED <<schemaVars, metricsVars>>

Measure == serving > 0 /\ MetricsNext /\ UNCHANGED <<schemaVars, limitVars>>

Next == Migrate \/ Admit \/ Measure

Spec == Init /\ [][Next]_vars
=============================================================================
