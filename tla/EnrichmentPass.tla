--------------------------- MODULE EnrichmentPass ---------------------------
(***************************************************************************)
(* The handle() of workers/enrichment.py, run by several workers.  One     *)
(* pass asks both collectors, then writes what it found statement by       *)
(* statement.  A pass may be repeated, because it raised, because its      *)
(* worker died before acknowledging the task, or because the task outlived *)
(* its reclaim threshold and a second worker took it over.                 *)
(***************************************************************************)
EXTENDS EvidenceStore

CONSTANTS
  Enricher,         \* the enrichment workers
  MaxRedeliveries   \* enrichment tasks delivered again after a death or overrun

ASSUME RedeliveriesAreBounded == MaxRedeliveries \in Nat

VARIABLES
  estep,        \* estep[e]: where worker e is in handle()
  esubject,     \* esubject[e]: the investigation it works on
  found,        \* found[e]: what the collectors returned, by source
  toRecord,     \* toRecord[e]: addresses still to become entities
  enriched,     \* investigations whose analyze task was published
  settled,      \* investigations whose enrich task was acknowledged
  redeliveries

passVars == <<estep, esubject, found, toRecord>>

enrichmentVars == <<passVars, enriched, settled, redeliveries>>

PassSteps ==
  {"idle", "collect", "primary", "dns", "http", "addresses", "summary", "publish", "ack"}

Nothing == [s \in Source |-> NoRow]

PassTypeOK ==
  /\ estep \in [Enricher -> PassSteps]
  /\ esubject \in [Enricher -> Inv]
  /\ \A e \in Enricher : \A s \in Source :
       found[e][s] \in Outcome(esubject[e], s) \cup {NoRow}
  /\ toRecord \in [Enricher -> SUBSET Address]
  /\ enriched \subseteq Inv /\ settled \subseteq Inv
  /\ redeliveries \in 0 .. MaxRedeliveries

PassInit ==
  /\ estep = [e \in Enricher |-> "idle"]
  /\ esubject \in [Enricher -> Inv]
  /\ found = [e \in Enricher |-> Nothing]
  /\ toRecord = [e \in Enricher |-> {}]
  /\ enriched = {} /\ settled = {}
  /\ redeliveries = 0

UnderWay(i) == \E e \in Enricher : estep[e] # "idle" /\ esubject[e] = i

ToStep(e, l) ==
  /\ estep' = [estep EXCEPT ![e] = l]
  /\ UNCHANGED <<esubject, found, toRecord, enriched, settled, redeliveries>>

(* A pass is over, whatever came of it.                                    *)
Leave(e) ==
  /\ estep' = [estep EXCEPT ![e] = "idle"]
  /\ found' = [found EXCEPT ![e] = Nothing]
  /\ toRecord' = [toRecord EXCEPT ![e] = {}]
  /\ UNCHANGED <<esubject, enriched, redeliveries>>

(* The task of i is delivered.  As long as no worker has died with it and  *)
(* it has not outlived its threshold, only one pass is under way and none  *)
(* follows the one that published.                                         *)
StartPass(e) ==
  /\ estep[e] = "idle"
  /\ \E i \in Inv \ settled :
       /\ AdvanceOrResume(i, "pending", "enriching")
       /\ esubject' = [esubject EXCEPT ![e] = i]
       /\ IF UnderWay(i) \/ i \in enriched
          THEN /\ redeliveries < MaxRedeliveries
               /\ redeliveries' = redeliveries + 1
          ELSE UNCHANGED redeliveries
  /\ estep' = [estep EXCEPT ![e] = "collect"]
  /\ UNCHANGED <<found, toRecord, enriched, settled>>

(* asyncio.gather with return_exceptions: an outcome of each source.       *)
CollectBoth(e) ==
  /\ estep[e] = "collect"
  /\ \E d \in Outcome(esubject[e], "dns"), h \in Outcome(esubject[e], "http") :
       /\ found' = [found EXCEPT ![e] = [s \in Source |-> IF s = "dns" THEN d ELSE h]]
       /\ toRecord' = [toRecord EXCEPT ![e] = d.addresses \cup h.addresses]
  /\ estep' = [estep EXCEPT ![e] = "primary"]
  /\ UNCHANGED <<esubject, enriched, settled, redeliveries, evidenceVars>>

UpsertPrimary(e) ==
  /\ estep[e] = "primary"
  /\ UpsertEntities(PrimaryEntities(esubject[e]))
  /\ ToStep(e, "dns")

(* Mutant of Record: a failed source leaves no observation.                *)
RecordSuccess(e, s, next) ==
  /\ estep[e] = s
  /\ IF found[e][s] = Failed THEN UNCHANGED evidenceVars
     ELSE SaveObservation(esubject[e], s, found[e][s])
  /\ ToStep(e, next)

Record(e, s, next) ==
  /\ estep[e] = s
  /\ SaveObservation(esubject[e], s, found[e][s])
  /\ ToStep(e, next)

(* Mutant of UpsertAddress: the last address is left out.                  *)
UpsertAddressButLast(e) ==
  /\ estep[e] = "addresses" /\ toRecord[e] # {}
  /\ \E a \in toRecord[e] :
       /\ IF toRecord[e] = {a} THEN UNCHANGED evidenceVars ELSE UpsertEntities({Ip(a)})
       /\ toRecord' = [toRecord EXCEPT ![e] = @ \ {a}]
  /\ UNCHANGED <<estep, esubject, found, enriched, settled, redeliveries>>

UpsertAddress(e) ==
  /\ estep[e] = "addresses" /\ toRecord[e] # {}
  /\ \E a \in toRecord[e] :
       /\ UpsertEntities({Ip(a)})
       /\ toRecord' = [toRecord EXCEPT ![e] = @ \ {a}]
  /\ UNCHANGED <<estep, esubject, found, enriched, settled, redeliveries>>

AddressesDone(e) ==
  /\ estep[e] = "addresses" /\ toRecord[e] = {}
  /\ ToStep(e, "summary")
  /\ UNCHANGED evidenceVars

Summarise(e) ==
  /\ estep[e] = "summary"
  /\ SetEnrichmentStatus(esubject[e], [s \in Source |-> found[e][s].status])
  /\ ToStep(e, "publish")

PublishAnalysis(e) ==
  /\ estep[e] = "publish"
  /\ enriched' = enriched \cup {esubject[e]}
  /\ estep' = [estep EXCEPT ![e] = "ack"]
  /\ UNCHANGED <<esubject, found, toRecord, settled, redeliveries, evidenceVars>>

AcknowledgePass(e) ==
  /\ estep[e] = "ack"
  /\ Leave(e)
  /\ settled' = settled \cup {esubject[e]}
  /\ UNCHANGED evidenceVars

(* An exception, or the death of the worker: nothing is acknowledged.      *)
AbandonPass(e) ==
  /\ estep[e] # "idle"
  /\ Leave(e)
  /\ UNCHANGED <<settled, evidenceVars>>

Enrich(e) ==
  \/ StartPass(e) \/ CollectBoth(e) \/ UpsertPrimary(e)
  \/ Record(e, "dns", "http") \/ Record(e, "http", "addresses")
  \/ UpsertAddress(e) \/ AddressesDone(e)
  \/ Summarise(e) \/ PublishAnalysis(e) \/ AcknowledgePass(e) \/ AbandonPass(e)

=============================================================================
