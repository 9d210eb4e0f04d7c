---------------------------- MODULE EvidenceGraph ----------------------------
(***************************************************************************)
(* Evidence from its collection to the graph: enrichment passes, the       *)
(* verdict that rests on what they recorded, and the handle() of           *)
(* workers/correlation.py, which reads the observations once and then      *)
(* writes one entity or edge at a time.                                    *)
(***************************************************************************)
EXTENDS EnrichmentPass

CONSTANT Correlator     \* the correlation workers

VARIABLES
  cstep,      \* cstep[c]: where worker c is in handle()
  csubject,   \* csubject[c]: the investigation it correlates
  toLink      \* toLink[c]: edges it has derived and not yet written

correlationVars == <<cstep, csubject, toLink>>

vars == <<evidenceVars, enrichmentVars, correlationVars>>

TypeOK ==
  /\ EvidenceTypeOK
  /\ PassTypeOK
  /\ cstep \in [Correlator -> {"idle", "read", "ends", "edge"}]
  /\ csubject \in [Correlator -> Inv]
  /\ toLink \in [Correlator -> Seq(Edge)]

Init ==
  /\ EvidenceInit
  /\ PassInit
  /\ cstep = [c \in Correlator |-> "idle"]
  /\ csubject \in [Correlator -> Inv]
  /\ toLink = [c \in Correlator |-> <<>>]

-----------------------------------------------------------------------------
(* Analysis, abstracted: an analyst takes the task and stores one verdict  *)
(* on the observations as they are.                                        *)

EnterAnalysis(i) ==
  /\ i \in enriched
  /\ status[i] = "enriching"
  /\ AdvanceOrResume(i, "enriching", "analyzing")

Decided(i) == verdict[i] # Nothing

Conclude(i) ==
  /\ status[i] = "analyzing" /\ ~Decided(i)
  /\ verdict' = [verdict EXCEPT ![i] = observation[i]]
  /\ UNCHANGED <<status, observation, summary, entities, edges>>

Analyse(i) ==
  /\ EnterAnalysis(i) \/ Conclude(i)
  /\ UNCHANGED <<enrichmentVars, correlationVars>>

-----------------------------------------------------------------------------
(* Correlation.  Any number of workers may have the task of i at once.     *)

(* Mutant of StartCorrelation: the task is published before the verdict.   *)
StartCorrelationEarly(c) ==
  /\ cstep[c] = "idle"
  /\ \E i \in Inv :
       /\ AdvanceOrResume(i, "analyzing", "correlating")
       /\ csubject' = [csubject EXCEPT ![c] = i]
  /\ cstep' = [cstep EXCEPT ![c] = "read"]
  /\ UNCHANGED toLink

StartCorrelation(c) ==
  /\ cstep[c] = "idle"
  /\ \E i \in Inv :
       /\ Decided(i)
       /\ AdvanceOrResume(i, "analyzing", "correlating")
       /\ csubject' = [csubject EXCEPT ![c] = i]
  /\ cstep' = [cstep EXCEPT ![c] = "read"]
  /\ UNCHANGED toLink

(* get_observation_map(), then the domain's entity.  The observations are  *)
(* not read again.                                                         *)
ReadObservations(c) ==
  /\ cstep[c] = "read"
  /\ toLink' = [toLink EXCEPT ![c] = LinksOf(csubject[c], observation[csubject[c]])]
  /\ UpsertEntities({Domain(HostOf[csubject[c]])})
  /\ cstep' = [cstep EXCEPT ![c] = "ends"]
  /\ UNCHANGED csubject

(* A hop that stays on its host is passed over.                            *)
SkipHop(c) ==
  /\ cstep[c] = "ends" /\ toLink[c] # <<>>
  /\ ~Crosses(Head(toLink[c]))
  /\ toLink' = [toLink EXCEPT ![c] = Tail(@)]
  /\ UNCHANGED <<cstep, csubject, evidenceVars>>

(* The entities at the ends of the next edge.  Where both are upserted it  *)
(* takes two statements; rows are only added, so they are one step here.   *)
UpsertEnds(c) ==
  /\ cstep[c] = "ends" /\ toLink[c] # <<>>
  /\ Crosses(Head(toLink[c]))
  /\ UpsertEntities({Head(toLink[c])[1], Head(toLink[c])[2]})
  /\ cstep' = [cstep EXCEPT ![c] = "edge"]
  /\ UNCHANGED <<csubject, toLink>>

(* Mutant of WriteEdge: the last edge derived is not written.              *)
WriteEdgeButLast(c) ==
  /\ cstep[c] = "edge"
  /\ IF Len(toLink[c]) = 1 THEN UNCHANGED evidenceVars ELSE CreateRelationship(Head(toLink[c]))
  /\ toLink' = [toLink EXCEPT ![c] = Tail(@)]
  /\ cstep' = [cstep EXCEPT ![c] = "ends"]
  /\ UNCHANGED csubject

WriteEdge(c) ==
  /\ cstep[c] = "edge"
  /\ CreateRelationship(Head(toLink[c]))
  /\ toLink' = [toLink EXCEPT ![c] = Tail(@)]
  /\ cstep' = [cstep EXCEPT ![c] = "ends"]
  /\ UNCHANGED csubject

(* handle() is over: Worker._process completes the investigation, unless   *)
(* another worker did so first.                                            *)
FinishCorrelation(c) ==
  /\ cstep[c] = "ends" /\ toLink[c] = <<>>
  /\ status' = [status EXCEPT ![csubject[c]] = IF @ = "correlating" THEN "complete" ELSE @]
  /\ cstep' = [cstep EXCEPT ![c] = "idle"]
  /\ UNCHANGED <<csubject, toLink, observation, summary, entities, edges, verdict>>

(* An exception, or the death of the worker; the task comes back.          *)
AbandonCorrelation(c) ==
  /\ cstep[c] # "idle"
  /\ cstep' = [cstep EXCEPT ![c] = "idle"]
  /\ toLink' = [toLink EXCEPT ![c] = <<>>]
  /\ UNCHANGED <<csubject, evidenceVars>>

Correlate(c) ==
  /\ \/ StartCorrelation(c) \/ ReadObservations(c) \/ SkipHop(c)
     \/ UpsertEnds(c) \/ WriteEdge(c) \/ FinishCorrelation(c) \/ AbandonCorrelation(c)
  /\ UNCHANGED enrichmentVars

-----------------------------------------------------------------------------

Next ==
  \/ \E e \in Enricher : Enrich(e) /\ UNCHANGED correlationVars
  \/ \E i \in Inv : Analyse(i)
  \/ \E c \in Correlator : Correlate(c)

Spec == Init /\ [][Next]_vars

-----------------------------------------------------------------------------
(* Properties of evidence that was collected once: failed and interrupted  *)
(* passes are allowed before the one that publishes, none after it.        *)

CollectedOnce == redeliveries = 0

(* set_enrichment_status tells which sources succeeded: what the summary   *)
(* says of a source is what its stored observation says, once the analyst  *)
(* may read either.  The two are written by separate statements.           *)
SummaryMatchesEvidence ==
  CollectedOnce =>
    \A i \in enriched, s \in Source : summary[i][s] = observation[i][s].status

(* "Every address either source observed becomes an entity", even when the *)
(* pass that wrote the observation is not the one that wrote the entities. *)
AddressesAreEntities ==
  CollectedOnce =>
    \A i \in enriched, s \in Source :
      \A a \in observation[i][s].addresses : Ip(a) \in entities

(* The graph holds no edge the evidence behind some verdict does not show: *)
(* interrupted passes and correlations leave nothing else behind.          *)
GraphIsObserved ==
  CollectedOnce => edges \subseteq UNION {EdgesOf(i, verdict[i]) : i \in {j \in Inv : Decided(j)}}

(* A complete investigation has every edge its evidence shows, whichever   *)
(* of its correlation workers finished first and whichever died.           *)
CompleteIsLinked ==
  CollectedOnce =>
    \A i \in Inv : status[i] = "complete" => EdgesOf(i, observation[i]) \subseteq edges

-----------------------------------------------------------------------------
(* What documents say of the code, and the code does not do.               *)

(* store.py:5: the second pass over a task is "a no-op rather than a       *)
(* duplicate row".  The evidence a verdict cites is not replaced under it. *)
CitedEvidenceStays ==
  [][\A i \in Inv : Decided(i) => observation'[i] = observation[i]]_vars
=============================================================================
