---------------------------- MODULE EvidenceStore ----------------------------
(***************************************************************************)
(* What the database keeps of the evidence itself: the observations with   *)
(* their outcome and payload, the summary in enrichment_status, and the    *)
(* entity graph that all investigations share.  The operators are the      *)
(* statements of core/store.py, each atomic.  InvestigationStore abstracts *)
(* an observation to its existence; here its contents matter, while tasks  *)
(* are abstracted to whether a stage's task was published.                 *)
(***************************************************************************)
EXTENDS InvestigationStatus, Integers, SequencesExt

CONSTANTS
  Host, Address,
  HostOf,       \* HostOf[i]: the hostname of i's indicator
  UrlInv,       \* the investigations whose indicator is a URL
  MaxHops       \* MAX_REDIRECTS + 1

ASSUME IndicatorsHaveHosts == HostOf \in [Inv -> Host] /\ UrlInv \subseteq Inv

ASSUME AddressesAreFinite == IsFiniteSet(Address)

ASSUME HopsArePositive == MaxHops \in Nat \ {0}

VARIABLES
  status,       \* investigations.status
  observation,  \* observation[i][s]: the row of source s, or NoRow
  summary,      \* summary[i]: enrichment_status, "none" for an absent source
  entities,     \* the entity rows
  edges,        \* the relationship rows
  verdict       \* verdict[i]: the observations i's result cites, as they were

evidenceVars == <<status, observation, summary, entities, edges, verdict>>

Source == {"dns", "http"}

-----------------------------------------------------------------------------
(* Payloads.                                                               *)

NoRow == [status |-> "none", addresses |-> {}, chain |-> <<>>]

(* describe_failure(): what the analyst reads of a source that failed.     *)
Failed == [status |-> "failed", addresses |-> {}, chain |-> <<>>]

(* The hosts of a redirect chain, from the indicator's own.                *)
Chains(i) == {c \in UNION {[1 .. n -> Host] : n \in 1 .. MaxHops} : c[1] = HostOf[i]}

(* NXDOMAIN and empty record sets are answers, not failures; an HTTP       *)
(* request that was made went to a host that resolved.                     *)
Answers(i, s) ==
  IF s = "dns"
  THEN [status : {"ok"}, addresses : SUBSET Address, chain : {<<>>}]
  ELSE [status : {"ok"}, addresses : (SUBSET Address) \ {{}}, chain : Chains(i)]

Outcome(i, s) == Answers(i, s) \cup {Failed}

-----------------------------------------------------------------------------
(* The graph.                                                              *)

Domain(h) == <<"domain", h>>
Ip(a) == <<"ip", a>>
Url(i) == <<"url", i>>

Entity ==
  {Domain(h) : h \in Host} \cup {Ip(a) : a \in Address} \cup {Url(i) : i \in UrlInv}

(* The entities an investigation is about.                                 *)
PrimaryEntities(i) ==
  {Domain(HostOf[i])} \cup (IF i \in UrlInv THEN {Url(i)} ELSE {})

Edge == Entity \X Entity \X {"resolves_to", "redirects_to", "hosted_on"}

(* What correlation derives from i's observations, in the order it writes: *)
(* the addresses DNS gave, one redirect a hop, and the host of a URL.      *)
LinksOf(i, obs) ==
  LET domain == Domain(HostOf[i])
      hops == obs["http"].chain
  IN  SetToSeq({<<domain, Ip(a), "resolves_to">> : a \in obs["dns"].addresses})
        \o [n \in 1 .. Len(hops) - 1 |-> <<Domain(hops[n]), Domain(hops[n + 1]), "redirects_to">>]
        \o (IF i \in UrlInv THEN <<<<Url(i), domain, "hosted_on">>>> ELSE <<>>)

(* A redirect within one host is no edge.                                  *)
Crosses(link) == link[1] # link[2]

EdgesOf(i, obs) == {link \in Range(LinksOf(i, obs)) : Crosses(link)}

-----------------------------------------------------------------------------

EvidenceTypeOK ==
  /\ status \in [Inv -> Status]
  /\ \A i \in Inv : \A s \in Source : observation[i][s] \in Outcome(i, s) \cup {NoRow}
  /\ summary \in [Inv -> [Source -> {"none", "ok", "failed"}]]
  /\ entities \subseteq Entity
  /\ edges \subseteq Edge

EvidenceInit ==
  /\ status = [i \in Inv |-> "pending"]
  /\ observation = [i \in Inv |-> [s \in Source |-> NoRow]]
  /\ summary = [i \in Inv |-> [s \in Source |-> "none"]]
  /\ entities = {}
  /\ edges = {}
  /\ verdict = [i \in Inv |-> [s \in Source |-> NoRow]]

AdvanceOrResume(i, expected, working) ==
  /\ status[i] \in {expected, working}
  /\ status' = [status EXCEPT ![i] = working]
  /\ UNCHANGED <<observation, summary, entities, edges, verdict>>

UpsertEntities(es) ==
  /\ entities' = entities \cup es
  /\ UNCHANGED <<status, observation, summary, edges, verdict>>

(* ON CONFLICT (investigation_id, source) DO UPDATE                        *)
SaveObservation(i, s, outcome) ==
  /\ observation' = [observation EXCEPT ![i][s] = outcome]
  /\ UNCHANGED <<status, summary, entities, edges, verdict>>

SetEnrichmentStatus(i, statuses) ==
  /\ summary' = [summary EXCEPT ![i] = statuses]
  /\ UNCHANGED <<status, observation, entities, edges, verdict>>

(* ON CONFLICT DO NOTHING; an entity is not related to itself.             *)
CreateRelationship(edge) ==
  /\ edges' = IF edge[1] = edge[2] THEN edges ELSE edges \cup {edge}
  /\ UNCHANGED <<status, observation, summary, entities, verdict>>

=============================================================================
