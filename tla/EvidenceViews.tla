---------------------------- MODULE EvidenceViews ----------------------------
(***************************************************************************)
(* What GET /investigations/{id}/entities of api/routes/evidence.py shows  *)
(* of the graph, as operators on the state of EvidenceGraph.  A reader may *)
(* ask at any moment; the question changes nothing.                        *)
(***************************************************************************)
EXTENDS EvidenceGraph

(* The entity an observation names: DNS the host, HTTP what was asked for. *)
ObservedEntity(i, s) ==
  IF s = "http" /\ i \in UrlInv THEN Url(i) ELSE Domain(HostOf[i])

Observed(i) == {ObservedEntity(i, s) : s \in {t \in Source : observation[i][t] # NoRow}}

(* Mutant of Reachable: edges are followed backwards only.                 *)
ReachableBackwards(i) ==
  Observed(i) \cup {edge[1] : edge \in {r \in edges : r[2] \in Observed(i)}}

(* One hop along an edge, in either direction.                             *)
Reachable(i) ==
  Observed(i)
    \cup {edge[2] : edge \in {r \in edges : r[1] \in Observed(i)}}
    \cup {edge[1] : edge \in {r \in edges : r[2] \in Observed(i)}}

ViewEntities(i) == Reachable(i) \cap entities

(* An edge is shown with one end among the entities shown.                 *)
ViewRelationships(i) == {r \in edges : r[1] \in ViewEntities(i) \/ r[2] \in ViewEntities(i)}

-----------------------------------------------------------------------------

(* "The addresses a domain resolves to are the most interesting things an  *)
(* investigation discovers", and no observation names them: once it is     *)
(* complete they are in its view, with the edges that lead to them.        *)
CompleteIsVisible ==
  CollectedOnce =>
    \A i \in Inv : status[i] = "complete" =>
      \A a \in observation[i]["dns"].addresses :
        /\ Ip(a) \in ViewEntities(i)
        /\ <<Domain(HostOf[i]), Ip(a), "resolves_to">> \in ViewRelationships(i)
=============================================================================
