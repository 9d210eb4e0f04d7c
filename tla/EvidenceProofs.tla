---------------------------- MODULE EvidenceProofs ----------------------------
(***************************************************************************)
(* For any number of investigations, enrichment and correlation workers,   *)
(* and however many passes and correlations are interrupted: evidence that *)
(* was collected once is summarised as it is stored, its addresses are     *)
(* entities, and the graph is what the cited evidence shows, no more ever  *)
(* and no less once an investigation is complete.                          *)
(***************************************************************************)
EXTENDS EvidenceViews, FiniteSetTheorems, SequenceTheorems, TLAPS

-----------------------------------------------------------------------------
(* The types the model's TypeOK leaves open: the shapes of the records.    *)

Row == [status : {"none", "ok", "failed"}, addresses : SUBSET Address, chain : Seq(Host)]

Rows == [Source -> Row]

ShapesOK ==
  /\ observation \in [Inv -> Rows]
  /\ verdict \in [Inv -> Rows]
  /\ found \in [Enricher -> Rows]

(* A worker without a task has found nothing.                              *)
IdleHasNothing == \A e \in Enricher : estep[e] = "idle" => found[e] = Nothing

(* A worker about to write an edge has one.                                *)
HasEdge == \A c \in Correlator : cstep[c] = "edge" => toLink[c] # <<>>

TypeInv == TypeOK /\ ShapesOK /\ IdleHasNothing /\ HasEdge

-----------------------------------------------------------------------------
(* What holds however often evidence is collected.                         *)

(* A status says what came before it.                                      *)
StagesInOrder ==
  \A i \in Inv :
    /\ status[i] \in {"analyzing", "correlating", "complete"} => i \in enriched
    /\ Decided(i) => status[i] \in {"analyzing", "correlating", "complete"}
    /\ status[i] \in {"correlating", "complete"} => Decided(i)

CorrelatesDecided == \A c \in Correlator : cstep[c] # "idle" => Decided(csubject[c])

(* No edge without its entities, also not the one about to be written.     *)
EdgesHaveEnds ==
  /\ \A r \in edges : r[1] \in entities /\ r[2] \in entities
  /\ \A c \in Correlator : cstep[c] = "edge" =>
       /\ Crosses(Head(toLink[c]))
       /\ Head(toLink[c])[1] \in entities /\ Head(toLink[c])[2] \in entities

OrderInv == StagesInOrder /\ CorrelatesDecided /\ EdgesHaveEnds

-----------------------------------------------------------------------------
(* What holds of evidence that was collected once.                         *)

(* One pass of an investigation at a time, none after the one that         *)
(* published but its own acknowledgement.                                  *)
OnePassAtATime ==
  /\ \A e1, e2 \in Enricher :
       estep[e1] # "idle" /\ estep[e2] # "idle" /\ esubject[e1] = esubject[e2] => e1 = e2
  /\ \A e \in Enricher : estep[e] \notin {"idle", "ack"} => esubject[e] \notin enriched

(* How much of what a pass has found is written, step by step.             *)
WrittenSoFar(e) ==
  LET i == esubject[e] IN
  /\ estep[e] \in {"http", "addresses", "summary", "publish"} =>
       observation[i]["dns"] = found[e]["dns"]
  /\ estep[e] \in {"addresses", "summary", "publish"} =>
       observation[i]["http"] = found[e]["http"]
  /\ estep[e] \in PassSteps \ {"idle", "collect", "ack"} =>
       \A s \in Source : \A a \in found[e][s].addresses :
         a \in toRecord[e] \/ Ip(a) \in entities
  /\ estep[e] \in {"summary", "publish"} => toRecord[e] = {}
  /\ estep[e] = "publish" => summary[i] = [s \in Source |-> found[e][s].status]

Summarised ==
  \A i \in enriched, s \in Source : summary[i][s] = observation[i][s].status

Recorded ==
  \A i \in enriched, s \in Source :
    \A a \in observation[i][s].addresses : Ip(a) \in entities

PassesInv ==
  /\ OnePassAtATime
  /\ \A e \in Enricher : WrittenSoFar(e)
  /\ Summarised
  /\ Recorded

(* The evidence a verdict cites is still there.                            *)
CitedIsStored == \A i \in Inv : Decided(i) => verdict[i] = observation[i]

(* What a correlation has left to write is all that its verdict shows and  *)
(* the graph lacks.                                                        *)
LinksRemain ==
  \A c \in Correlator : cstep[c] \in {"ends", "edge"} =>
    LET shown == EdgesOf(csubject[c], verdict[csubject[c]])
    IN  /\ shown \subseteq edges \cup Range(toLink[c])
        /\ \A link \in Range(toLink[c]) : Crosses(link) => link \in shown

Linked ==
  \A i \in Inv : status[i] = "complete" => EdgesOf(i, verdict[i]) \subseteq edges

GraphInv ==
  /\ CitedIsStored
  /\ LinksRemain
  /\ Linked
  /\ edges \subseteq UNION {EdgesOf(i, verdict[i]) : i \in {j \in Inv : Decided(j)}}

OnceInv == CollectedOnce => PassesInv /\ GraphInv

EvidenceInv == TypeInv /\ OrderInv /\ OnceInv

-----------------------------------------------------------------------------
(* Sequences.                                                              *)

LEMMA SetsBecomeSequences ==
  ASSUME NEW S, IsFiniteSet(S)
  PROVE  SetToSeq(S) \in Seq(S) /\ Range(SetToSeq(S)) = S
<1>. DEFINE n == Cardinality(S)
<1>1. n \in Nat /\ ExistsBijection(1 .. n, S)
  BY FS_CardinalityType
<1>2. PICK f \in Bijection(1 .. n, S) : TRUE
  BY <1>1 DEF ExistsBijection
<1>3. f \in [1 .. n -> S] /\ IsInjective(f)
  BY <1>2 DEF Bijection, Injection, IsInjective
<1>4. SetToSeq(S) \in [1 .. n -> S] /\ IsInjective(SetToSeq(S))
  BY <1>3 DEF SetToSeq
<1>5. SetToSeq(S) \in Injection(1 .. n, S)
  BY <1>4 DEF Injection, IsInjective
<1>6. IsFiniteSet(1 .. n) /\ Cardinality(1 .. n) = n
  BY <1>1, FS_Interval
<1>7. SetToSeq(S) \in Surjection(1 .. n, S)
  BY <1>5, <1>6, FS_Injection
<1>8. Range(SetToSeq(S)) = S
  BY <1>4, <1>7 DEF Surjection, Range
<1>9. SetToSeq(S) \in Seq(S)
  BY <1>1, <1>4
<1>. QED
  BY <1>8, <1>9

LEMMA FirstAndRest ==
  ASSUME NEW S, NEW s \in Seq(S), s # <<>>
  PROVE  /\ Head(s) \in S /\ Tail(s) \in Seq(S)
         /\ Head(s) \in Range(s)
         /\ Range(s) = {Head(s)} \cup Range(Tail(s))
<1>1. Head(s) \in S /\ Tail(s) \in Seq(S) /\ Len(Tail(s)) = Len(s) - 1
  BY HeadTailProperties
<1>2. \A k \in 1 .. Len(Tail(s)) : Tail(s)[k] = s[k + 1]
  BY HeadTailProperties
<1>3. Len(s) \in Nat /\ Len(s) # 0 /\ Head(s) = s[1]
  OBVIOUS
<1>4. Range(s) = {s[k] : k \in 1 .. Len(s)}
  BY RangeEquality
<1>5. Range(Tail(s)) = {Tail(s)[k] : k \in 1 .. Len(Tail(s))}
  BY <1>1, RangeEquality
<1>6. ASSUME NEW x \in Range(s) PROVE x \in {Head(s)} \cup Range(Tail(s))
  <2>1. PICK k \in 1 .. Len(s) : x = s[k]
    BY <1>4
  <2>2. CASE k = 1
    BY <1>3, <2>1, <2>2
  <2>3. CASE k # 1
    <3>1. k - 1 \in 1 .. Len(Tail(s)) /\ (k - 1) + 1 = k
      BY <1>1, <1>3, <2>3
    <3>2. x = Tail(s)[k - 1]
      BY <1>2, <2>1, <3>1
    <3>. QED
      BY <1>5, <3>1, <3>2
  <2>. QED
    BY <2>2, <2>3
<1>7. ASSUME NEW x \in Range(Tail(s)) PROVE x \in Range(s)
  <2>1. PICK k \in 1 .. Len(Tail(s)) : x = Tail(s)[k]
    BY <1>5
  <2>2. k + 1 \in 1 .. Len(s) /\ x = s[k + 1]
    BY <1>1, <1>2, <1>3, <2>1
  <2>. QED
    BY <1>4, <2>2
<1>8. Head(s) \in Range(s)
  BY <1>3, <1>4
<1>. QED
  BY <1>1, <1>6, <1>7, <1>8

-----------------------------------------------------------------------------
(* What the operators return.                                              *)

LEMMA ChainsAreSequences == ASSUME NEW i \in Inv PROVE Chains(i) \subseteq Seq(Host)
<1>1. ASSUME NEW c \in Chains(i) PROVE c \in Seq(Host)
  <2>1. PICK n \in 1 .. MaxHops : c \in [1 .. n -> Host]
    BY DEF Chains
  <2>2. n \in Nat
    BY HopsArePositive
  <2>. QED
    BY <2>1, <2>2
<1>. QED
  BY <1>1

LEMMA OutcomesAreRows ==
  ASSUME NEW i \in Inv, NEW s \in Source, NEW o \in Outcome(i, s) \cup {NoRow}
  PROVE  o \in Row
<1>1. <<>> \in Seq(Host)
  OBVIOUS
<1>2. NoRow \in Row /\ Failed \in Row
  BY <1>1 DEF NoRow, Failed, Row
<1>3. ASSUME o \in Answers(i, s) PROVE o \in Row
  BY <1>1, <1>3, ChainsAreSequences DEF Answers, Row
<1>. QED
  BY <1>2, <1>3 DEF Outcome

LEMMA NothingIsRows == Nothing \in Rows
<1>1. NoRow \in Row
  BY EmptySeq DEF NoRow, Row
<1>. QED
  BY <1>1 DEF Nothing, Rows

(* The addresses DNS gave are among the edges; nothing ill-formed is.      *)
LEMMA LinksAreEdges ==
  ASSUME NEW i \in Inv, NEW obs \in Rows
  PROVE  /\ LinksOf(i, obs) \in Seq(Edge)
         /\ \A a \in obs["dns"].addresses :
              <<Domain(HostOf[i]), Ip(a), "resolves_to">> \in EdgesOf(i, obs)
<1>. DEFINE domain == Domain(HostOf[i])
            hops == obs["http"].chain
            A == obs["dns"].addresses
            L == [a \in A |-> <<domain, Ip(a), "resolves_to">>]
            R == {<<domain, Ip(a), "resolves_to">> : a \in A}
            s1 == SetToSeq(R)
            s2 == [n \in 1 .. Len(hops) - 1 |->
                     <<Domain(hops[n]), Domain(hops[n + 1]), "redirects_to">>]
            s3 == IF i \in UrlInv THEN <<<<Url(i), domain, "hosted_on">>>> ELSE <<>>
<1>1. obs["http"] \in Row /\ obs["dns"] \in Row
  BY DEF Rows, Source
<1>2. hops \in Seq(Host) /\ A \in SUBSET Address
  BY <1>1 DEF Row
<1>3. HostOf[i] \in Host /\ domain \in Entity
  BY IndicatorsHaveHosts DEF Entity
<1>4. IsFiniteSet(A)
  BY <1>2, AddressesAreFinite, FS_Subset
<1>5. L \in Surjection(A, R)
  BY DEF Surjection
<1>6. IsFiniteSet(R)
  BY <1>4, <1>5, FS_Surjection
<1>7. s1 \in Seq(R) /\ Range(s1) = R
  BY <1>6, SetsBecomeSequences
<1>8. R \subseteq Edge
  BY <1>2, <1>3 DEF Edge, Entity
<1>9. s1 \in Seq(Edge)
  BY <1>7, <1>8
<1>10. s2 \in Seq(Edge)
  <2>1. Len(hops) \in Nat
    BY <1>2
  <2>2. CASE Len(hops) = 0
    <3>1. 1 .. Len(hops) - 1 = 1 .. 0
      BY <2>2
    <3>2. s2 \in [1 .. 0 -> Edge]
      BY <3>1
    <3>. HIDE DEF s2
    <3>. QED
      BY <3>2
  <2>3. CASE Len(hops) # 0
    <3>1. Len(hops) - 1 \in Nat
      BY <2>1, <2>3
    <3>2. ASSUME NEW n \in 1 .. Len(hops) - 1
          PROVE  <<Domain(hops[n]), Domain(hops[n + 1]), "redirects_to">> \in Edge
      <4>1. hops[n] \in Host /\ hops[n + 1] \in Host
        BY <1>2, <2>1
      <4>. QED
        BY <4>1 DEF Edge, Entity
    <3>3. s2 \in [1 .. Len(hops) - 1 -> Edge]
      BY <3>2
    <3>. QED
      BY <3>1, <3>3
  <2>. QED
    BY <2>2, <2>3
<1>11. s3 \in Seq(Edge)
  <2>1. CASE i \in UrlInv
    <3>1. <<Url(i), domain, "hosted_on">> \in Edge
      BY <1>3, <2>1 DEF Edge, Entity
    <3>. QED
      BY <2>1, <3>1
  <2>2. CASE i \notin UrlInv
    BY <2>2
  <2>. QED
    BY <2>1, <2>2
<1>12. LinksOf(i, obs) = s1 \o s2 \o s3
  BY DEF LinksOf
<1>. HIDE DEF s1, s2, s3
<1>13. s1 \o s2 \in Seq(Edge) /\ Range(s1 \o s2) = Range(s1) \cup Range(s2)
  BY <1>9, <1>10, ConcatProperties, RangeConcatenation
<1>14. (s1 \o s2) \o s3 \in Seq(Edge)
  BY <1>13, <1>11, ConcatProperties
<1>15. \A t \in Seq(Edge) : Range(t \o s3) = Range(t) \cup Range(s3)
  BY <1>11, RangeConcatenation
<1>16. R \subseteq Range(LinksOf(i, obs))
  BY <1>7, <1>12, <1>13, <1>15
<1>17. ASSUME NEW a \in A PROVE <<domain, Ip(a), "resolves_to">> \in EdgesOf(i, obs)
  <2>1. <<domain, Ip(a), "resolves_to">> \in R
    OBVIOUS
  <2>2. Crosses(<<domain, Ip(a), "resolves_to">>)
    BY DEF Crosses, Domain, Ip
  <2>. QED
    BY <1>16, <2>1, <2>2 DEF EdgesOf
<1>. QED
  BY <1>12, <1>14, <1>17

-----------------------------------------------------------------------------
(* Types.                                                                  *)

LEMMA TypesHoldAtFirst == Init => TypeInv
<1> SUFFICES ASSUME Init PROVE TypeInv
  OBVIOUS
<1>. USE DEF Init, EvidenceInit, PassInit
<1>1. EvidenceTypeOK
  BY DEF EvidenceTypeOK, Status, Active
<1>2. PassTypeOK
  BY RedeliveriesAreBounded DEF PassTypeOK, PassSteps, Nothing
<1>3. toLink \in [Correlator -> Seq(Edge)]
  BY EmptySeq
<1>4. [s \in Source |-> NoRow] \in Rows
  BY NothingIsRows DEF Nothing
<1>5. ShapesOK
  BY <1>4, NothingIsRows DEF ShapesOK
<1>. QED
  BY <1>1, <1>2, <1>3, <1>5 DEF TypeInv, TypeOK, IdleHasNothing, HasEdge

LEMMA PassKeepsTypes ==
  ASSUME TypeInv, NEW e \in Enricher, Enrich(e), UNCHANGED correlationVars
  PROVE  TypeInv'
<1>. DEFINE i == esubject[e]
<1>1. i \in Inv /\ found[e] \in Rows
  BY DEF TypeInv, TypeOK, PassTypeOK, ShapesOK
<1>. USE DEF TypeInv, TypeOK, EvidenceTypeOK, PassTypeOK, ShapesOK, IdleHasNothing, HasEdge, PassSteps,
             evidenceVars, correlationVars
<1>2. CASE StartPass(e)
  <2>1. PICK j \in Inv \ settled :
          /\ AdvanceOrResume(j, "pending", "enriching")
          /\ esubject' = [esubject EXCEPT ![e] = j]
          /\ IF UnderWay(j) \/ j \in enriched
             THEN redeliveries < MaxRedeliveries /\ redeliveries' = redeliveries + 1
             ELSE UNCHANGED redeliveries
    BY <1>2 DEF StartPass
  <2>2. redeliveries' \in 0 .. MaxRedeliveries
    BY <2>1, RedeliveriesAreBounded
  <2>3. status' \in [Inv -> Status]
    BY <2>1 DEF AdvanceOrResume, Status, Active
  <2>4. \A f \in Enricher : \A s \in Source :
          found'[f][s] \in Outcome(esubject'[f], s) \cup {NoRow}
    BY <1>2, <2>1 DEF StartPass, Nothing
  <2>. QED
    BY <1>2, <2>1, <2>2, <2>3, <2>4 DEF StartPass, AdvanceOrResume
<1>3. CASE CollectBoth(e)
  <2>1. PICK d \in Outcome(i, "dns"), h \in Outcome(i, "http") :
          /\ found' = [found EXCEPT ![e] = [s \in Source |-> IF s = "dns" THEN d ELSE h]]
          /\ toRecord' = [toRecord EXCEPT ![e] = d.addresses \cup h.addresses]
    BY <1>3 DEF CollectBoth
  <2>2. d \in Row /\ h \in Row
    BY <1>1, OutcomesAreRows DEF Source
  <2>3. [s \in Source |-> IF s = "dns" THEN d ELSE h] \in Rows
    BY <2>2 DEF Rows
  <2>4. toRecord' \in [Enricher -> SUBSET Address]
    BY <2>1, <2>2 DEF Row
  <2>5. \A f \in Enricher : \A s \in Source :
          found'[f][s] \in Outcome(esubject'[f], s) \cup {NoRow}
    BY <1>3, <2>1 DEF CollectBoth, Source
  <2>6. found' \in [Enricher -> Rows]
    BY <2>1, <2>3
  <2>. QED
    BY <1>3, <2>4, <2>5, <2>6 DEF CollectBoth
<1>4. CASE UpsertPrimary(e)
  <2>1. PrimaryEntities(i) \subseteq Entity
    BY <1>1, IndicatorsHaveHosts DEF PrimaryEntities, Entity
  <2>. QED
    BY <1>4, <2>1 DEF UpsertPrimary, UpsertEntities, ToStep
<1>5. ASSUME NEW s \in Source, NEW next \in PassSteps \ {"idle"}, Record(e, s, next)
      PROVE  TypeInv'
  <2>1. found[e][s] \in Outcome(i, s) \cup {NoRow} /\ found[e][s] \in Row
    BY <1>1 DEF Rows
  <2>2. observation' = [observation EXCEPT ![i] = [observation[i] EXCEPT ![s] = found[e][s]]]
    BY <1>5 DEF Record, SaveObservation
  <2>3. [observation[i] EXCEPT ![s] = found[e][s]] \in Rows
    BY <1>1, <2>1 DEF Rows
  <2>4. observation' \in [Inv -> Rows]
    BY <1>1, <2>2, <2>3
  <2>5. \A j \in Inv : \A t \in Source : observation'[j][t] \in Outcome(j, t) \cup {NoRow}
    BY <1>1, <2>1, <2>2 DEF Rows
  <2>. QED
    BY <1>5, <2>4, <2>5 DEF Record, SaveObservation, ToStep
<1>6. CASE UpsertAddress(e)
  <2>1. PICK a \in toRecord[e] :
          /\ UpsertEntities({Ip(a)})
          /\ toRecord' = [toRecord EXCEPT ![e] = toRecord[e] \ {a}]
    BY <1>6 DEF UpsertAddress
  <2>2. entities' \subseteq Entity
    BY <2>1 DEF UpsertEntities, Entity
  <2>3. toRecord' \in [Enricher -> SUBSET Address]
    BY <2>1
  <2>. QED
    BY <1>6, <2>1, <2>2, <2>3 DEF UpsertAddress, UpsertEntities
<1>7. CASE AddressesDone(e)
  BY <1>7 DEF AddressesDone, ToStep
<1>8. CASE Summarise(e)
  <2>1. \A s \in Source : found[e][s].status \in {"none", "ok", "failed"}
    BY <1>1 DEF Rows, Row
  <2>2. summary' = [summary EXCEPT ![i] = [s \in Source |-> found[e][s].status]]
    BY <1>8 DEF Summarise, SetEnrichmentStatus
  <2>3. summary' \in [Inv -> [Source -> {"none", "ok", "failed"}]]
    BY <2>1, <2>2
  <2>. QED
    BY <1>8, <2>3 DEF Summarise, SetEnrichmentStatus, ToStep
<1>9. CASE PublishAnalysis(e)
  BY <1>1, <1>9 DEF PublishAnalysis
<1>10. CASE AcknowledgePass(e) \/ AbandonPass(e)
  <2>1. Leave(e) /\ UNCHANGED evidenceVars /\ settled' \subseteq Inv
    BY <1>1, <1>10 DEF AcknowledgePass, AbandonPass, Leave
  <2>2. found' = [found EXCEPT ![e] = Nothing]
    BY <2>1 DEF Leave
  <2>3. \A f \in Enricher : \A s \in Source :
          found'[f][s] \in Outcome(esubject'[f], s) \cup {NoRow}
    BY <2>1, <2>2 DEF Leave, Nothing
  <2>4. found' \in [Enricher -> Rows]
    BY <2>2, NothingIsRows
  <2>. QED
    BY <2>1, <2>3, <2>4 DEF Leave
<1>11. CASE Record(e, "dns", "http")
  BY <1>5, <1>11 DEF Source
<1>12. CASE Record(e, "http", "addresses")
  BY <1>5, <1>12 DEF Source
<1>. QED
  BY <1>2, <1>3, <1>4, <1>6, <1>7, <1>8, <1>9, <1>10, <1>11, <1>12 DEF Enrich

LEMMA AnalysisKeepsTypes == ASSUME TypeInv, NEW i \in Inv, Analyse(i) PROVE TypeInv'
<1>. USE DEF TypeInv, TypeOK, EvidenceTypeOK, PassTypeOK, ShapesOK, IdleHasNothing, HasEdge,
             enrichmentVars, passVars, correlationVars
<1>1. CASE EnterAnalysis(i)
  <2>1. status' \in [Inv -> Status]
    BY <1>1 DEF EnterAnalysis, AdvanceOrResume, Status, Active
  <2>. QED
    BY <1>1, <2>1 DEF EnterAnalysis, AdvanceOrResume, Analyse
<1>2. CASE Conclude(i)
  BY <1>2 DEF Conclude, Analyse
<1>. QED
  BY <1>1, <1>2 DEF Analyse

LEMMA CorrelationKeepsTypes ==
  ASSUME TypeInv, NEW c \in Correlator, Correlate(c)
  PROVE  TypeInv'
<1>. DEFINE i == csubject[c]
<1>1. i \in Inv /\ observation[i] \in Rows /\ toLink[c] \in Seq(Edge)
  BY DEF TypeInv, TypeOK, ShapesOK
<1>2. UNCHANGED enrichmentVars
  BY DEF Correlate
<1>. USE DEF TypeInv, TypeOK, EvidenceTypeOK, PassTypeOK, ShapesOK, IdleHasNothing, HasEdge,
             evidenceVars, enrichmentVars, passVars
<1>3. CASE StartCorrelation(c)
  <2>1. PICK j \in Inv :
          /\ AdvanceOrResume(j, "analyzing", "correlating")
          /\ csubject' = [csubject EXCEPT ![c] = j]
    BY <1>3 DEF StartCorrelation
  <2>2. status' \in [Inv -> Status]
    BY <2>1 DEF AdvanceOrResume, Status, Active
  <2>. QED
    BY <1>2, <1>3, <2>1, <2>2 DEF StartCorrelation, AdvanceOrResume
<1>4. CASE ReadObservations(c)
  <2>1. LinksOf(i, observation[i]) \in Seq(Edge)
    BY <1>1, LinksAreEdges
  <2>2. Domain(HostOf[i]) \in Entity
    BY <1>1, IndicatorsHaveHosts DEF Entity
  <2>. QED
    BY <1>2, <1>4, <2>1, <2>2 DEF ReadObservations, UpsertEntities
<1>5. ASSUME toLink[c] # <<>>
      PROVE  Head(toLink[c]) \in Edge /\ Tail(toLink[c]) \in Seq(Edge)
  BY <1>1, <1>5, HeadTailProperties
<1>6. CASE SkipHop(c)
  BY <1>2, <1>5, <1>6 DEF SkipHop
<1>7. CASE UpsertEnds(c)
  <2>1. Head(toLink[c])[1] \in Entity /\ Head(toLink[c])[2] \in Entity
    BY <1>5, <1>7 DEF UpsertEnds, Edge
  <2>. QED
    BY <1>2, <1>7, <2>1 DEF UpsertEnds, UpsertEntities
<1>8. CASE WriteEdge(c)
  BY <1>2, <1>5, <1>8 DEF WriteEdge, CreateRelationship
<1>9. CASE FinishCorrelation(c)
  <2>1. status' \in [Inv -> Status]
    BY <1>9 DEF FinishCorrelation, Status, Terminal
  <2>. QED
    BY <1>2, <1>9, <2>1 DEF FinishCorrelation
<1>10. CASE AbandonCorrelation(c)
  BY <1>2, <1>10, EmptySeq DEF AbandonCorrelation
<1>. QED
  BY <1>3, <1>4, <1>6, <1>7, <1>8, <1>9, <1>10 DEF Correlate

LEMMA StutteringKeepsTypes == ASSUME TypeInv, UNCHANGED vars PROVE TypeInv'
BY DEF TypeInv, TypeOK, EvidenceTypeOK, PassTypeOK, ShapesOK, IdleHasNothing, HasEdge,
       vars, evidenceVars, enrichmentVars, passVars, correlationVars

(* Every variable keeps its type: rows are outcomes their source can have, *)
(* and every entity and edge, written or still to be, is well formed.      *)
THEOREM EvidenceTypeCorrect == Spec => []TypeOK
<1>1. Init => TypeInv
  BY TypesHoldAtFirst
<1>2. TypeInv /\ [Next]_vars => TypeInv'
  BY PassKeepsTypes, AnalysisKeepsTypes, CorrelationKeepsTypes, StutteringKeepsTypes DEF Next
<1>3. TypeInv => TypeOK
  BY DEF TypeInv
<1>. QED
  BY <1>1, <1>2, <1>3, PTL DEF Spec

-----------------------------------------------------------------------------
(* Stages in order.                                                        *)

(* What a pass leaves alone.                                               *)
LEMMA PassesOnlyAdd ==
  ASSUME TypeInv, NEW e \in Enricher, Enrich(e)
  PROVE  /\ verdict' = verdict /\ edges' = edges
         /\ entities \subseteq entities' /\ enriched \subseteq enriched'
         /\ redeliveries <= redeliveries'
         /\ \A j \in Inv :
              \/ status'[j] = status[j]
              \/ (status[j] \in {"pending", "enriching"} /\ status'[j] = "enriching")
<1>. status \in [Inv -> Status] /\ redeliveries \in Nat
  BY RedeliveriesAreBounded DEF TypeInv, TypeOK, EvidenceTypeOK, PassTypeOK
<1>. USE DEF evidenceVars, ToStep, Leave
<1>1. CASE StartPass(e)
  BY <1>1 DEF StartPass, AdvanceOrResume
<1>2. CASE CollectBoth(e) \/ UpsertPrimary(e)
  BY <1>2 DEF CollectBoth, UpsertPrimary, UpsertEntities
<1>3. CASE Record(e, "dns", "http") \/ Record(e, "http", "addresses")
  BY <1>3 DEF Record, SaveObservation
<1>4. CASE UpsertAddress(e) \/ AddressesDone(e)
  BY <1>4 DEF UpsertAddress, UpsertEntities, AddressesDone
<1>5. CASE Summarise(e) \/ PublishAnalysis(e)
  BY <1>5 DEF Summarise, SetEnrichmentStatus, PublishAnalysis
<1>6. CASE AcknowledgePass(e) \/ AbandonPass(e)
  BY <1>6 DEF AcknowledgePass, AbandonPass
<1>. QED
  BY <1>1, <1>2, <1>3, <1>4, <1>5, <1>6 DEF Enrich

LEMMA PassKeepsOrder ==
  ASSUME TypeInv, OrderInv, NEW e \in Enricher, Enrich(e), UNCHANGED correlationVars
  PROVE  OrderInv'
<1>. USE PassesOnlyAdd DEF OrderInv, correlationVars
<1>1. StagesInOrder'
  BY DEF StagesInOrder, Decided
<1>2. CorrelatesDecided'
  BY DEF CorrelatesDecided, Decided
<1>3. EdgesHaveEnds'
  BY DEF EdgesHaveEnds
<1>. QED
  BY <1>1, <1>2, <1>3

LEMMA AnalysisKeepsOrder ==
  ASSUME TypeInv, OrderInv, NEW i \in Inv, Analyse(i)
  PROVE  OrderInv'
<1>. status \in [Inv -> Status] /\ verdict \in [Inv -> Rows] /\ csubject \in [Correlator -> Inv]
  BY DEF TypeInv, TypeOK, EvidenceTypeOK, ShapesOK
<1>. USE DEF OrderInv, correlationVars, enrichmentVars
<1>1. StagesInOrder'
  <2>1. CASE EnterAnalysis(i)
    BY <2>1 DEF StagesInOrder, Decided, Analyse, EnterAnalysis, AdvanceOrResume
  <2>2. CASE Conclude(i)
    BY <2>2 DEF StagesInOrder, Decided, Analyse, Conclude
  <2>. QED
    BY <2>1, <2>2 DEF Analyse
<1>2. CorrelatesDecided'
  <2>1. \A j \in Inv : Decided(j) => Decided(j)'
    BY DEF Decided, Analyse, EnterAnalysis, AdvanceOrResume, Conclude
  <2>. QED
    BY <2>1 DEF CorrelatesDecided, Analyse
<1>3. EdgesHaveEnds'
  BY DEF EdgesHaveEnds, Analyse, EnterAnalysis, AdvanceOrResume, Conclude
<1>. QED
  BY <1>1, <1>2, <1>3

(* Correlation decides nothing.                                            *)
LEMMA CorrelationOnlyAdds ==
  ASSUME TypeInv, NEW c \in Correlator, Correlate(c)
  PROVE  /\ verdict' = verdict /\ observation' = observation /\ summary' = summary
         /\ UNCHANGED enrichmentVars
         /\ entities \subseteq entities' /\ edges \subseteq edges'
         /\ \A d \in Correlator \ {c} :
              cstep'[d] = cstep[d] /\ csubject'[d] = csubject[d] /\ toLink'[d] = toLink[d]
<1>. /\ cstep \in [Correlator -> {"idle", "read", "ends", "edge"}]
     /\ csubject \in [Correlator -> Inv]
     /\ toLink \in [Correlator -> Seq(Edge)]
  BY DEF TypeInv, TypeOK
<1>. USE DEF Correlate, evidenceVars
<1>1. CASE StartCorrelation(c)
  BY <1>1 DEF StartCorrelation, AdvanceOrResume
<1>2. CASE ReadObservations(c) \/ UpsertEnds(c)
  BY <1>2 DEF ReadObservations, UpsertEnds, UpsertEntities
<1>3. CASE SkipHop(c) \/ WriteEdge(c)
  BY <1>3 DEF SkipHop, WriteEdge, CreateRelationship
<1>4. CASE FinishCorrelation(c) \/ AbandonCorrelation(c)
  BY <1>4 DEF FinishCorrelation, AbandonCorrelation
<1>. QED
  BY <1>1, <1>2, <1>3, <1>4

LEMMA CorrelationKeepsOrder ==
  ASSUME TypeInv, OrderInv, NEW c \in Correlator, Correlate(c)
  PROVE  OrderInv'
<1>. /\ status \in [Inv -> Status]
     /\ cstep \in [Correlator -> {"idle", "read", "ends", "edge"}]
     /\ csubject \in [Correlator -> Inv]
     /\ toLink \in [Correlator -> Seq(Edge)]
  BY DEF TypeInv, TypeOK, EvidenceTypeOK
<1>. USE DEF OrderInv
<1>1. \A j \in Inv : Decided(j)' = Decided(j)
  BY CorrelationOnlyAdds DEF Decided
<1>2. enriched' = enriched
  BY CorrelationOnlyAdds DEF enrichmentVars
<1>3. StagesInOrder'
  <2>1. CASE StartCorrelation(c)
    BY <1>1, <1>2, <2>1 DEF StagesInOrder, StartCorrelation, AdvanceOrResume
  <2>2. CASE FinishCorrelation(c)
    BY <1>1, <1>2, <2>2 DEF StagesInOrder, FinishCorrelation
  <2>3. CASE status' = status
    BY <1>1, <1>2, <2>3 DEF StagesInOrder
  <2>4. \/ StartCorrelation(c) \/ FinishCorrelation(c) \/ status' = status
    BY DEF Correlate, ReadObservations, UpsertEnds, UpsertEntities, SkipHop, WriteEdge,
           CreateRelationship, AbandonCorrelation, evidenceVars
  <2>. QED
    BY <2>1, <2>2, <2>3, <2>4
<1>4. CorrelatesDecided'
  <2>1. cstep'[c] # "idle" => Decided(csubject'[c])
    BY DEF CorrelatesDecided, Correlate, StartCorrelation, ReadObservations, UpsertEnds, SkipHop,
           WriteEdge, FinishCorrelation, AbandonCorrelation
  <2>2. \A d \in Correlator \ {c} : cstep'[d] # "idle" => Decided(csubject[d])
    BY CorrelationOnlyAdds DEF CorrelatesDecided
  <2>. QED
    BY <2>1, <2>2, CorrelationOnlyAdds DEF CorrelatesDecided, Decided
<1>5. EdgesHaveEnds'
  <2>1. \A r \in edges' : r[1] \in entities' /\ r[2] \in entities'
    <3>1. CASE WriteEdge(c)
      BY <3>1 DEF EdgesHaveEnds, WriteEdge, CreateRelationship
    <3>2. CASE ~WriteEdge(c)
      <4>1. edges' = edges
        BY <3>2 DEF Correlate, StartCorrelation, AdvanceOrResume, ReadObservations, UpsertEnds,
                    UpsertEntities, SkipHop, FinishCorrelation, AbandonCorrelation, evidenceVars
      <4>. QED
        BY <4>1, CorrelationOnlyAdds DEF EdgesHaveEnds
    <3>. QED
      BY <3>1, <3>2
  <2>2. cstep'[c] = "edge" =>
          /\ Crosses(Head(toLink'[c]))
          /\ Head(toLink'[c])[1] \in entities' /\ Head(toLink'[c])[2] \in entities'
    BY DEF Correlate, StartCorrelation, ReadObservations, UpsertEnds, UpsertEntities, SkipHop,
           WriteEdge, FinishCorrelation, AbandonCorrelation
  <2>. QED
    BY <2>1, <2>2, CorrelationOnlyAdds DEF EdgesHaveEnds
<1>. QED
  BY <1>3, <1>4, <1>5

LEMMA StutteringKeepsOrder == ASSUME OrderInv, UNCHANGED vars PROVE OrderInv'
BY DEF OrderInv, StagesInOrder, CorrelatesDecided, EdgesHaveEnds, Decided,
       vars, evidenceVars, enrichmentVars, correlationVars

-----------------------------------------------------------------------------
(* One collection: passes.                                                 *)

(* A pass writes of its own investigation only, and before it publishes.   *)
LEMMA PassesWriteTheirOwn ==
  ASSUME TypeInv, NEW e \in Enricher, Enrich(e)
  PROVE  /\ \A j \in Inv : estep[e] \in {"idle", "ack"} \/ j # esubject[e] =>
              observation'[j] = observation[j] /\ summary'[j] = summary[j]
         /\ \A f \in Enricher \ {e} :
              /\ estep'[f] = estep[f] /\ esubject'[f] = esubject[f]
              /\ found'[f] = found[f] /\ toRecord'[f] = toRecord[f]
<1>. /\ observation \in [Inv -> Rows] /\ found \in [Enricher -> Rows]
     /\ summary \in [Inv -> [Source -> {"none", "ok", "failed"}]]
     /\ estep \in [Enricher -> PassSteps] /\ esubject \in [Enricher -> Inv]
     /\ toRecord \in [Enricher -> SUBSET Address]
  BY DEF TypeInv, TypeOK, EvidenceTypeOK, PassTypeOK, ShapesOK
<1>. USE DEF evidenceVars, ToStep, Leave
<1>1. CASE StartPass(e)
  BY <1>1 DEF StartPass, AdvanceOrResume
<1>2. CASE CollectBoth(e) \/ UpsertPrimary(e)
  BY <1>2 DEF CollectBoth, UpsertPrimary, UpsertEntities
<1>3. CASE Record(e, "dns", "http") \/ Record(e, "http", "addresses")
  BY <1>3 DEF Record, SaveObservation
<1>4. CASE UpsertAddress(e) \/ AddressesDone(e)
  BY <1>4 DEF UpsertAddress, UpsertEntities, AddressesDone
<1>5. CASE Summarise(e) \/ PublishAnalysis(e)
  BY <1>5 DEF Summarise, SetEnrichmentStatus, PublishAnalysis
<1>6. CASE AcknowledgePass(e) \/ AbandonPass(e)
  BY <1>6 DEF AcknowledgePass, AbandonPass
<1>. QED
  BY <1>1, <1>2, <1>3, <1>4, <1>5, <1>6 DEF Enrich

LEMMA PassesStayAlone ==
  ASSUME TypeInv, OnePassAtATime, NEW e \in Enricher, Enrich(e),
         redeliveries = 0, redeliveries' = 0
  PROVE  OnePassAtATime'
<1>. estep \in [Enricher -> PassSteps] /\ esubject \in [Enricher -> Inv]
  BY DEF TypeInv, TypeOK, PassTypeOK
<1>1. CASE StartPass(e)
  <2>1. PICK j \in Inv \ settled :
          /\ esubject' = [esubject EXCEPT ![e] = j]
          /\ IF UnderWay(j) \/ j \in enriched
             THEN redeliveries < MaxRedeliveries /\ redeliveries' = redeliveries + 1
             ELSE UNCHANGED redeliveries
    BY <1>1 DEF StartPass
  <2>2. ~(UnderWay(j) \/ j \in enriched)
    BY <2>1
  <2>. QED
    BY <1>1, <2>1, <2>2 DEF StartPass, OnePassAtATime, UnderWay
<1>2. CASE PublishAnalysis(e)
  BY <1>2 DEF PublishAnalysis, OnePassAtATime
<1>3. CASE AcknowledgePass(e) \/ AbandonPass(e)
  BY <1>3 DEF AcknowledgePass, AbandonPass, Leave, OnePassAtATime
<1>4. CASE CollectBoth(e) \/ UpsertPrimary(e) \/ UpsertAddress(e) \/ AddressesDone(e)
  BY <1>4 DEF CollectBoth, UpsertPrimary, UpsertAddress, AddressesDone, ToStep, OnePassAtATime
<1>5. CASE Record(e, "dns", "http") \/ Record(e, "http", "addresses") \/ Summarise(e)
  BY <1>5 DEF Record, Summarise, ToStep, OnePassAtATime
<1>. QED
  BY <1>1, <1>2, <1>3, <1>4, <1>5 DEF Enrich

LEMMA PassWritesInOrder ==
  ASSUME TypeInv, NEW e \in Enricher, WrittenSoFar(e), Enrich(e)
  PROVE  WrittenSoFar(e)'
<1>. DEFINE i == esubject[e]
<1>. /\ observation \in [Inv -> Rows] /\ found \in [Enricher -> Rows]
     /\ summary \in [Inv -> [Source -> {"none", "ok", "failed"}]]
     /\ estep \in [Enricher -> PassSteps] /\ i \in Inv
     /\ esubject \in [Enricher -> Inv]
     /\ toRecord \in [Enricher -> SUBSET Address]
  BY DEF TypeInv, TypeOK, EvidenceTypeOK, PassTypeOK, ShapesOK
<1>. USE DEF PassSteps
<1>1. CASE StartPass(e)
  BY <1>1 DEF StartPass, WrittenSoFar
<1>2. CASE CollectBoth(e)
  BY <1>2 DEF CollectBoth, WrittenSoFar, Source
<1>3. CASE UpsertPrimary(e)
  BY <1>3 DEF UpsertPrimary, UpsertEntities, ToStep, WrittenSoFar
<1>4. CASE Record(e, "dns", "http")
  <2>1. observation'[i]["dns"] = found[e]["dns"]
    BY <1>4 DEF Record, SaveObservation, Rows, Source
  <2>. QED
    BY <1>4, <2>1 DEF Record, SaveObservation, ToStep, WrittenSoFar
<1>5. CASE Record(e, "http", "addresses")
  <2>1. observation'[i]["http"] = found[e]["http"]
    BY <1>5 DEF Record, SaveObservation, Rows, Source
  <2>2. observation'[i]["dns"] = observation[i]["dns"]
    BY <1>5 DEF Record, SaveObservation, Rows, Source
  <2>. QED
    BY <1>5, <2>1, <2>2 DEF Record, SaveObservation, ToStep, WrittenSoFar
<1>6. CASE UpsertAddress(e)
  <2>1. PICK a \in toRecord[e] :
          /\ UpsertEntities({Ip(a)})
          /\ toRecord' = [toRecord EXCEPT ![e] = toRecord[e] \ {a}]
    BY <1>6 DEF UpsertAddress
  <2>2. toRecord'[e] = toRecord[e] \ {a} /\ entities' = entities \cup {Ip(a)}
    BY <2>1 DEF UpsertEntities
  <2>3. /\ estep[e] = "addresses" /\ estep' = estep /\ esubject' = esubject /\ found' = found
        /\ observation' = observation
    BY <1>6, <2>1 DEF UpsertAddress, UpsertEntities
  <2>4. \A s \in Source : \A b \in found'[e][s].addresses :
          b \in toRecord'[e] \/ Ip(b) \in entities'
    BY <2>2, <2>3 DEF WrittenSoFar
  <2>. QED
    BY <2>3, <2>4 DEF WrittenSoFar
<1>7. CASE AddressesDone(e)
  BY <1>7 DEF AddressesDone, ToStep, WrittenSoFar, evidenceVars
<1>8. CASE Summarise(e)
  <2>1. summary'[i] = [s \in Source |-> found[e][s].status]
    BY <1>8 DEF Summarise, SetEnrichmentStatus
  <2>. QED
    BY <1>8, <2>1 DEF Summarise, SetEnrichmentStatus, ToStep, WrittenSoFar
<1>9. CASE PublishAnalysis(e)
  BY <1>9 DEF PublishAnalysis, WrittenSoFar
<1>10. CASE AcknowledgePass(e) \/ AbandonPass(e)
  BY <1>10 DEF AcknowledgePass, AbandonPass, Leave, WrittenSoFar
<1>. QED
  BY <1>1, <1>2, <1>3, <1>4, <1>5, <1>6, <1>7, <1>8, <1>9, <1>10 DEF Enrich

LEMMA PassesLeaveOthersAlone ==
  ASSUME TypeInv, OnePassAtATime, NEW e \in Enricher, Enrich(e),
         NEW f \in Enricher \ {e}, WrittenSoFar(f)
  PROVE  WrittenSoFar(f)'
<1>. esubject[f] \in Inv /\ estep[f] \in PassSteps /\ estep[e] \in PassSteps
  BY DEF TypeInv, TypeOK, PassTypeOK
<1>1. /\ estep'[f] = estep[f] /\ esubject'[f] = esubject[f]
      /\ found'[f] = found[f] /\ toRecord'[f] = toRecord[f]
      /\ entities \subseteq entities'
  BY PassesWriteTheirOwn, PassesOnlyAdd
<1>2. CASE estep[f] = "idle"
  BY <1>1, <1>2 DEF WrittenSoFar
<1>3. CASE estep[f] # "idle"
  <2>1. estep[e] = "idle" \/ esubject[f] # esubject[e]
    BY <1>3 DEF OnePassAtATime
  <2>2. /\ observation'[esubject[f]] = observation[esubject[f]]
        /\ summary'[esubject[f]] = summary[esubject[f]]
    BY <2>1, PassesWriteTheirOwn
  <2>. QED
    BY <1>1, <2>2 DEF WrittenSoFar
<1>. QED
  BY <1>2, <1>3

LEMMA PassKeepsPasses ==
  ASSUME TypeInv, PassesInv, NEW e \in Enricher, Enrich(e),
         redeliveries = 0, redeliveries' = 0
  PROVE  PassesInv'
<1>. USE DEF PassesInv
<1>1. OnePassAtATime'
  BY PassesStayAlone
<1>2. ASSUME NEW f \in Enricher PROVE WrittenSoFar(f)'
  BY PassWritesInOrder, PassesLeaveOthersAlone
<1>3. esubject[e] \in Inv /\ enriched \subseteq Inv /\ estep[e] \in PassSteps
  BY DEF TypeInv, TypeOK, PassTypeOK
<1>4. \A j \in enriched : observation'[j] = observation[j] /\ summary'[j] = summary[j]
  BY <1>3, PassesWriteTheirOwn DEF OnePassAtATime
<1>5. \A j \in enriched' \ enriched :
        /\ j = esubject[e] /\ estep[e] = "publish"
        /\ observation'[j] = observation[j] /\ summary'[j] = summary[j]
  BY DEF Enrich, StartPass, CollectBoth, UpsertPrimary, Record, UpsertAddress, AddressesDone,
         Summarise, PublishAnalysis, AcknowledgePass, AbandonPass, ToStep, Leave, evidenceVars
<1>6. entities \subseteq entities'
  BY PassesOnlyAdd
<1>7. ASSUME estep[e] = "publish", NEW s \in Source
      PROVE  /\ observation[esubject[e]][s] = found[e][s]
             /\ summary[esubject[e]][s] = found[e][s].status
             /\ \A a \in found[e][s].addresses : Ip(a) \in entities
  BY <1>7 DEF WrittenSoFar, Source, PassSteps
<1>8. Summarised'
  BY <1>4, <1>5, <1>7 DEF Summarised
<1>9. Recorded'
  BY <1>4, <1>5, <1>6, <1>7 DEF Recorded
<1>. QED
  BY <1>1, <1>2, <1>8, <1>9

LEMMA PassKeepsGraph ==
  ASSUME TypeInv, OrderInv, PassesInv, GraphInv, NEW e \in Enricher, Enrich(e),
         UNCHANGED correlationVars
  PROVE  GraphInv'
<1>. USE PassesOnlyAdd DEF GraphInv, correlationVars
<1>1. CitedIsStored'
  <2>1. ASSUME NEW j \in Inv, Decided(j) PROVE observation'[j] = observation[j]
    <3>1. j \in enriched
      BY <2>1 DEF OrderInv, StagesInOrder
    <3>. QED
      BY <3>1, PassesWriteTheirOwn DEF PassesInv, OnePassAtATime
  <2>. QED
    BY <2>1 DEF CitedIsStored, Decided
<1>2. LinksRemain'
  BY DEF LinksRemain
<1>3. Linked'
  BY DEF Linked
<1>4. (edges \subseteq UNION {EdgesOf(i, verdict[i]) : i \in {j \in Inv : Decided(j)}})'
  BY DEF Decided
<1>. QED
  BY <1>1, <1>2, <1>3, <1>4

-----------------------------------------------------------------------------
(* One collection: analysis and correlation.                               *)

LEMMA AnalysisKeepsOnce ==
  ASSUME TypeInv, OrderInv, PassesInv, GraphInv, NEW i \in Inv, Analyse(i)
  PROVE  PassesInv' /\ GraphInv'
<1>. verdict \in [Inv -> Rows] /\ status \in [Inv -> Status] /\ csubject \in [Correlator -> Inv]
  BY DEF TypeInv, TypeOK, EvidenceTypeOK, ShapesOK
<1>1. UNCHANGED <<observation, summary, entities, edges, enrichmentVars, correlationVars>>
  BY DEF Analyse, EnterAnalysis, AdvanceOrResume, Conclude
<1>2. PassesInv'
  BY <1>1 DEF PassesInv, OnePassAtATime, WrittenSoFar, Summarised, Recorded, enrichmentVars, passVars
<1>3. \A j \in Inv : Decided(j) => verdict'[j] = verdict[j]
  BY DEF Analyse, EnterAnalysis, AdvanceOrResume, Conclude, Decided
<1>4. \A j \in Inv : verdict'[j] = verdict[j] \/ verdict'[j] = observation[j]
  BY DEF Analyse, EnterAnalysis, AdvanceOrResume, Conclude
<1>5. \A j \in Inv : status'[j] = "complete" => status[j] = "complete"
  BY DEF Analyse, EnterAnalysis, AdvanceOrResume, Conclude
<1>6. CitedIsStored'
  BY <1>1, <1>4 DEF GraphInv, CitedIsStored, Decided
<1>7. \A c \in Correlator : cstep[c] # "idle" =>
        verdict'[csubject[c]] = verdict[csubject[c]]
  BY <1>3 DEF OrderInv, CorrelatesDecided
<1>8. LinksRemain'
  BY <1>1, <1>7 DEF GraphInv, LinksRemain, correlationVars
<1>9. Linked'
  <2>1. ASSUME NEW j \in Inv, status'[j] = "complete"
        PROVE  EdgesOf(j, verdict'[j]) \subseteq edges'
    <3>1. status[j] = "complete" /\ Decided(j)
      BY <1>5, <2>1 DEF OrderInv, StagesInOrder
    <3>2. verdict'[j] = verdict[j]
      BY <1>3, <3>1
    <3>3. EdgesOf(j, verdict[j]) \subseteq edges
      BY <3>1 DEF GraphInv, Linked
    <3>. QED
      BY <1>1, <3>2, <3>3
  <2>. QED
    BY <2>1 DEF Linked
<1>10. ASSUME NEW r \in edges'
       PROVE  \E j \in Inv : verdict'[j] # Nothing /\ r \in EdgesOf(j, verdict'[j])
  <2>1. r \in edges
    BY <1>1
  <2>2. PICK j \in Inv : Decided(j) /\ r \in EdgesOf(j, verdict[j])
    BY <2>1 DEF GraphInv
  <2>3. verdict'[j] = verdict[j]
    BY <1>3, <2>2
  <2>. QED
    BY <2>2, <2>3 DEF Decided
<1>11. (edges \subseteq UNION {EdgesOf(i_1, verdict[i_1]) : i_1 \in {j \in Inv : Decided(j)}})'
  BY <1>10 DEF Decided
<1>. QED
  BY <1>2, <1>6, <1>8, <1>9, <1>11 DEF GraphInv

LEMMA CorrelationKeepsPasses ==
  ASSUME TypeInv, PassesInv, NEW c \in Correlator, Correlate(c)
  PROVE  PassesInv'
BY CorrelationOnlyAdds
   DEF PassesInv, OnePassAtATime, WrittenSoFar, Summarised, Recorded, enrichmentVars, passVars

LEMMA LinksStayKnown ==
  ASSUME TypeInv, OrderInv, GraphInv, NEW c \in Correlator, Correlate(c)
  PROVE  LinksRemain'
<1>. DEFINE i == csubject[c]
            shown == EdgesOf(i, verdict[i])
<1>1. /\ cstep \in [Correlator -> {"idle", "read", "ends", "edge"}]
      /\ csubject \in [Correlator -> Inv] /\ i \in Inv
      /\ toLink \in [Correlator -> Seq(Edge)] /\ toLink[c] \in Seq(Edge)
  BY DEF TypeInv, TypeOK
<1>2. verdict' = verdict /\ edges \subseteq edges'
  BY CorrelationOnlyAdds
<1>3. ASSUME NEW d \in Correlator \ {c}, cstep'[d] \in {"ends", "edge"}
      PROVE  /\ EdgesOf(csubject'[d], verdict'[csubject'[d]]) \subseteq edges' \cup Range(toLink'[d])
             /\ \A link \in Range(toLink'[d]) :
                  Crosses(link) => link \in EdgesOf(csubject'[d], verdict'[csubject'[d]])
  <2>1. cstep'[d] = cstep[d] /\ csubject'[d] = csubject[d] /\ toLink'[d] = toLink[d]
    BY CorrelationOnlyAdds
  <2>2. /\ EdgesOf(csubject[d], verdict[csubject[d]]) \subseteq edges \cup Range(toLink[d])
        /\ \A link \in Range(toLink[d]) :
             Crosses(link) => link \in EdgesOf(csubject[d], verdict[csubject[d]])
    BY <1>3, <2>1 DEF GraphInv, LinksRemain
  <2>. QED
    BY <1>2, <2>1, <2>2
<1>4. ASSUME cstep[c] \in {"ends", "edge"}
      PROVE  /\ shown \subseteq edges \cup Range(toLink[c])
             /\ \A link \in Range(toLink[c]) : Crosses(link) => link \in shown
  BY <1>4 DEF GraphInv, LinksRemain
<1>5. ASSUME cstep'[c] \in {"ends", "edge"}
      PROVE  /\ csubject'[c] = i
             /\ shown \subseteq edges' \cup Range(toLink'[c])
             /\ \A link \in Range(toLink'[c]) : Crosses(link) => link \in shown
  <2>. HIDE DEF shown
  <2>1. CASE StartCorrelation(c) \/ FinishCorrelation(c) \/ AbandonCorrelation(c)
    BY <1>1, <1>5, <2>1 DEF StartCorrelation, FinishCorrelation, AbandonCorrelation
  <2>2. CASE ReadObservations(c)
    <3>1. csubject' = csubject /\ toLink'[c] = LinksOf(i, observation[i])
      BY <1>1, <2>2 DEF ReadObservations
    <3>2. verdict[i] = observation[i]
      BY <1>1, <2>2 DEF ReadObservations, OrderInv, CorrelatesDecided, GraphInv, CitedIsStored
    <3>3. shown = {link \in Range(toLink'[c]) : Crosses(link)}
      BY <3>1, <3>2 DEF shown, EdgesOf
    <3>. QED
      BY <3>1, <3>3
  <2>3. CASE SkipHop(c)
    <3>1. cstep[c] = "ends" /\ csubject' = csubject /\ toLink'[c] = Tail(toLink[c])
      BY <1>1, <2>3 DEF SkipHop
    <3>2. Range(toLink[c]) = {Head(toLink[c])} \cup Range(Tail(toLink[c]))
      BY <1>1, <2>3, FirstAndRest DEF SkipHop
    <3>3. \A link \in shown : Crosses(link)
      BY DEF shown, EdgesOf
    <3>4. ~Crosses(Head(toLink[c]))
      BY <2>3 DEF SkipHop
    <3>. QED
      BY <1>2, <1>4, <3>1, <3>2, <3>3, <3>4
  <2>4. CASE UpsertEnds(c)
    BY <1>2, <1>4, <2>4 DEF UpsertEnds
  <2>5. CASE WriteEdge(c)
    <3>1. cstep[c] = "edge" /\ csubject' = csubject /\ toLink'[c] = Tail(toLink[c])
      BY <1>1, <2>5 DEF WriteEdge
    <3>2. toLink[c] # <<>>
      BY <3>1 DEF TypeInv, HasEdge
    <3>3. Range(toLink[c]) = {Head(toLink[c])} \cup Range(Tail(toLink[c]))
      BY <1>1, <3>2, FirstAndRest
    <3>4. edges' = edges \cup {Head(toLink[c])}
      BY <2>5, <3>1 DEF WriteEdge, CreateRelationship, OrderInv, EdgesHaveEnds, Crosses
    <3>. QED
      BY <1>4, <3>1, <3>3, <3>4
  <2>. QED
    BY <2>1, <2>2, <2>3, <2>4, <2>5 DEF Correlate
<1>6. ASSUME NEW d \in Correlator, cstep'[d] \in {"ends", "edge"}
      PROVE  /\ EdgesOf(csubject'[d], verdict'[csubject'[d]]) \subseteq edges' \cup Range(toLink'[d])
             /\ \A link \in Range(toLink'[d]) :
                  Crosses(link) => link \in EdgesOf(csubject'[d], verdict'[csubject'[d]])
  BY <1>2, <1>3, <1>5, <1>6
<1>. QED
  BY <1>6 DEF LinksRemain

LEMMA CorrelationKeepsGraph ==
  ASSUME TypeInv, OrderInv, GraphInv, NEW c \in Correlator, Correlate(c)
  PROVE  GraphInv'
<1>. DEFINE i == csubject[c]
<1>1. /\ status \in [Inv -> Status] /\ csubject \in [Correlator -> Inv] /\ i \in Inv
      /\ toLink[c] \in Seq(Edge)
  BY DEF TypeInv, TypeOK, EvidenceTypeOK
<1>2. verdict' = verdict /\ observation' = observation /\ edges \subseteq edges'
  BY CorrelationOnlyAdds
<1>3. CitedIsStored'
  BY <1>2 DEF GraphInv, CitedIsStored, Decided
<1>4. LinksRemain'
  BY LinksStayKnown
<1>5. Linked'
  <2>1. ASSUME NEW j \in Inv, status'[j] = "complete", status[j] # "complete"
        PROVE  EdgesOf(j, verdict[j]) \subseteq edges
    <3>1. FinishCorrelation(c) /\ j = i
      BY <1>1, <2>1 DEF Correlate, StartCorrelation, AdvanceOrResume, ReadObservations, UpsertEnds,
           UpsertEntities, SkipHop, WriteEdge, CreateRelationship, FinishCorrelation,
           AbandonCorrelation, evidenceVars
    <3>2. EdgesOf(i, verdict[i]) \subseteq edges \cup Range(toLink[c]) /\ toLink[c] = <<>>
      BY <3>1 DEF FinishCorrelation, GraphInv, LinksRemain
    <3>3. Range(<<>>) = {}
      BY DEF Range
    <3>. QED
      BY <3>1, <3>2, <3>3
  <2>. QED
    BY <1>2, <2>1 DEF GraphInv, Linked
<1>6. ASSUME NEW r \in edges'
      PROVE  \E j \in Inv : Decided(j) /\ r \in EdgesOf(j, verdict[j])
  <2>1. CASE r \in edges
    BY <2>1 DEF GraphInv
  <2>2. CASE r \notin edges
    <3>1. WriteEdge(c) /\ r = Head(toLink[c])
      BY <1>6, <2>2 DEF Correlate, StartCorrelation, AdvanceOrResume, ReadObservations, UpsertEnds,
           UpsertEntities, SkipHop, WriteEdge, CreateRelationship, FinishCorrelation,
           AbandonCorrelation, evidenceVars
    <3>2. toLink[c] # <<>> /\ cstep[c] = "edge" /\ Crosses(r)
      BY <3>1 DEF WriteEdge, TypeInv, HasEdge, OrderInv, EdgesHaveEnds
    <3>3. r \in Range(toLink[c])
      BY <1>1, <3>1, <3>2, FirstAndRest
    <3>4. r \in EdgesOf(i, verdict[i])
      BY <3>2, <3>3 DEF GraphInv, LinksRemain
    <3>5. Decided(i)
      BY <3>2 DEF OrderInv, CorrelatesDecided
    <3>. QED
      BY <1>1, <3>4, <3>5
  <2>. QED
    BY <2>1, <2>2
<1>7. (edges \subseteq UNION {EdgesOf(i_1, verdict[i_1]) : i_1 \in {j \in Inv : Decided(j)}})'
  BY <1>2, <1>6 DEF Decided
<1>. QED
  BY <1>3, <1>4, <1>5, <1>7 DEF GraphInv

-----------------------------------------------------------------------------
(* The invariant.                                                          *)

LEMMA EvidenceStart == Init => EvidenceInv
<1> SUFFICES ASSUME Init PROVE EvidenceInv
  OBVIOUS
<1>. USE DEF Init, EvidenceInit, PassInit
<1>1. \A i \in Inv : ~Decided(i)
  BY DEF Decided, Nothing
<1>2. OrderInv
  BY <1>1 DEF OrderInv, StagesInOrder, CorrelatesDecided, EdgesHaveEnds
<1>3. PassesInv
  BY DEF PassesInv, OnePassAtATime, WrittenSoFar, Summarised, Recorded
<1>4. GraphInv
  BY <1>1 DEF GraphInv, CitedIsStored, LinksRemain, Linked
<1>. QED
  BY <1>2, <1>3, <1>4, TypesHoldAtFirst DEF EvidenceInv, OnceInv

LEMMA EvidenceStep == EvidenceInv /\ [Next]_vars => EvidenceInv'
<1> SUFFICES ASSUME EvidenceInv, [Next]_vars PROVE EvidenceInv'
  OBVIOUS
<1>. USE DEF EvidenceInv
<1>1. redeliveries \in Nat /\ redeliveries' \in Nat /\ TypeInv'
  BY PassKeepsTypes, AnalysisKeepsTypes, CorrelationKeepsTypes, StutteringKeepsTypes,
     RedeliveriesAreBounded DEF Next, TypeInv, TypeOK, PassTypeOK
<1>2. CASE \E e \in Enricher : Enrich(e) /\ UNCHANGED correlationVars
  <2>1. PICK e \in Enricher : Enrich(e) /\ UNCHANGED correlationVars
    BY <1>2
  <2>2. OrderInv'
    BY <2>1, PassKeepsOrder
  <2>3. redeliveries <= redeliveries'
    BY <2>1, PassesOnlyAdd
  <2>4. ASSUME redeliveries' = 0 PROVE PassesInv' /\ GraphInv'
    <3>1. redeliveries = 0
      BY <1>1, <2>3, <2>4
    <3>2. PassesInv /\ GraphInv
      BY <3>1 DEF OnceInv, CollectedOnce
    <3>. QED
      BY <2>1, <2>4, <3>1, <3>2, PassKeepsPasses, PassKeepsGraph
  <2>. QED
    BY <1>1, <2>2, <2>4 DEF OnceInv, CollectedOnce
<1>3. CASE \E i \in Inv : Analyse(i)
  <2>1. PICK i \in Inv : Analyse(i)
    BY <1>3
  <2>2. OrderInv' /\ redeliveries' = redeliveries
    BY <2>1, AnalysisKeepsOrder DEF Analyse, enrichmentVars
  <2>. QED
    BY <1>1, <2>1, <2>2, AnalysisKeepsOnce DEF OnceInv, CollectedOnce
<1>4. CASE \E c \in Correlator : Correlate(c)
  <2>1. PICK c \in Correlator : Correlate(c)
    BY <1>4
  <2>2. OrderInv' /\ redeliveries' = redeliveries
    BY <2>1, CorrelationKeepsOrder DEF Correlate, enrichmentVars
  <2>. QED
    BY <1>1, <2>1, <2>2, CorrelationKeepsPasses, CorrelationKeepsGraph DEF OnceInv, CollectedOnce
<1>5. CASE UNCHANGED vars
  <2>1. OrderInv'
    BY <1>5, StutteringKeepsOrder
  <2>2. OnceInv'
    BY <1>5 DEF OnceInv, CollectedOnce, PassesInv, OnePassAtATime, WrittenSoFar, Summarised, Recorded,
           GraphInv, CitedIsStored, LinksRemain, Linked, Decided,
           vars, evidenceVars, enrichmentVars, passVars, correlationVars
  <2>. QED
    BY <1>1, <2>1, <2>2
<1>. QED
  BY <1>2, <1>3, <1>4, <1>5 DEF Next

THEOREM EvidenceInvariant == Spec => []EvidenceInv
BY EvidenceStart, EvidenceStep, PTL DEF Spec

-----------------------------------------------------------------------------

(* The summary of the sources says what the stored observations say, once  *)
(* the analyst may read either, though two statements write them.          *)
THEOREM SummariesAreTrue == Spec => []SummaryMatchesEvidence
<1>1. EvidenceInv => SummaryMatchesEvidence
  BY DEF EvidenceInv, OnceInv, PassesInv, Summarised, SummaryMatchesEvidence
<1>. QED
  BY <1>1, EvidenceInvariant, PTL

(* No address a source observed is missing among the entities by the time  *)
(* the analyze task is published, whichever passes were interrupted.       *)
THEOREM AddressesBecomeEntities == Spec => []AddressesAreEntities
<1>1. EvidenceInv => AddressesAreEntities
  BY DEF EvidenceInv, OnceInv, PassesInv, Recorded, AddressesAreEntities
<1>. QED
  BY <1>1, EvidenceInvariant, PTL

(* Interrupted passes and correlations leave no edge that the evidence     *)
(* behind some verdict does not show.                                      *)
THEOREM EdgesAreObserved == Spec => []GraphIsObserved
<1>1. EvidenceInv => GraphIsObserved
  BY DEF EvidenceInv, OnceInv, GraphInv, GraphIsObserved
<1>. QED
  BY <1>1, EvidenceInvariant, PTL

LEMMA CompleteShowsEdges == EvidenceInv => CompleteIsLinked
<1> SUFFICES ASSUME EvidenceInv, CollectedOnce, NEW i \in Inv, status[i] = "complete"
             PROVE  EdgesOf(i, observation[i]) \subseteq edges
  BY DEF CompleteIsLinked
<1>1. verdict[i] = observation[i]
  BY DEF EvidenceInv, OrderInv, StagesInOrder, OnceInv, GraphInv, CitedIsStored
<1>2. EdgesOf(i, verdict[i]) \subseteq edges
  BY DEF EvidenceInv, OnceInv, GraphInv, Linked
<1>. QED
  BY <1>1, <1>2

(* A complete investigation has every edge its evidence shows, whichever   *)
(* of any number of correlations finished first and whichever died.        *)
THEOREM CompletedAreLinked == Spec => []CompleteIsLinked
BY CompleteShowsEdges, EvidenceInvariant, PTL

(* The addresses its domain resolves to are in the view of a complete      *)
(* investigation, which reaches them over those edges only.                *)
THEOREM CompletedAreVisible == Spec => []CompleteIsVisible
<1>1. EvidenceInv => CompleteIsVisible
  <2> SUFFICES ASSUME EvidenceInv, CollectedOnce, NEW i \in Inv, status[i] = "complete",
                      NEW a \in observation[i]["dns"].addresses
               PROVE  /\ Ip(a) \in ViewEntities(i)
                      /\ <<Domain(HostOf[i]), Ip(a), "resolves_to">> \in ViewRelationships(i)
    BY DEF CompleteIsVisible
  <2>. DEFINE domain == Domain(HostOf[i])
              r == <<domain, Ip(a), "resolves_to">>
  <2>1. observation[i] \in Rows
    BY DEF EvidenceInv, TypeInv, ShapesOK
  <2>2. r \in EdgesOf(i, observation[i])
    BY <2>1, LinksAreEdges
  <2>3. r \in edges
    BY <2>2, CompleteShowsEdges DEF CompleteIsLinked
  <2>4. Ip(a) \in entities
    BY <2>3 DEF EvidenceInv, OrderInv, EdgesHaveEnds
  <2>5. observation[i]["dns"] # NoRow
    BY DEF NoRow
  <2>6. domain \in Observed(i)
    BY <2>5 DEF Observed, ObservedEntity, Source
  <2>7. Ip(a) \in Reachable(i)
    <3>1. r[1] = domain /\ r[2] = Ip(a)
      OBVIOUS
    <3>. QED
      BY <2>3, <2>6, <3>1 DEF Reachable
  <2>8. Ip(a) \in ViewEntities(i)
    BY <2>4, <2>7 DEF ViewEntities
  <2>. QED
    BY <2>3, <2>8 DEF ViewRelationships
<1>. QED
  BY <1>1, EvidenceInvariant, PTL
=============================================================================
