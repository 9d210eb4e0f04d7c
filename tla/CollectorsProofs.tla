--------------------------- MODULE CollectorsProofs ---------------------------
(***************************************************************************)
(* For any hosts, addresses and redirect limit, and whatever names resolve *)
(* to: connections go to allowed addresses only, and what the collectors   *)
(* hand over is what the modules about evidence assume of it.              *)
(***************************************************************************)
EXTENDS Collectors, SequenceTheorems, TLAPS

HttpSteps == {"hop", "connect", "response", "returned", "raised"}

HttpTypeOK ==
  /\ hstep \in HttpSteps
  /\ current \in Host \cup {NoHost}
  /\ hop \in Nat
  /\ chain \in Seq(Host)
  /\ resolved \subseteq Address
  /\ connected \subseteq Address
  /\ answered \in [Host -> SUBSET Address]

DnsTypeOK ==
  /\ dstep \in Range(RecordTypes) \cup {"returned", "raised"}
  /\ records \subseteq Address

(* The chain has one host for each hop begun, and begins at the indicator. *)
ChainFollowsHops ==
  /\ hstep = "hop" => Len(chain) = hop /\ hop <= MaxRedirects + 1
  /\ hstep \in {"connect", "response", "returned"} =>
       Len(chain) = hop + 1 /\ hop <= MaxRedirects
  /\ hstep = "hop" /\ hop = 0 => current = Origin
  /\ Len(chain) > 0 => chain[1] = Origin

(* What is resolved belongs to the host that is asked, the last one, and   *)
(* was found allowed.                                                      *)
ResolvedIsCurrent ==
  hstep \in {"connect", "response", "returned"} =>
    /\ current \in Host /\ chain[Len(chain)] = current
    /\ Allowed(resolved) /\ resolved \subseteq answered[current]
    /\ Literal(current) => resolved = {LiteralAddress[current]}

(* Where HTTP failed or has not returned, it handed over nothing; else it  *)
(* handed over what it has.                                                *)
FoundIsHandedOver ==
  \/ found = [s \in Source |-> None]
  \/ /\ hstep \in {"returned", "raised"} /\ dstep \in {"returned", "raised"}
     /\ found["dns"] = IF dstep = "raised" THEN Failed ELSE Ok(records, <<>>)
     /\ found["http"] = IF hstep = "raised" THEN Failed ELSE Ok(resolved, chain)

CollectorsInv ==
  /\ HttpTypeOK
  /\ DnsTypeOK
  /\ ChainFollowsHops
  /\ ResolvedIsCurrent
  /\ FoundIsHandedOver
  /\ OnlyAllowedTargets

-----------------------------------------------------------------------------

LEMMA CollectorsStart == Init => CollectorsInv
<1> SUFFICES ASSUME Init PROVE CollectorsInv
  OBVIOUS
<1>1. HttpTypeOK
  BY IndicatorHasHost, EmptySeq DEF Init, HttpTypeOK, HttpSteps
<1>2. DnsTypeOK
  <2>1. 1 \in DOMAIN RecordTypes /\ RecordTypes[1] = "A"
    BY DEF RecordTypes
  <2>2. "A" \in Range(RecordTypes)
    BY <2>1 DEF Range
  <2> QED BY <2>2 DEF Init, DnsTypeOK
<1>3. ChainFollowsHops /\ ResolvedIsCurrent /\ OnlyAllowedTargets /\ FoundIsHandedOver
  BY RedirectsAreBounded, EmptySeq
     DEF Init, ChainFollowsHops, ResolvedIsCurrent, OnlyAllowedTargets, FoundIsHandedOver
<1> QED BY <1>1, <1>2, <1>3 DEF CollectorsInv

(* Once the sources are gathered both collectors have ended.               *)
LEMMA RunningIsNotGathered ==
  ASSUME FoundIsHandedOver,
         \/ hstep \notin {"returned", "raised"}
         \/ dstep \notin {"returned", "raised"}
  PROVE  found = [s \in Source |-> None]
BY DEF FoundIsHandedOver

LEMMA ResolutionsAreAddresses ==
  ASSUME NEW h \in Host, NEW ips \in Resolutions(h)
  PROVE  /\ ips \in SUBSET Address
         /\ Literal(h) => ips = {LiteralAddress[h]}
BY LiteralsAreAddresses DEF Resolutions, Literal

LEMMA HttpIsSafe ==
  ASSUME CollectorsInv, Http
  PROVE  CollectorsInv'
<1> USE DEF CollectorsInv
<1>1. UNCHANGED <<dstep, records, found>>
  BY DEF Http, dnsVars
<1>2. hstep \notin {"returned", "raised"}
  BY DEF Http, TooManyRedirects, NoHostname, Preflight, Connect, Redirected, Fetched, RequestFails
<1>3. DnsTypeOK' /\ FoundIsHandedOver'
  BY <1>1, <1>2, RunningIsNotGathered DEF DnsTypeOK, FoundIsHandedOver
<1> SUFFICES HttpTypeOK' /\ ChainFollowsHops' /\ ResolvedIsCurrent' /\ OnlyAllowedTargets'
  BY <1>1, <1>3
<1>4. CASE HttpRaises
  BY <1>4 DEF HttpRaises, HttpTypeOK, HttpSteps, ChainFollowsHops, ResolvedIsCurrent, OnlyAllowedTargets
<1>5. ASSUME NEW ips \in Resolutions(current), Allowed(ips),
             hstep = "hop", ~Exhausted, current # NoHost,
             answered' = [answered EXCEPT ![current] = @ \cup ips],
             resolved' = ips, chain' = Append(chain, current), hstep' = "connect",
             UNCHANGED <<current, hop, connected>>
      PROVE  HttpTypeOK' /\ ChainFollowsHops' /\ ResolvedIsCurrent' /\ OnlyAllowedTargets'
  <2>1. current \in Host /\ chain \in Seq(Host) /\ Len(chain) = hop /\ hop \in Nat /\ hop <= MaxRedirects
    BY <1>5, RedirectsAreBounded DEF HttpTypeOK, ChainFollowsHops, Exhausted
  <2>2. /\ chain' \in Seq(Host) /\ Len(chain') = hop + 1
        /\ \A k \in 1 .. hop : chain'[k] = chain[k]
        /\ chain'[hop + 1] = current
    BY <1>5, <2>1, AppendProperties
  <2>a. ips \in SUBSET Address /\ (Literal(current) => ips = {LiteralAddress[current]})
    BY <2>1, ResolutionsAreAddresses
  <2>3. HttpTypeOK'
    BY <1>5, <2>2, <2>a DEF HttpTypeOK, HttpSteps
  <2>4. ChainFollowsHops'
    BY <1>5, <2>1, <2>2 DEF ChainFollowsHops
  <2>5. ResolvedIsCurrent'
    BY <1>5, <2>1, <2>2, <2>a DEF ResolvedIsCurrent, Literal, HttpTypeOK
  <2> QED BY <1>5, <2>3, <2>4, <2>5 DEF OnlyAllowedTargets
<1>6. ASSUME NEW ips \in Resolutions(current), Literal(current) \/ Allowed(ips), NEW ip \in ips,
             hstep = "connect", hstep' = "response", connected' = connected \cup {ip},
             UNCHANGED <<current, hop, chain, resolved, answered>>
      PROVE  HttpTypeOK' /\ ChainFollowsHops' /\ ResolvedIsCurrent' /\ OnlyAllowedTargets'
  <2>1. ip \in Address /\ ip \notin Blocked
    <3>1. current \in Host /\ Allowed(resolved) /\ (Literal(current) => resolved = {LiteralAddress[current]})
      BY <1>6 DEF ResolvedIsCurrent
    <3> QED BY <1>6, <3>1, ResolutionsAreAddresses DEF Allowed
  <2> QED BY <1>6, <2>1 DEF HttpTypeOK, HttpSteps, ChainFollowsHops, ResolvedIsCurrent, OnlyAllowedTargets
<1>7. CASE Redirected
  BY <1>7, RedirectsAreBounded
     DEF Redirected, HttpTypeOK, HttpSteps, ChainFollowsHops, ResolvedIsCurrent, OnlyAllowedTargets
<1>8. CASE Fetched
  BY <1>8 DEF Fetched, HttpTypeOK, HttpSteps, ChainFollowsHops, ResolvedIsCurrent, OnlyAllowedTargets
<1>9. CASE Preflight
  BY <1>4, <1>5, <1>9 DEF Preflight
<1>10. CASE Connect
  BY <1>4, <1>6, <1>10 DEF Connect
<1> QED BY <1>4, <1>7, <1>8, <1>9, <1>10 DEF Http, TooManyRedirects, NoHostname, RequestFails

LEMMA NextTypeIsType ==
  ASSUME NEW t \in Range(RecordTypes)
  PROVE  NextType(t) \in Range(RecordTypes) \cup {"returned"}
<1>1. DOMAIN RecordTypes = 1 .. 6 /\ Len(RecordTypes) = 6
  BY DEF RecordTypes
<1>2. PICK k \in DOMAIN RecordTypes : RecordTypes[k] = t
  BY DEF Range
<1> DEFINE n == CHOOSE j \in DOMAIN RecordTypes : RecordTypes[j] = t
<1>3. n \in 1 .. 6
  BY <1>1, <1>2
<1>4. NextType(t) = IF n < 6 THEN RecordTypes[n + 1] ELSE "returned"
  BY <1>1 DEF NextType
<1> HIDE DEF n
<1>5. n < 6 => n + 1 \in DOMAIN RecordTypes
  BY <1>1, <1>3
<1> QED BY <1>4, <1>5 DEF Range

LEMMA DnsIsSafe ==
  ASSUME CollectorsInv, Dns
  PROVE  CollectorsInv'
<1> USE DEF CollectorsInv
<1>1. UNCHANGED <<hstep, current, hop, chain, resolved, connected, answered, found>>
  BY DEF Dns, httpVars
<1>2. Asking
  BY DEF Dns, Query, Nxdomain, QueryRaises
<1>3. dstep \notin {"returned", "raised"}
  BY <1>2 DEF Asking, Range, RecordTypes
<1>4. found = [s \in Source |-> None]
  BY <1>3, RunningIsNotGathered
<1>5. DnsTypeOK'
  <2>1. CASE Query
    BY <1>2, <2>1, NextTypeIsType DEF Query, DnsTypeOK, Asking
  <2> QED BY <2>1 DEF Dns, Nxdomain, QueryRaises, DnsTypeOK
<1> QED BY <1>1, <1>4, <1>5 DEF HttpTypeOK, ChainFollowsHops, ResolvedIsCurrent,
      FoundIsHandedOver, OnlyAllowedTargets

LEMMA GatheringIsSafe ==
  ASSUME CollectorsInv, Gather
  PROVE  CollectorsInv'
<1> USE DEF CollectorsInv
<1>1. /\ UNCHANGED <<hstep, current, hop, chain, resolved, connected, answered, dstep, records>>
      /\ hstep \in {"returned", "raised"} /\ dstep \in {"returned", "raised"}
      /\ found' = [s \in Source |->
           IF s = "dns"
           THEN IF dstep = "raised" THEN Failed ELSE Ok(records, <<>>)
           ELSE IF hstep = "raised" THEN Failed ELSE Ok(resolved, chain)]
  BY DEF Gather, httpVars, dnsVars
<1>2. /\ found'["dns"] = IF dstep = "raised" THEN Failed ELSE Ok(records, <<>>)
      /\ found'["http"] = IF hstep = "raised" THEN Failed ELSE Ok(resolved, chain)
  BY <1>1 DEF Source
<1> QED BY <1>1, <1>2 DEF HttpTypeOK, DnsTypeOK, ChainFollowsHops, ResolvedIsCurrent,
      FoundIsHandedOver, OnlyAllowedTargets

THEOREM CollectorsAreKept == Spec => []CollectorsInv
<1>1. CollectorsInv /\ [Next]_vars => CollectorsInv'
  <2> SUFFICES ASSUME CollectorsInv, [Next]_vars PROVE CollectorsInv'
    OBVIOUS
  <2>1. CASE UNCHANGED vars
    BY <2>1 DEF vars, httpVars, dnsVars, CollectorsInv, HttpTypeOK, DnsTypeOK, ChainFollowsHops,
       ResolvedIsCurrent, FoundIsHandedOver, OnlyAllowedTargets
  <2> QED BY <2>1, HttpIsSafe, DnsIsSafe, GatheringIsSafe DEF Next
<1> QED BY <1>1, CollectorsStart, PTL DEF Spec

-----------------------------------------------------------------------------

(* guards.py: a name that resolves differently each time it is asked, at   *)
(* every hop, never gets the pass connected to a refused address.          *)
THEOREM TargetsAreAllowed == Spec => []OnlyAllowedTargets
<1>1. CollectorsInv => OnlyAllowedTargets
  BY DEF CollectorsInv
<1> QED BY <1>1, CollectorsAreKept, PTL

(* What gather() hands over is an outcome as EvidenceStore assumes it:     *)
(* a chain from the indicator's host, and no longer than the limit.        *)
THEOREM OutcomesAreAsAssumed == Spec => []OutcomesAreEvidence
<1>1. CollectorsInv => OutcomesAreEvidence
  <2> SUFFICES ASSUME CollectorsInv PROVE OutcomesAreEvidence
    OBVIOUS
  <2> USE DEF CollectorsInv
  <2>1. found["dns"] \in Evidence!Outcome(Origin, "dns") \cup {Evidence!NoRow}
    <3>1. found["dns"] \in {None, Failed} \/ found["dns"] = Ok(records, <<>>)
      BY DEF FoundIsHandedOver, Source
    <3>2. Ok(records, <<>>) \in Evidence!Answers(Origin, "dns")
      BY DEF Ok, DnsTypeOK, Evidence!Answers
    <3> QED BY <3>1, <3>2 DEF Evidence!Outcome, Evidence!NoRow, Evidence!Failed, None, Failed
  <2>2. found["http"] \in Evidence!Outcome(Origin, "http") \cup {Evidence!NoRow}
    <3>1. \/ found["http"] \in {None, Failed}
          \/ found["http"] = Ok(resolved, chain) /\ hstep = "returned"
      BY DEF FoundIsHandedOver, Source
    <3>2. CASE hstep = "returned"
      <4>1. /\ Len(chain) \in 1 .. MaxRedirects + 1 /\ chain \in Seq(Host)
            /\ chain[1] = Origin /\ resolved # {} /\ resolved \subseteq Address
        BY <3>2, RedirectsAreBounded DEF ChainFollowsHops, ResolvedIsCurrent, Allowed, HttpTypeOK
      <4>2. chain \in [1 .. Len(chain) -> Host]
        BY <4>1
      <4>3. chain \in UNION {[1 .. n -> Host] : n \in 1 .. MaxRedirects + 1}
        BY <4>1, <4>2
      <4>4. chain \in Evidence!Chains(Origin)
        BY <4>1, <4>3 DEF Evidence!Chains
      <4>5. Ok(resolved, chain) \in Evidence!Answers(Origin, "http")
        BY <4>1, <4>4 DEF Ok, Evidence!Answers
      <4> QED BY <3>1, <4>5 DEF Evidence!Outcome, Evidence!NoRow, Evidence!Failed, None, Failed
    <3>3. CASE found["http"] \in {None, Failed}
      BY <3>3 DEF Evidence!Outcome, Evidence!NoRow, Evidence!Failed, None, Failed
    <3> QED BY <3>1, <3>2, <3>3
  <2>3. \A i \in {Origin} : \A s \in {"dns", "http"} :
          found[s] \in Evidence!Outcome(i, s) \cup {Evidence!NoRow}
    BY <2>1, <2>2
  <2>4. [i \in {Origin} |-> "enriching"] \in [{Origin} -> Evidence!Status]
    BY DEF Evidence!Status, Evidence!Active
  <2>5. [i \in {Origin} |-> [s \in Source |-> "none"]]
          \in [{Origin} -> [{"dns", "http"} -> {"none", "ok", "failed"}]]
    BY DEF Source
  <2> QED BY <2>3, <2>4, <2>5 DEF OutcomesAreEvidence, Evidence!EvidenceTypeOK, Evidence!Source
<1> QED BY <1>1, CollectorsAreKept, PTL

(* The addresses of an HTTP observation are answers of the last host of    *)
(* its chain, however many hosts redirected to it.                         *)
THEOREM AddressesFollowRedirects == Spec => []AddressesAreOfFinalHost
<1>1. CollectorsInv => AddressesAreOfFinalHost
  <2> SUFFICES ASSUME CollectorsInv, found["http"].status = "ok"
               PROVE  found["http"].addresses \subseteq answered[Last(found["http"].chain)]
    BY DEF AddressesAreOfFinalHost
  <2> USE DEF CollectorsInv
  <2>1. found["http"] = Ok(resolved, chain) /\ hstep = "returned"
    BY DEF FoundIsHandedOver, Source, None, Failed
  <2> QED BY <2>1 DEF Ok, Last, ResolvedIsCurrent
<1> QED BY <1>1, CollectorsAreKept, PTL
=============================================================================
