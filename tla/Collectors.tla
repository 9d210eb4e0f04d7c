----------------------------- MODULE Collectors -----------------------------
(***************************************************************************)
(* The two collectors that one enrichment pass runs side by side:          *)
(* enrichment/http.py, which follows redirects hop by hop, checks every    *)
(* host before it connects (enrichment/guards.py), and enrichment/dns.py,  *)
(* which asks for one record type after the other.  What a host resolves   *)
(* to may be another answer each time it is asked.                         *)
(***************************************************************************)
EXTENDS Integers, SequencesExt

CONSTANTS
  Host, Address,
  Blocked,        \* the addresses classify_address() gives a reason to refuse
  LiteralAddress, \* the address of each host that is written as one
  Origin,         \* the hostname of the indicator
  MaxRedirects    \* MAX_REDIRECTS, 5 in the code

ASSUME IndicatorHasHost == Origin \in Host /\ Blocked \subseteq Address

ASSUME LiteralsAreAddresses ==
  /\ DOMAIN LiteralAddress \subseteq Host
  /\ \A h \in DOMAIN LiteralAddress : LiteralAddress[h] \in Address

ASSUME RedirectsAreBounded == MaxRedirects \in Nat

VARIABLES
  hstep,        \* where http.collect() is
  current,      \* the host to fetch next, or NoHost
  hop,          \* the iteration of its loop
  chain,        \* redirect_chain, as hosts
  resolved,     \* resolved_ips
  connected,    \* the addresses connections were opened to
  answered,     \* answered[h]: history, what the checks of h were answered
  dstep,        \* the record type dns.collect() asks for next, or how it ended
  records,      \* the address records it has so far
  found         \* what gather() returned, by source

httpVars == <<hstep, current, hop, chain, resolved, connected, answered>>

dnsVars == <<dstep, records>>

vars == <<httpVars, dnsVars, found>>

Source == {"dns", "http"}

(* A redirect target that has no hostname.                                 *)
NoHost == "no host"

RecordTypes == <<"A", "AAAA", "MX", "NS", "TXT", "CNAME">>

AddressTypes == {"A", "AAAA"}

None == [status |-> "none", addresses |-> {}, chain |-> <<>>]

Failed == [None EXCEPT !.status = "failed"]

Ok(addresses, hosts) == [status |-> "ok", addresses |-> addresses, chain |-> hosts]

Init ==
  /\ hstep = "hop" /\ current = Origin /\ hop = 0
  /\ chain = <<>> /\ resolved = {} /\ connected = {}
  /\ answered = [h \in Host |-> {}]
  /\ dstep = "A" /\ records = {}
  /\ found = [s \in Source |-> None]

-----------------------------------------------------------------------------
(* http.collect()                                                          *)

HttpRaises ==
  /\ hstep' = "raised"
  /\ UNCHANGED <<current, hop, chain, resolved, connected, answered>>

(* assert_address_allowed() of every address; one refused refuses all.     *)
Allowed(ips) == ips # {} /\ ips \cap Blocked = {}

Literal(h) == h \in DOMAIN LiteralAddress

(* What the host may resolve to: a literal to itself, a name to anything.  *)
Resolutions(h) == IF Literal(h) THEN {{LiteralAddress[h]}} ELSE SUBSET Address

(* Mutant of Exhausted: one hop too many.                                  *)
ExhaustedLate == hop > MaxRedirects + 1

Exhausted == hop > MaxRedirects

TooManyRedirects ==
  /\ hstep = "hop" /\ Exhausted
  /\ HttpRaises

NoHostname ==
  /\ hstep = "hop" /\ ~Exhausted /\ current = NoHost
  /\ HttpRaises

(* Mutant of Preflight: what the first hop resolved to is kept.            *)
PreflightOnce ==
  /\ hstep = "hop" /\ ~Exhausted /\ current # NoHost
  /\ \E ips \in Resolutions(current) :
       IF Allowed(ips)
       THEN /\ answered' = [answered EXCEPT ![current] = @ \cup ips]
            /\ resolved' = IF resolved = {} THEN ips ELSE resolved
            /\ chain' = Append(chain, current)
            /\ hstep' = "connect"
            /\ UNCHANGED <<current, hop, connected>>
       ELSE HttpRaises

(* resolve_and_validate(): a name that does not resolve is refused too.    *)
Preflight ==
  /\ hstep = "hop" /\ ~Exhausted /\ current # NoHost
  /\ \E ips \in Resolutions(current) :
       IF Allowed(ips)
       THEN /\ answered' = [answered EXCEPT ![current] = @ \cup ips]
            /\ resolved' = ips
            /\ chain' = Append(chain, current)
            /\ hstep' = "connect"
            /\ UNCHANGED <<current, hop, connected>>
       ELSE HttpRaises

(* Mutant of Connect: the client resolves the host by itself.              *)
ConnectUnchecked ==
  /\ hstep = "connect"
  /\ \E ips \in Resolutions(current) :
       IF ips # {}
       THEN /\ \E ip \in ips : connected' = connected \cup {ip}
            /\ hstep' = "response"
            /\ UNCHANGED <<current, hop, chain, resolved, answered>>
       ELSE HttpRaises

(* session.get() resolves a name once more, through ValidatingResolver; a  *)
(* literal it connects to as it is, on the word of the preflight check.    *)
Connect ==
  /\ hstep = "connect"
  /\ \E ips \in Resolutions(current) :
       IF Literal(current) \/ Allowed(ips)
       THEN /\ \E ip \in ips : connected' = connected \cup {ip}
            /\ hstep' = "response"
            /\ UNCHANGED <<current, hop, chain, resolved, answered>>
       ELSE HttpRaises

(* A redirect to http or https, anywhere.                                  *)
Redirected ==
  /\ hstep = "response"
  /\ current' \in Host \cup {NoHost}
  /\ hop' = hop + 1
  /\ hstep' = "hop"
  /\ UNCHANGED <<chain, resolved, connected, answered>>

(* Any other answer; the body is read up to its cap.                       *)
Fetched ==
  /\ hstep = "response"
  /\ hstep' = "returned"
  /\ UNCHANGED <<current, hop, chain, resolved, connected, answered>>

(* The network fails, the total timeout is over, or the redirect is to     *)
(* another scheme.                                                         *)
RequestFails ==
  /\ hstep \in {"connect", "response"}
  /\ HttpRaises

Http ==
  /\ \/ TooManyRedirects \/ NoHostname \/ Preflight \/ Connect
     \/ Redirected \/ Fetched \/ RequestFails
  /\ UNCHANGED <<dnsVars, found>>

-----------------------------------------------------------------------------
(* dns.collect()                                                           *)

NextType(t) ==
  LET n == CHOOSE k \in DOMAIN RecordTypes : RecordTypes[k] = t
  IN  IF n < Len(RecordTypes) THEN RecordTypes[n + 1] ELSE "returned"

Asking == dstep \in Range(RecordTypes)

(* The records of one type, or none: NoAnswer and NoNameservers both count *)
(* as an empty record set.                                                 *)
Query ==
  /\ Asking
  /\ IF dstep \in AddressTypes
     THEN \E ips \in SUBSET Address : records' = records \cup ips
     ELSE UNCHANGED records
  /\ dstep' = NextType(dstep)

(* NXDOMAIN is returned as evidence, without what was answered before it.  *)
Nxdomain ==
  /\ Asking
  /\ dstep' = "returned"
  /\ records' = {}

(* A timeout, or another failure of the resolver.                          *)
QueryRaises ==
  /\ Asking
  /\ dstep' = "raised"
  /\ UNCHANGED records

Dns == (Query \/ Nxdomain \/ QueryRaises) /\ UNCHANGED <<httpVars, found>>

-----------------------------------------------------------------------------
(* asyncio.gather() of both, with return_exceptions.                       *)

(* Mutant of Gather: without return_exceptions handle() ends with the      *)
(* exception of a source.                                                  *)
GatherRaising ==
  /\ found = [s \in Source |-> None]
  /\ hstep = "returned" /\ dstep = "returned"
  /\ found' = [s \in Source |-> IF s = "dns" THEN Ok(records, <<>>) ELSE Ok(resolved, chain)]
  /\ UNCHANGED <<httpVars, dnsVars>>

Gather ==
  /\ found = [s \in Source |-> None]
  /\ hstep \in {"returned", "raised"} /\ dstep \in {"returned", "raised"}
  /\ found' =
       [s \in Source |->
          IF s = "dns"
          THEN IF dstep = "raised" THEN Failed ELSE Ok(records, <<>>)
          ELSE IF hstep = "raised" THEN Failed ELSE Ok(resolved, chain)]
  /\ UNCHANGED <<httpVars, dnsVars>>

Next == Http \/ Dns \/ Gather

Spec == Init /\ [][Next]_vars

(* The event loop resumes what can go on; a request, a query and the wait  *)
(* for a body all have timeouts.  The lookup before a request has none of  *)
(* its own: getaddrinfo ends when the system's resolver gives up.          *)
FairSpec == Spec /\ WF_vars(Http) /\ WF_vars(Dns) /\ WF_vars(Gather)

-----------------------------------------------------------------------------
(* Properties.                                                             *)

(* guards.py: the check in the resolver "is what actually guarantees the   *)
(* connection target", though a name may resolve differently between the   *)
(* preflight check and the connection, at every hop; for a literal, which  *)
(* the resolver is not asked about, the preflight check does.              *)
OnlyAllowedTargets == connected \cap Blocked = {}

(* The collectors keep the promise the evidence modules are built on: what *)
(* a source hands over is an outcome of EvidenceStore, a chain that starts *)
(* at the indicator's host and has at most one hop more than redirects.    *)
Evidence ==
  INSTANCE EvidenceStore WITH
    Inv <- {Origin}, HostOf <- [i \in {Origin} |-> i], UrlInv <- {},
    MaxHops <- MaxRedirects + 1,
    status <- [i \in {Origin} |-> "enriching"],
    observation <- [i \in {Origin} |-> found],
    summary <- [i \in {Origin} |-> [s \in Source |-> "none"]],
    entities <- {}, edges <- {},
    verdict <- [i \in {Origin} |-> [s \in Source |-> None]]

OutcomesAreEvidence == Evidence!EvidenceTypeOK

(* The addresses of an HTTP observation are those of the host that gave    *)
(* the answer, not of one that redirected to it: correlation and the       *)
(* analyst read them beside the final URL.                                 *)
AddressesAreOfFinalHost ==
  found["http"].status = "ok" => found["http"].addresses \subseteq answered[Last(found["http"].chain)]

(* However hosts redirect to one another, a pass gets both outcomes.       *)
CollectionEnds == <>(found # [s \in Source |-> None])
=============================================================================
