---------------------------- MODULE AnalystAgent ----------------------------
(***************************************************************************)
(* The agent loop of analyst/agent.py with the tools of analyst/tools.py   *)
(* and the grounding check of analyst/grounding.py, run by several analyst *)
(* workers at once, also on one investigation.  What the model answers is  *)
(* arbitrary: it may refuse, fall silent, read, submit a malformed result, *)
(* or cite what it invented or what belongs to another investigation.  A   *)
(* database error inside a tool is handed to the model as a tool error.    *)
(***************************************************************************)
EXTENDS Integers, FiniteSets

CONSTANTS
  Inv,            \* investigations
  Source,         \* the sources enrichment records an observation of
  Entity,         \* the entities in the database
  Invented,       \* an identifier the model made up
  Agent,          \* the analyst workers
  MaxIterations,  \* analyst_max_iterations
  MaxCalls,       \* tool calls in one turn
  MaxErrors       \* database errors inside a tool

Observation == Inv \X Source

ASSUME SomethingToCite == Source # {} /\ Entity # {}

ASSUME InventedIsUnknown == Invented \notin Observation \cup Entity

ASSUME LoopBounds ==
  MaxIterations \in Nat \ {0} /\ MaxCalls \in Nat \ {0} /\ MaxErrors \in Nat

VARIABLES
  observed,     \* the observation rows
  citations,    \* citations[i]: result_evidence of i's result; {} is no result
  named,        \* named[i]: the entity_ids of i's result
  phase,        \* phase[a]: where agent a is in the loop
  subject,      \* subject[a]: the investigation it analyses
  iteration,    \* the turn of the loop it is in
  called,       \* the calls of this turn it has dispatched
  resultCalls,  \* ToolDispatcher.result_calls
  proposal,     \* the result it is about to store
  errors

store == <<observed, citations, named>>

loop == <<phase, subject, iteration, called, resultCalls, proposal>>

vars == <<store, loop, errors>>

-----------------------------------------------------------------------------
(* Results and what verify() makes of them.                                *)

(* The arguments of create_investigation_result that pass the schema: both *)
(* lists of identifiers have one entry at least.                           *)
Result ==
  [refs : (SUBSET (Observation \cup {Invented})) \ {{}},
   entities : (SUBSET (Entity \cup {Invented})) \ {{}}]

ObservedFor(i) == {o \in observed : o[1] = i}

UnknownEvidence(r) == r.refs \ observed

ForeignEvidence(i, r) == {o \in r.refs \cap observed : o[1] # i}

UnknownEntities(r) == r.entities \ Entity

(* Mutant of Verified: a citation must exist, wherever it was collected.   *)
VerifiedToExist(i, r) == UnknownEvidence(r) = {} /\ UnknownEntities(r) = {}

Verified(i, r) ==
  /\ UnknownEvidence(r) = {}
  /\ ForeignEvidence(i, r) = {}
  /\ UnknownEntities(r) = {}

-----------------------------------------------------------------------------

Ended == {"idle", "recorded", "failed", "raised"}

InTool == {"verify", "persist"}

Phase == Ended \cup {"turn", "dispatch"} \cup InTool

NoProposal == [refs |-> {}, entities |-> {}]

TypeOK ==
  /\ observed \subseteq Observation
  /\ citations \in [Inv -> SUBSET Observation]
  /\ named \in [Inv -> SUBSET (Entity \cup {Invented})]
  /\ phase \in [Agent -> Phase]
  /\ subject \in [Agent -> Inv]
  /\ iteration \in [Agent -> 0 .. MaxIterations]
  /\ called \in [Agent -> 0 .. MaxCalls]
  /\ resultCalls \in [Agent -> Nat]
  /\ proposal \in [Agent -> Result \cup {NoProposal}]
  /\ errors \in 0 .. MaxErrors

Init ==
  /\ observed = {}
  /\ citations = [i \in Inv |-> {}]
  /\ named = [i \in Inv |-> {}]
  /\ phase = [a \in Agent |-> "idle"]
  /\ subject \in [Agent -> Inv]
  /\ iteration = [a \in Agent |-> 0]
  /\ called = [a \in Agent |-> 0]
  /\ resultCalls = [a \in Agent |-> 0]
  /\ proposal = [a \in Agent |-> NoProposal]
  /\ errors = 0

(* Enrichment records an observation; it never removes one.                *)
Observe ==
  /\ \E o \in Observation \ observed : observed' = observed \cup {o}
  /\ UNCHANGED <<citations, named, loop, errors>>

-----------------------------------------------------------------------------
(* The loop.                                                               *)

(* The loop is over and its local state gone.                              *)
End(a, p) ==
  /\ phase' = [phase EXCEPT ![a] = p]
  /\ iteration' = [iteration EXCEPT ![a] = 0]
  /\ called' = [called EXCEPT ![a] = 0]
  /\ resultCalls' = [resultCalls EXCEPT ![a] = 0]
  /\ proposal' = [proposal EXCEPT ![a] = NoProposal]
  /\ UNCHANGED subject

(* A task of the analyze stream: a fresh dispatcher, whether this is the   *)
(* first delivery, a retry, or a second worker on the same investigation.  *)
(* Enrichment has recorded every source by then (EvidencePrecedesAnalysis  *)
(* of the pipeline).                                                       *)
Begin(a) ==
  /\ phase[a] \in Ended
  /\ \E i \in Inv :
       /\ {i} \X Source \subseteq observed
       /\ subject' = [subject EXCEPT ![a] = i]
  /\ phase' = [phase EXCEPT ![a] = "turn"]
  /\ iteration' = [iteration EXCEPT ![a] = 1]
  /\ UNCHANGED <<store, called, resultCalls, proposal, errors>>

(* The turn is a refusal or comes without a tool call.                     *)
GivesUp(a) ==
  /\ phase[a] = "turn"
  /\ End(a, "failed")
  /\ UNCHANGED <<store, errors>>

(* The model could not be asked, or the worker died: a retry will follow.  *)
Raises(a) ==
  /\ phase[a] \notin Ended
  /\ End(a, "raised")
  /\ UNCHANGED <<store, errors>>

Respond(a) ==
  /\ phase[a] = "turn"
  /\ phase' = [phase EXCEPT ![a] = "dispatch"]
  /\ UNCHANGED <<store, subject, iteration, called, resultCalls, proposal, errors>>

(* Mutant of EndTurn: the turn is not counted.                             *)
EndTurnUncounted(a) ==
  /\ phase[a] = "dispatch" /\ called[a] > 0
  /\ phase' = [phase EXCEPT ![a] = "turn"]
  /\ called' = [called EXCEPT ![a] = 0]
  /\ UNCHANGED <<store, subject, iteration, resultCalls, proposal, errors>>

(* Mutant of EndTurn: one turn too many.                                   *)
EndTurnOffByOne(a) ==
  /\ phase[a] = "dispatch" /\ called[a] > 0
  /\ IF iteration[a] <= MaxIterations
     THEN /\ phase' = [phase EXCEPT ![a] = "turn"]
          /\ iteration' = [iteration EXCEPT ![a] = @ + 1]
          /\ called' = [called EXCEPT ![a] = 0]
          /\ UNCHANGED <<subject, resultCalls, proposal>>
     ELSE End(a, "failed")
  /\ UNCHANGED <<store, errors>>

(* Every call of the turn was dispatched: the results go back to the       *)
(* model, unless this was the last turn.                                   *)
EndTurn(a) ==
  /\ phase[a] = "dispatch" /\ called[a] > 0
  /\ IF iteration[a] < MaxIterations
     THEN /\ phase' = [phase EXCEPT ![a] = "turn"]
          /\ iteration' = [iteration EXCEPT ![a] = @ + 1]
          /\ called' = [called EXCEPT ![a] = 0]
          /\ UNCHANGED <<subject, resultCalls, proposal>>
     ELSE End(a, "failed")
  /\ UNCHANGED <<store, errors>>

-----------------------------------------------------------------------------
(* The tools.                                                              *)

(* A call has been answered and the loop takes the next of the turn.       *)
Answered(a) ==
  /\ phase' = [phase EXCEPT ![a] = "dispatch"]
  /\ called' = [called EXCEPT ![a] = @ + 1]
  /\ UNCHANGED <<subject, iteration>>

CanCall(a) == phase[a] = "dispatch" /\ called[a] < MaxCalls

(* One of the four read tools or an unknown one, with or without an error; *)
(* or a result that fails validation before any has been counted.          *)
Read(a) ==
  /\ CanCall(a)
  /\ Answered(a)
  /\ UNCHANGED <<store, resultCalls, proposal, errors>>

(* "has already been called for this investigation"                        *)
CallAgain(a) ==
  /\ CanCall(a) /\ resultCalls[a] > 0
  /\ Answered(a)
  /\ resultCalls' = [resultCalls EXCEPT ![a] = @ + 1]
  /\ UNCHANGED <<store, proposal, errors>>

Propose(a) ==
  /\ CanCall(a) /\ resultCalls[a] = 0
  /\ resultCalls' = [resultCalls EXCEPT ![a] = 1]
  /\ \E r \in Result : proposal' = [proposal EXCEPT ![a] = r]
  /\ phase' = [phase EXCEPT ![a] = "verify"]
  /\ UNCHANGED <<store, subject, iteration, called, errors>>

Verify(a) ==
  /\ phase[a] = "verify"
  /\ Verified(subject[a], proposal[a])
  /\ phase' = [phase EXCEPT ![a] = "persist"]
  /\ UNCHANGED <<store, subject, iteration, called, resultCalls, proposal, errors>>

(* Mutant of Reject: a rejected result uses up the one call.               *)
RejectCounted(a) ==
  /\ phase[a] = "verify"
  /\ ~Verified(subject[a], proposal[a])
  /\ proposal' = [proposal EXCEPT ![a] = NoProposal]
  /\ Answered(a)
  /\ UNCHANGED <<store, resultCalls, errors>>

(* The GroundingFailure goes back to the model, which may try again.       *)
Reject(a) ==
  /\ phase[a] = "verify"
  /\ ~Verified(subject[a], proposal[a])
  /\ resultCalls' = [resultCalls EXCEPT ![a] = @ - 1]
  /\ proposal' = [proposal EXCEPT ![a] = NoProposal]
  /\ Answered(a)
  /\ UNCHANGED <<store, errors>>

(* Mutant of Insert: the citations are written, the row is not.            *)
InsertLinksOnly(i, r) ==
  /\ citations' = [citations EXCEPT ![i] = IF @ = {} THEN r.refs ELSE @]
  /\ UNCHANGED <<observed, named>>

(* The transaction of persist(): the result row and its citations, or,     *)
(* when there is a result already, neither.                                *)
Insert(i, r) ==
  /\ citations' = [citations EXCEPT ![i] = IF @ = {} THEN r.refs ELSE @]
  /\ named' = [named EXCEPT ![i] = IF citations[i] = {} THEN r.entities ELSE @]
  /\ UNCHANGED observed

(* Mutant of Persist: success is reported before the commit.               *)
PersistReportedEarly(a) ==
  /\ phase[a] = "persist"
  /\ Insert(subject[a], proposal[a]) \/ UNCHANGED store
  /\ End(a, "recorded")
  /\ UNCHANGED errors

Persist(a) ==
  /\ phase[a] = "persist"
  /\ Insert(subject[a], proposal[a])
  /\ End(a, "recorded")
  /\ UNCHANGED errors

(* A query of verify() or the transaction of persist() raises; the latter  *)
(* may have been committed, when only its reply was lost.  dispatch()      *)
(* turns the exception into a tool error, result_calls stays counted.      *)
ToolRaises(a) ==
  /\ errors < MaxErrors
  /\ errors' = errors + 1
  /\ phase[a] \in InTool
  /\ \/ UNCHANGED store
     \/ phase[a] = "persist" /\ Insert(subject[a], proposal[a])
  /\ proposal' = [proposal EXCEPT ![a] = NoProposal]
  /\ Answered(a)
  /\ UNCHANGED resultCalls

-----------------------------------------------------------------------------

Step(a) ==
  \/ GivesUp(a) \/ Respond(a) \/ EndTurn(a)
  \/ Read(a) \/ CallAgain(a) \/ Propose(a)
  \/ Verify(a) \/ Reject(a) \/ Persist(a) \/ ToolRaises(a)

Next == Observe \/ \E a \in Agent : Begin(a) \/ Step(a) \/ Raises(a)

Spec == Init /\ [][Next]_vars

-----------------------------------------------------------------------------
(* Properties.                                                             *)

(* A result row and its citations come together, and a result names no     *)
(* entity and cites no observation that the model made up.                 *)
ResultsAreWhole ==
  \A i \in Inv :
    /\ citations[i] = {} <=> named[i] = {}
    /\ citations[i] \subseteq observed
    /\ named[i] \subseteq Entity

(* A loop that reports success leaves its investigation with a verdict,    *)
(* its own or the one another worker was faster to store, so publishing    *)
(* the next stage is justified.                                            *)
RecordedIsStored ==
  \A a \in Agent : phase[a] = "recorded" => citations[subject[a]] # {}

(* What the model is told, that it has already called the result tool,     *)
(* would mean there is a result; tools.py: "a rejected attempt does not    *)
(* count".                                                                 *)
CountedMeansRecorded ==
  \A a \in Agent :
    phase[a] \in {"turn", "dispatch"} /\ resultCalls[a] > 0
      => citations[subject[a]] # {}

Verdicts ==
  INSTANCE Verdict WITH
    Evidence <- Observation,
    collected <- [i \in Inv |-> ObservedFor(i)],
    verdict <- citations

(* However many loops run on an investigation and however they fail, it    *)
(* gets at most one verdict, grounded in its own evidence and final.       *)
ImplementsVerdict == Verdicts!Spec
=============================================================================
