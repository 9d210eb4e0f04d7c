---------------------------- MODULE AnalystProofs ----------------------------
(***************************************************************************)
(* For every instance of AnalystAgent, however many loops overlap on an    *)
(* investigation, whatever the model submits and wherever the database     *)
(* fails: results are whole and grounded, a loop that reports success left *)
(* a verdict, and the agents implement Verdict.  The inductive invariant   *)
(* adds what the time between verify() and persist() needs: a verified     *)
(* proposal stays verified, because observations are never removed and     *)
(* never change their investigation.                                       *)
(***************************************************************************)
EXTENDS AnalystAgent, TLAPS

(* What holds between the two awaits of create_investigation_result.       *)
ToolReady ==
  \A a \in Agent :
    /\ phase[a] \in InTool =>
         proposal[a] \in Result /\ resultCalls[a] > 0 /\ called[a] < MaxCalls
    /\ phase[a] = "persist" => Verified(subject[a], proposal[a])

CitesItsOwn == \A i \in Inv : citations[i] \subseteq ObservedFor(i)

AgentInv ==
  /\ TypeOK
  /\ ToolReady
  /\ CitesItsOwn
  /\ ResultsAreWhole
  /\ RecordedIsStored

-----------------------------------------------------------------------------
(* Storing a verified result.                                              *)

LEMMA VerifiedIsGrounded ==
  ASSUME NEW i \in Inv, NEW r \in Result, Verified(i, r)
  PROVE  /\ r.refs # {} /\ r.refs \subseteq ObservedFor(i)
         /\ r.entities # {} /\ r.entities \subseteq Entity
BY DEF Verified, UnknownEvidence, ForeignEvidence, UnknownEntities, ObservedFor, Result

(* One insert, of a verified result: a legal decision, or no change.       *)
LEMMA InsertDecides ==
  ASSUME TypeOK, CitesItsOwn, ResultsAreWhole,
         NEW i \in Inv, NEW r \in Result, Verified(i, r), Insert(i, r)
  PROVE  /\ citations' \in [Inv -> SUBSET Observation]
         /\ named' \in [Inv -> SUBSET (Entity \cup {Invented})]
         /\ observed' = observed
         /\ CitesItsOwn' /\ ResultsAreWhole'
         /\ citations'[i] # {}
         /\ \A j \in Inv : citations[j] # {} => citations'[j] = citations[j]
         /\ \/ UNCHANGED citations
            \/ Verdicts!Decide(i)
<1> USE DEF TypeOK
<1>1. /\ r.refs # {} /\ r.refs \subseteq ObservedFor(i)
      /\ r.entities # {} /\ r.entities \subseteq Entity
  BY VerifiedIsGrounded
<1>2. observed' = observed
  BY DEF Insert
<1>3. ObservedFor(i) \subseteq observed /\ observed \subseteq Observation
  BY DEF ObservedFor
<1>4. CASE citations[i] # {}
  <2>1. citations' = citations /\ named' = named
    BY <1>4 DEF Insert
  <2> QED
    BY <1>2, <1>4, <2>1 DEF CitesItsOwn, ResultsAreWhole, ObservedFor
<1>5. CASE citations[i] = {}
  <2>1. /\ citations' = [citations EXCEPT ![i] = r.refs]
        /\ named' = [named EXCEPT ![i] = r.entities]
    BY <1>5 DEF Insert
  <2>2. CitesItsOwn'
    BY <1>1, <1>2, <2>1 DEF CitesItsOwn, ObservedFor
  <2>3. ResultsAreWhole'
    BY <1>1, <1>2, <1>3, <2>1 DEF ResultsAreWhole
  <2>4. Verdicts!Decide(i)
    BY <1>1, <1>2, <1>5, <2>1 DEF Verdicts!Decide, ObservedFor
  <2> QED
    BY <1>1, <1>2, <1>3, <1>5, <2>1, <2>2, <2>3, <2>4
<1> QED
  BY <1>4, <1>5

(* A new observation takes nothing from what was verified or cited.        *)
LEMMA ObserveKeeps ==
  ASSUME TypeOK, ToolReady, CitesItsOwn, ResultsAreWhole, Observe
  PROVE  ToolReady' /\ CitesItsOwn' /\ ResultsAreWhole'
<1>1. PICK o \in Observation \ observed : observed' = observed \cup {o}
  BY DEF Observe
<1>2. UNCHANGED <<citations, named, phase, subject, proposal, resultCalls, called>>
  BY DEF Observe, loop
<1>3. ASSUME NEW i, NEW r, Verified(i, r)
      PROVE  Verified(i, r)'
  BY <1>1, <1>3 DEF Verified, UnknownEvidence, ForeignEvidence, UnknownEntities
<1>4. ToolReady'
  BY <1>2, <1>3 DEF ToolReady
<1>5. CitesItsOwn' /\ ResultsAreWhole'
  BY <1>1, <1>2 DEF CitesItsOwn, ResultsAreWhole, ObservedFor
<1> QED
  BY <1>4, <1>5

-----------------------------------------------------------------------------
(* The invariant.                                                          *)

LEMMA InitAgent == Init => AgentInv
BY LoopBounds
   DEF Init, AgentInv, TypeOK, ToolReady, CitesItsOwn, ResultsAreWhole,
       RecordedIsStored, Phase, Ended, InTool, NoProposal

(* What a step of agent a leaves alone.                                    *)
OthersStay(a) ==
  \A b \in Agent \ {a} :
    /\ phase'[b] = phase[b] /\ subject'[b] = subject[b]
    /\ called'[b] = called[b] /\ resultCalls'[b] = resultCalls[b]
    /\ proposal'[b] = proposal[b]

(* An agent that changes only its loop, and does not come to store or      *)
(* claim anything, keeps the invariant.                                    *)
LEMMA LoopStep ==
  ASSUME AgentInv, TypeOK', UNCHANGED store, NEW a \in Agent, OthersStay(a),
         phase'[a] \notin InTool \cup {"recorded"}
  PROVE  AgentInv'
<1> USE DEF AgentInv, store, OthersStay
<1>1. ToolReady'
  BY DEF ToolReady, InTool, Verified, UnknownEvidence, ForeignEvidence,
         UnknownEntities
<1>2. CitesItsOwn' /\ ResultsAreWhole'
  BY DEF CitesItsOwn, ObservedFor, ResultsAreWhole
<1>3. RecordedIsStored'
  BY DEF RecordedIsStored
<1> QED
  BY <1>1, <1>2, <1>3

(* An agent that stores its verified result and leaves the tool.           *)
LEMMA InsertStep ==
  ASSUME AgentInv, NEW a \in Agent,
         proposal[a] \in Result, Verified(subject[a], proposal[a]),
         Insert(subject[a], proposal[a]),
         OthersStay(a), phase' \in [Agent -> Phase], phase'[a] \notin InTool,
         subject' = subject, iteration' \in [Agent -> 0 .. MaxIterations],
         called' \in [Agent -> 0 .. MaxCalls], resultCalls' \in [Agent -> Nat],
         proposal' \in [Agent -> Result \cup {NoProposal}],
         errors' \in 0 .. MaxErrors
  PROVE  AgentInv'
<1> USE DEF AgentInv, TypeOK, OthersStay
<1>1. subject[a] \in Inv
  OBVIOUS
<1>2. /\ citations' \in [Inv -> SUBSET Observation]
      /\ named' \in [Inv -> SUBSET (Entity \cup {Invented})]
      /\ observed' = observed
      /\ CitesItsOwn' /\ ResultsAreWhole'
      /\ citations'[subject[a]] # {}
      /\ \A j \in Inv : citations[j] # {} => citations'[j] = citations[j]
  BY <1>1, InsertDecides
<1>3. TypeOK'
  BY <1>2
<1>4. ToolReady'
  BY <1>2 DEF ToolReady, InTool, Verified, UnknownEvidence, ForeignEvidence,
              UnknownEntities
<1>5. RecordedIsStored'
  BY <1>2 DEF RecordedIsStored
<1> QED
  BY <1>2, <1>3, <1>4, <1>5

LEMMA NextAgent == AgentInv /\ [Next]_vars => AgentInv'
<1> SUFFICES ASSUME AgentInv, [Next]_vars PROVE AgentInv'
  OBVIOUS
<1> USE LoopBounds
<1>1. CASE Observe
  <2>1. TypeOK' /\ RecordedIsStored'
    BY <1>1 DEF Observe, AgentInv, TypeOK, RecordedIsStored, loop
  <2> QED
    BY <1>1, <2>1, ObserveKeeps DEF AgentInv
<1>2. ASSUME NEW a \in Agent, Begin(a) \/ Respond(a)
      PROVE  AgentInv'
  <2>1. UNCHANGED store /\ phase'[a] \in {"turn", "dispatch"}
    BY <1>2 DEF Begin, Respond, AgentInv, TypeOK
  <2>2. TypeOK'
    BY <1>2 DEF Begin, Respond, AgentInv, TypeOK, store, Phase
  <2>3. OthersStay(a)
    BY <1>2 DEF Begin, Respond, AgentInv, TypeOK, OthersStay
  <2> QED
    BY <2>1, <2>2, <2>3, LoopStep DEF InTool
<1>3. ASSUME NEW a \in Agent, NEW p \in {"failed", "raised"}, End(a, p),
             UNCHANGED <<store, errors>>
      PROVE  AgentInv'
  <2>1. phase'[a] = p
    BY <1>3 DEF End, AgentInv, TypeOK
  <2>2. TypeOK'
    BY <1>3 DEF End, AgentInv, TypeOK, store, Phase, Ended
  <2>3. OthersStay(a)
    BY <1>3 DEF End, AgentInv, TypeOK, OthersStay
  <2> QED
    BY <1>3, <2>1, <2>2, <2>3, LoopStep DEF InTool
<1>4. ASSUME NEW a \in Agent, EndTurn(a)
      PROVE  AgentInv'
  <2>1. CASE iteration[a] < MaxIterations
    <3>1. TypeOK'
      BY <1>4, <2>1 DEF EndTurn, AgentInv, TypeOK, store, Phase
    <3>2. OthersStay(a) /\ phase'[a] = "turn" /\ UNCHANGED store
      BY <1>4, <2>1 DEF EndTurn, AgentInv, TypeOK, OthersStay
    <3> QED
      BY <3>1, <3>2, LoopStep DEF InTool
  <2>2. CASE ~(iteration[a] < MaxIterations)
    BY <1>4, <2>2, <1>3 DEF EndTurn
  <2> QED
    BY <2>1, <2>2
<1>5. ASSUME NEW a \in Agent, Read(a) \/ CallAgain(a)
      PROVE  AgentInv'
  <2>1. UNCHANGED store /\ phase'[a] = "dispatch"
    BY <1>5 DEF Read, CallAgain, Answered, AgentInv, TypeOK
  <2>2. TypeOK'
    BY <1>5 DEF Read, CallAgain, CanCall, Answered, AgentInv, TypeOK, store, Phase
  <2>3. OthersStay(a)
    BY <1>5 DEF Read, CallAgain, Answered, AgentInv, TypeOK, OthersStay
  <2> QED
    BY <2>1, <2>2, <2>3, LoopStep DEF InTool
<1>6. ASSUME NEW a \in Agent, Reject(a)
      PROVE  AgentInv'
  <2>1. resultCalls[a] - 1 \in Nat /\ called[a] + 1 \in 0 .. MaxCalls
    BY <1>6 DEF Reject, AgentInv, TypeOK, ToolReady, InTool
  <2>2. TypeOK'
    BY <1>6, <2>1 DEF Reject, Answered, AgentInv, TypeOK, store, Phase
  <2>3. OthersStay(a) /\ phase'[a] = "dispatch" /\ UNCHANGED store
    BY <1>6 DEF Reject, Answered, AgentInv, TypeOK, OthersStay
  <2> QED
    BY <2>2, <2>3, LoopStep DEF InTool
<1>7. ASSUME NEW a \in Agent, Propose(a)
      PROVE  AgentInv'
  BY <1>7 DEF Propose, CanCall, AgentInv, TypeOK, ToolReady, CitesItsOwn, ObservedFor,
     ResultsAreWhole, RecordedIsStored, store, Phase, InTool, Verified,
     UnknownEvidence, ForeignEvidence, UnknownEntities
<1>8. ASSUME NEW a \in Agent, Verify(a)
      PROVE  AgentInv'
  BY <1>8 DEF Verify, AgentInv, TypeOK, ToolReady, CitesItsOwn, ObservedFor,
     ResultsAreWhole, RecordedIsStored, store, Phase, InTool, Verified,
     UnknownEvidence, ForeignEvidence, UnknownEntities
<1>9. ASSUME NEW a \in Agent, Persist(a)
      PROVE  AgentInv'
  <2>1. Verified(subject[a], proposal[a]) /\ proposal[a] \in Result
    BY <1>9 DEF Persist, AgentInv, ToolReady, InTool
  <2>2. OthersStay(a) /\ phase'[a] \notin InTool
    BY <1>9 DEF Persist, End, AgentInv, TypeOK, OthersStay, InTool
  <2> QED
    BY <1>9, <2>1, <2>2, InsertStep
       DEF Persist, End, Phase, Ended, AgentInv, TypeOK
<1>10. ASSUME NEW a \in Agent, ToolRaises(a)
       PROVE  AgentInv'
  <2>1. called[a] + 1 \in 0 .. MaxCalls /\ errors' \in 0 .. MaxErrors
    BY <1>10 DEF ToolRaises, AgentInv, TypeOK, ToolReady
  <2>2. OthersStay(a) /\ phase'[a] = "dispatch"
    BY <1>10 DEF ToolRaises, Answered, AgentInv, TypeOK, OthersStay
  <2>3. CASE UNCHANGED store
    <3>1. TypeOK'
      BY <1>10, <2>1, <2>3 DEF ToolRaises, Answered, AgentInv, TypeOK, store, Phase
    <3> QED
      BY <2>2, <2>3, <3>1, LoopStep DEF InTool
  <2>4. CASE phase[a] = "persist" /\ Insert(subject[a], proposal[a])
    <3>1. Verified(subject[a], proposal[a]) /\ proposal[a] \in Result
      BY <2>4 DEF AgentInv, ToolReady, InTool
    <3> QED
      BY <1>10, <2>1, <2>2, <2>4, <3>1, InsertStep
         DEF ToolRaises, Answered, Phase, InTool, AgentInv, TypeOK
  <2> QED
    BY <1>10, <2>3, <2>4 DEF ToolRaises
<1>11. CASE UNCHANGED vars
  BY <1>11 DEF vars, store, loop, AgentInv, TypeOK, ToolReady, CitesItsOwn,
     ObservedFor, ResultsAreWhole, RecordedIsStored, Verified, UnknownEvidence,
     ForeignEvidence, UnknownEntities
<1> QED
  BY <1>1, <1>2, <1>3, <1>4, <1>5, <1>6, <1>7, <1>8, <1>9, <1>10, <1>11
     DEF Next, Step, GivesUp, Raises

-----------------------------------------------------------------------------
(* The theorems.                                                           *)

THEOREM AgentInvariant == Spec => []AgentInv
BY InitAgent, NextAgent, PTL DEF Spec

(* Each variable keeps its type; result_calls never goes below zero, and   *)
(* no loop takes more turns than the cap.                                  *)
THEOREM AgentTypeCorrect == Spec => []TypeOK
<1>1. AgentInv => TypeOK
  BY DEF AgentInv
<1> QED
  BY <1>1, AgentInvariant, PTL

(* No stored result, whoever stored it, cites or names what does not       *)
(* exist, and none is without its citations.                               *)
THEOREM ResultsStayWhole == Spec => []ResultsAreWhole
<1>1. AgentInv => ResultsAreWhole
  BY DEF AgentInv
<1> QED
  BY <1>1, AgentInvariant, PTL

(* A loop that reported success left a verdict behind.                     *)
THEOREM SuccessMeansVerdict == Spec => []RecordedIsStored
<1>1. AgentInv => RecordedIsStored
  BY DEF AgentInv
<1> QED
  BY <1>1, AgentInvariant, PTL

(* The agents implement Verdict: one grounded, final verdict each.         *)
THEOREM AgentsImplementVerdict == Spec => ImplementsVerdict
<1> DEFINE Collected == [i \in Inv |-> ObservedFor(i)]
           Promise == [Verdicts!Next]_<<Collected, citations>>
<1>1. Init => Verdicts!Init
  BY DEF Init, Verdicts!Init, ObservedFor
<1>2. ASSUME AgentInv, [Next]_vars
      PROVE  Promise
  <2>a. observed' = observed => UNCHANGED Collected
    BY DEF ObservedFor
  <2>b. UNCHANGED store => Promise
    BY <2>a DEF store
  <2>c. ASSUME NEW a \in Agent, phase[a] = "persist",
               Insert(subject[a], proposal[a])
        PROVE  Promise
    <3>1. subject[a] \in Inv /\ proposal[a] \in Result
            /\ Verified(subject[a], proposal[a])
      BY <1>2, <2>c DEF AgentInv, TypeOK, ToolReady, InTool
    <3>2. observed' = observed /\ (UNCHANGED citations \/ Verdicts!Decide(subject[a]))
      BY <1>2, <2>c, <3>1, InsertDecides DEF AgentInv
    <3> QED
      BY <2>a, <3>1, <3>2 DEF Verdicts!Next
  <2>1. CASE Observe
    <3>1. PICK o \in Observation \ observed : observed' = observed \cup {o}
      BY <2>1 DEF Observe
    <3>2. o[1] \in Inv /\ UNCHANGED citations
      BY <2>1, <3>1 DEF Observe, Observation
    <3>3. Collected' = [Collected EXCEPT ![o[1]] = @ \cup {o}]
      BY <3>1, <3>2 DEF ObservedFor
    <3>4. Verdicts!Collect(o[1])
      BY <3>1, <3>2, <3>3 DEF Verdicts!Collect
    <3> QED
      BY <3>2, <3>4 DEF Verdicts!Next
  <2> HIDE DEF Promise
  <2>2. ASSUME NEW a \in Agent,
               \/ Begin(a) \/ Raises(a) \/ GivesUp(a) \/ Respond(a) \/ EndTurn(a)
               \/ Read(a) \/ CallAgain(a) \/ Propose(a) \/ Verify(a) \/ Reject(a)
        PROVE  Promise
    BY <2>2, <2>b DEF Begin, Raises, GivesUp, Respond, EndTurn, Read, CallAgain,
       Propose, Verify, Reject
  <2>3. ASSUME NEW a \in Agent, Persist(a) \/ ToolRaises(a)
        PROVE  Promise
    BY <2>3, <2>b, <2>c DEF Persist, ToolRaises
  <2>4. CASE UNCHANGED vars
    BY <2>4, <2>b DEF vars
  <2> QED
    BY <1>2, <2>1, <2>2, <2>3, <2>4 DEF Next, Step
<1> QED
  BY <1>1, <1>2, AgentInvariant, PTL DEF Spec, Verdicts!Spec, ImplementsVerdict

=============================================================================
