----------------------------- MODULE ScriptProofs -----------------------------
(***************************************************************************)
(* Whatever clients the workers are configured with, and however many rows *)
(* the tool returns: the scripts keep what AnalystProofs shows of any      *)
(* model, and what the default script submits is grounded.  A read tool    *)
(* may raise here, which AnalystAgent does not tell from an answer, so the *)
(* invariant is shown to survive that step as well.                        *)
(***************************************************************************)
EXTENDS ScriptedAnalyst, AnalystProofs

(* What the tools have called citable, while the loop runs, are            *)
(* observations of the investigation the loop is about.                    *)
ShownIsItsOwn ==
  \A a \in Agent : phase[a] \notin Ended => iteration[a] >= 1 /\ shown[a] \subseteq ObservedFor(subject[a])

(* The default script cites all it was shown and nothing else.             *)
DefaultCitesShown ==
  \A a \in Agent :
    client[a] = "evidence_following" /\ phase[a] = "verify" => proposal[a] = Cite(shown[a])

ScriptInv ==
  /\ AgentInv
  /\ client \in [Agent -> Client] /\ shown \in [Agent -> SUBSET Observation]
  /\ ShownIsItsOwn
  /\ DefaultCitesShown

LEMMA ScriptStarts == ScriptInit => ScriptInv
BY InitAgent
   DEF ScriptInit, ScriptInv, ShownIsItsOwn, DefaultCitesShown, Init, Ended

(* No turn of the default script invents a citation.                       *)
LEMMA DefaultNeverInvents ==
  ASSUME NEW a \in Agent, client[a] = "evidence_following",
         iteration[a] \in Nat, iteration[a] >= 1
  PROVE  Responder(a) \in {"search", "enrichment", "inspect", "related", "conclude"}
<1>. DEFINE script == <<"search", "enrichment", "inspect", "related", "conclude">>
            k == IF iteration[a] <= 5 THEN iteration[a] ELSE 5
<1>1. Script[client[a]] = script
  BY DEF Script
<1>2. Len(script) = 5
  OBVIOUS
<1>3. Responder(a) = script[k]
  BY <1>1, <1>2 DEF Responder
<1>4. k = 1 \/ k = 2 \/ k = 3 \/ k = 4 \/ k = 5
  OBVIOUS
<1>. HIDE DEF k
<1>. QED
  BY <1>3, <1>4

(* The step AnalystAgent does not have: a read tool raises.                *)
LEMMA ReadRaisesKeepsAgent ==
  ASSUME AgentInv, NEW a \in Agent, ScriptReadRaises(a)
  PROVE  AgentInv'
<1>. USE LoopBounds
<1>1. UNCHANGED store /\ phase'[a] = "dispatch"
  BY DEF ScriptReadRaises, Answered, AgentInv, TypeOK
<1>2. TypeOK'
  BY DEF ScriptReadRaises, CanCall, Answered, AgentInv, TypeOK, store, Phase
<1>3. OthersStay(a)
  BY DEF ScriptReadRaises, Answered, AgentInv, TypeOK, OthersStay
<1>. QED
  BY <1>1, <1>2, <1>3, LoopStep DEF InTool

(* A row that is recorded again changes its place and nothing else.        *)
LEMMA AgainIsQuiet == RecordAgain => UNCHANGED <<vars, client, shown>>
BY DEF RecordAgain

LEMMA ScriptsKeepAgent == AgentInv /\ [ScriptNext]_scriptVars => AgentInv'
<1> SUFFICES ASSUME AgentInv, [ScriptNext]_scriptVars PROVE AgentInv'
  OBVIOUS
<1>1. CASE RecordObservation \/ RecordAgain \/ UNCHANGED scriptVars
  BY <1>1, NextAgent, AgainIsQuiet DEF RecordObservation, Next, scriptVars
<1>2. ASSUME NEW a \in Agent, ClientBegins(a) \/ ClientRaises(a) PROVE AgentInv'
  BY <1>2, NextAgent DEF ClientBegins, ClientRaises, Next
<1>3. ASSUME NEW a \in Agent, ClientStep(a) PROVE AgentInv'
  <2>1. CASE ScriptReadRaises(a)
    BY <2>1, ReadRaisesKeepsAgent
  <2>2. CASE ~ScriptReadRaises(a)
    <3>1. Step(a)
      BY <1>3, <2>2 DEF ClientStep, ScriptStep, ScriptGivesUp, ScriptResponds, ScriptReads,
         ScriptProposesNothing, ScriptProposes, ScriptProposesAgain, Step
    <3>. QED
      BY <3>1, NextAgent DEF Next
  <2>. QED
    BY <2>1, <2>2
<1>. QED
  BY <1>1, <1>2, <1>3 DEF ScriptNext

-----------------------------------------------------------------------------
(* What a step does to the loop of one worker.                             *)

LEMMA ObservedOnlyGrows == AgentInv /\ [ScriptNext]_scriptVars => observed \subseteq observed'
BY AgainIsQuiet DEF ScriptNext, RecordObservation, Observe, ClientBegins, Begin, ClientRaises, Raises, ClientStep,
       ScriptStep, ScriptGivesUp, GivesUp, ScriptResponds, Respond, ScriptReads, ScriptReadRaises, Read,
       ScriptProposesNothing, ScriptProposes, Propose, ScriptProposesAgain, CallAgain, EndTurn, Verify,
       Reject, Persist, Insert, ToolRaises, Step, store, scriptVars, vars

LEMMA OtherLoopsStay ==
  ASSUME AgentInv, NEW a \in Agent, shown \in [Agent -> SUBSET Observation],
         ClientBegins(a) \/ ClientStep(a) \/ ClientRaises(a)
  PROVE  /\ client' = client /\ shown' \in [Agent -> SUBSET Observation]
         /\ \A b \in Agent \ {a} :
              /\ phase'[b] = phase[b] /\ subject'[b] = subject[b] /\ iteration'[b] = iteration[b]
              /\ proposal'[b] = proposal[b] /\ shown'[b] = shown[b]
<1>1. ObservedFor(subject[a]) \subseteq Observation
  BY DEF ObservedFor, AgentInv, TypeOK
<1>2. \A b \in Agent \ {a} :
        /\ phase'[b] = phase[b] /\ subject'[b] = subject[b] /\ iteration'[b] = iteration[b]
        /\ proposal'[b] = proposal[b]
  BY DEF AgentInv, TypeOK, ClientBegins, Begin, ClientRaises, Raises, ClientStep, ScriptStep,
         ScriptGivesUp, GivesUp, ScriptResponds, Respond, ScriptReads, ScriptReadRaises, Read,
         ScriptProposesNothing, ScriptProposes, Propose, ScriptProposesAgain, CallAgain, EndTurn,
         Verify, Reject, Persist, ToolRaises, Step, Answered, End
<1>3. /\ client' = client /\ shown' \in [Agent -> SUBSET Observation]
      /\ \A b \in Agent \ {a} : shown'[b] = shown[b]
  BY <1>1 DEF ClientBegins, ClientRaises, ClientStep, ScriptStep, ScriptGivesUp, ScriptResponds,
         ScriptReads, ScriptReadRaises, ScriptProposesNothing, ScriptProposes, ScriptProposesAgain,
         Citable
<1>. QED
  BY <1>2, <1>3

LEMMA LoopShowsItsOwn ==
  ASSUME ScriptInv, NEW a \in Agent, ClientBegins(a) \/ ClientStep(a) \/ ClientRaises(a),
         phase'[a] \notin Ended
  PROVE  /\ iteration'[a] >= 1
         /\ \A o \in shown'[a] : o \in observed /\ o[1] = subject'[a]
<1>. /\ phase \in [Agent -> Phase] /\ subject \in [Agent -> Inv]
     /\ iteration \in [Agent -> Int]
     /\ shown \in [Agent -> SUBSET Observation]
  BY LoopBounds DEF ScriptInv, AgentInv, TypeOK
<1>1. CASE ClientBegins(a)
  BY <1>1 DEF ClientBegins, Begin
<1>2. CASE ClientRaises(a)
  BY <1>2 DEF ClientRaises, Raises, End, Ended
<1>3. CASE ClientStep(a)
  <2>1. phase[a] \notin Ended
    BY <1>3 DEF ClientStep, ScriptStep, ScriptGivesUp, GivesUp, ScriptResponds, Respond, ScriptReads,
       ScriptReadRaises, Read, ScriptProposesNothing, ScriptProposes, Propose, ScriptProposesAgain,
       CallAgain, CanCall, EndTurn, Verify, Reject, Persist, ToolRaises, Step, Ended, InTool
  <2>2. iteration[a] >= 1 /\ shown[a] \subseteq ObservedFor(subject[a])
    BY <2>1 DEF ScriptInv, ShownIsItsOwn
  <2>3. subject'[a] = subject[a] /\ iteration'[a] >= 1
    BY <1>3, <2>2 DEF ClientStep, ScriptStep, ScriptGivesUp, GivesUp, ScriptResponds, Respond,
       ScriptReads, ScriptReadRaises, Read, ScriptProposesNothing, ScriptProposes, Propose,
       ScriptProposesAgain, CallAgain, EndTurn, Verify, Reject, Persist, ToolRaises, Step, Answered,
       End, Ended
  <2>4. shown'[a] = shown[a] \/ shown'[a] = shown[a] \cup Citable(subject[a])
    BY <1>3 DEF ClientStep, ScriptStep, ScriptGivesUp, ScriptResponds, ScriptReads,
       ScriptReadRaises, ScriptProposesNothing, ScriptProposes, ScriptProposesAgain
  <2>5. Citable(subject[a]) \subseteq ObservedFor(subject[a])
    BY DEF Citable
  <2>6. shown'[a] \subseteq ObservedFor(subject[a])
    BY <2>2, <2>4, <2>5
  <2>. QED
    BY <2>3, <2>6 DEF ObservedFor
<1>. QED
  BY <1>1, <1>2, <1>3

LEMMA DefaultProposesShown ==
  ASSUME ScriptInv, NEW a \in Agent, ClientBegins(a) \/ ClientStep(a) \/ ClientRaises(a),
         client[a] = "evidence_following", phase'[a] = "verify"
  PROVE  proposal'[a] = Cite(shown'[a])
<1>. /\ phase \in [Agent -> Phase] /\ proposal \in [Agent -> Result \cup {NoProposal}]
     /\ shown \in [Agent -> SUBSET Observation]
     /\ iteration \in [Agent -> Nat]
  BY LoopBounds DEF ScriptInv, AgentInv, TypeOK
<1>1. ScriptProposes(a)
  BY DEF ClientBegins, Begin, ClientRaises, Raises, ClientStep, Scripted, ScriptStep, ScriptGivesUp,
         GivesUp, ScriptResponds, Respond, ScriptReads, ScriptReadRaises, Read, ScriptProposesNothing,
         ScriptProposesAgain, CallAgain, EndTurn, Verify, Reject, Persist, ToolRaises, Answered,
         End, InTool
<1>2. phase[a] = "dispatch"
  BY <1>1 DEF ScriptProposes, Propose, CanCall
<1>3. iteration[a] >= 1
  BY <1>2 DEF ScriptInv, ShownIsItsOwn, Ended
<1>4. ~Say(a, {"invented"})
  BY <1>3, DefaultNeverInvents DEF Say
<1>. QED
  BY <1>1, <1>4 DEF ScriptProposes, Refs

LEMMA ScriptsKeep == ScriptInv /\ [ScriptNext]_scriptVars => ScriptInv'
<1> SUFFICES ASSUME ScriptInv, [ScriptNext]_scriptVars PROVE ScriptInv'
  OBVIOUS
<1>1. AgentInv'
  BY ScriptsKeepAgent DEF ScriptInv
<1>2. observed \subseteq observed'
  BY ObservedOnlyGrows DEF ScriptInv
<1>3. CASE RecordObservation \/ RecordAgain \/ UNCHANGED scriptVars
  <2>1. UNCHANGED <<phase, subject, iteration, proposal, client, shown>>
    BY <1>3, AgainIsQuiet DEF RecordObservation, Observe, loop, scriptVars, vars
  <2>2. ShownIsItsOwn'
    BY <1>2, <2>1 DEF ScriptInv, ShownIsItsOwn, ObservedFor
  <2>3. DefaultCitesShown'
    BY <2>1 DEF ScriptInv, DefaultCitesShown
  <2>. QED
    BY <1>1, <2>1, <2>2, <2>3 DEF ScriptInv
<1>4. ASSUME NEW a \in Agent, ClientBegins(a) \/ ClientStep(a) \/ ClientRaises(a)
      PROVE  ScriptInv'
  <2>1. /\ client' = client /\ shown' \in [Agent -> SUBSET Observation]
        /\ \A b \in Agent \ {a} :
             /\ phase'[b] = phase[b] /\ subject'[b] = subject[b] /\ iteration'[b] = iteration[b]
             /\ proposal'[b] = proposal[b] /\ shown'[b] = shown[b]
    BY <1>4, OtherLoopsStay DEF ScriptInv
  <2>2. ASSUME NEW b \in Agent, phase'[b] \notin Ended
        PROVE  iteration'[b] >= 1 /\ \A o \in shown'[b] : o \in observed' /\ o[1] = subject'[b]
    <3>1. CASE b = a
      BY <1>2, <1>4, <2>2, <3>1, LoopShowsItsOwn
    <3>2. CASE b # a
      BY <1>2, <2>1, <2>2, <3>2 DEF ScriptInv, ShownIsItsOwn, ObservedFor
    <3>. QED
      BY <3>1, <3>2
  <2>3. ShownIsItsOwn'
    BY <2>2 DEF ShownIsItsOwn, ObservedFor
  <2>4. ASSUME NEW b \in Agent, client[b] = "evidence_following", phase'[b] = "verify"
        PROVE  proposal'[b] = Cite(shown'[b])
    <3>1. CASE b = a
      BY <1>4, <2>4, <3>1, DefaultProposesShown
    <3>2. CASE b # a
      BY <2>1, <2>4, <3>2 DEF ScriptInv, DefaultCitesShown
    <3>. QED
      BY <3>1, <3>2
  <2>5. DefaultCitesShown'
    BY <2>1, <2>4 DEF DefaultCitesShown, Cite
  <2>. QED
    BY <1>1, <2>1, <2>3, <2>5 DEF ScriptInv
<1>. QED
  BY <1>3, <1>4 DEF ScriptNext

(* What AnalystProofs shows of an arbitrary model holds of the scripts,    *)
(* whose read tools may raise as well.                                     *)
THEOREM ScriptsAreModels == ScriptSpec => []AgentInv
<1>1. ScriptInit => ScriptInv
  BY ScriptStarts
<1>2. ScriptInv /\ [ScriptNext]_scriptVars => ScriptInv'
  BY ScriptsKeep
<1>3. ScriptInv => AgentInv
  BY DEF ScriptInv
<1>. QED
  BY <1>1, <1>2, <1>3, PTL DEF ScriptSpec

(* "The observation IDs that actually came back": what the default script  *)
(* submits passes verify(), whichever loop began before, however many      *)
(* investigations share the indicator and however few rows are returned.   *)
THEOREM DefaultStaysGrounded == ScriptSpec => []DefaultIsGrounded
<1>1. ScriptInv => DefaultIsGrounded
  <2> SUFFICES ASSUME ScriptInv, NEW a \in Agent,
                      client[a] = "evidence_following", phase[a] = "verify"
               PROVE  Verified(subject[a], proposal[a])
    BY DEF DefaultIsGrounded
  <2>1. proposal[a] = Cite(shown[a]) /\ shown[a] \subseteq ObservedFor(subject[a])
    BY DEF ScriptInv, DefaultCitesShown, ShownIsItsOwn, Ended
  <2>. QED
    BY <2>1 DEF Verified, UnknownEvidence, ForeignEvidence, UnknownEntities, Cite, ObservedFor
<1>2. ScriptInit => ScriptInv
  BY ScriptStarts
<1>3. ScriptInv /\ [ScriptNext]_scriptVars => ScriptInv'
  BY ScriptsKeep
<1>. QED
  BY <1>1, <1>2, <1>3, PTL DEF ScriptSpec
=============================================================================
