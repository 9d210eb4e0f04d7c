--------------------------- MODULE ScriptedAnalyst ---------------------------
(***************************************************************************)
(* The model clients behind the agent loop: the live one of                *)
(* analyst/anthropic_client.py, whose answers stay arbitrary, and the      *)
(* scripts of analyst/stub_client.py.  A script answers by its turn and by *)
(* what the tools have shown it; tools, grounding and loop are those of    *)
(* AnalystAgent, with one tool call a turn.  Every investigation is of the *)
(* same indicator, so that get_enrichment shows the evidence of all.       *)
(***************************************************************************)
EXTENDS AnalystAgent, Sequences

CONSTANTS
  Client,       \* the clients a worker may be configured with
  RowLimit      \* the rows get_enrichment returns, 50 in the code

Script ==
  [evidence_following |-> <<"search", "enrichment", "inspect", "related", "conclude">>,
   hallucinating |-> <<"enrichment", "invented", "corrected">>,
   refusing |-> <<"refusal">>,
   never_concluding |-> <<"enrichment">>]

ASSUME ClientsExist == Client \subseteq DOMAIN Script \cup {"anthropic"}

ASSUME OneCallATurn == MaxCalls = 1

ASSUME RowsAreReturned == RowLimit \in Nat \ {0}

VARIABLES
  client,     \* client[a]: what build_client() gives worker a
  recorded,   \* the observations in the order of collected_at
  shown       \* shown[a]: the observations the tools called citable

scriptVars == <<vars, client, recorded, shown>>

ScriptInit ==
  /\ Init
  /\ client \in [Agent -> Client]
  /\ recorded = <<>>
  /\ shown = [a \in Agent |-> {}]

Scripted(a) == client[a] # "anthropic"

(* The responder of this turn; the last one answers every later turn.      *)
Responder(a) ==
  LET script == Script[client[a]]
  IN  script[IF iteration[a] <= Len(script) THEN iteration[a] ELSE Len(script)]

Say(a, responders) ==
  Scripted(a) /\ phase[a] \in {"turn", "dispatch"} /\ Responder(a) \in responders

-----------------------------------------------------------------------------
(* get_enrichment: the newest rows, of which the model may cite its own.   *)

Newest == {recorded[n] : n \in {k \in DOMAIN recorded : k > Len(recorded) - RowLimit}}

(* Mutant of Citable: rows of earlier investigations are not told apart.   *)
CitableWhoever(i) == Newest

Citable(i) == Newest \cap ObservedFor(i)

-----------------------------------------------------------------------------
(* The scripts.                                                            *)

Cite(refs) == [refs |-> refs, entities |-> Entity]

(* A refusal, or a text because there is nothing to cite.                  *)
ScriptGivesUp(a) ==
  /\ Say(a, {"refusal"}) \/ (Say(a, {"inspect", "conclude"}) /\ shown[a] = {})
  /\ GivesUp(a)
  /\ UNCHANGED shown

ScriptResponds(a) ==
  /\ Say(a, {"search", "enrichment", "related", "invented", "corrected"})
       \/ (Say(a, {"inspect", "conclude"}) /\ shown[a] # {})
  /\ Respond(a)
  /\ UNCHANGED shown

ScriptReads(a) ==
  /\ Say(a, {"search", "enrichment", "inspect", "related"})
  /\ Read(a)
  /\ shown' = [shown EXCEPT ![a] = IF Say(a, {"enrichment"}) THEN @ \cup Citable(subject[a]) ELSE @]

(* dispatch() hands the exception of a read tool to the model.             *)
ScriptReadRaises(a) ==
  /\ Say(a, {"search", "enrichment", "inspect", "related"})
  /\ errors < MaxErrors
  /\ errors' = errors + 1
  /\ CanCall(a)
  /\ Answered(a)
  /\ UNCHANGED <<store, resultCalls, proposal, shown>>

(* The corrected result fails validation when there is nothing to cite.    *)
ScriptProposesNothing(a) ==
  /\ Say(a, {"corrected"}) /\ shown[a] = {} /\ resultCalls[a] = 0
  /\ Read(a)
  /\ UNCHANGED shown

Refs(a) == IF Say(a, {"invented"}) THEN {Invented} ELSE shown[a]

ScriptProposes(a) ==
  /\ Say(a, {"invented", "corrected", "conclude"})
  /\ Refs(a) # {}
  /\ Propose(a)
  /\ proposal'[a] = Cite(Refs(a))
  /\ UNCHANGED shown

ScriptProposesAgain(a) ==
  /\ Say(a, {"invented", "corrected", "conclude"})
  /\ CallAgain(a)
  /\ UNCHANGED shown

(* What the loop does next with the answer of a script.                    *)
ScriptStep(a) ==
  \/ ScriptGivesUp(a) \/ ScriptResponds(a) \/ ScriptReads(a) \/ ScriptReadRaises(a)
  \/ ScriptProposesNothing(a) \/ ScriptProposes(a) \/ ScriptProposesAgain(a)
  \/ /\ Scripted(a)
     /\ EndTurn(a) \/ Verify(a) \/ Reject(a) \/ Persist(a) \/ ToolRaises(a)
     /\ UNCHANGED shown

ClientStep(a) ==
  /\ ScriptStep(a) \/ (~Scripted(a) /\ Step(a) /\ UNCHANGED shown)
  /\ UNCHANGED <<client, recorded>>

(* A task is taken: handle() builds its client anew.                       *)
ClientBegins(a) ==
  /\ Begin(a)
  /\ shown' = [shown EXCEPT ![a] = {}]
  /\ UNCHANGED <<client, recorded>>

(* The call to the live API fails or times out, or the worker dies.        *)
ClientRaises(a) ==
  /\ Raises(a)
  /\ UNCHANGED <<client, recorded, shown>>

RecordObservation ==
  /\ Observe
  /\ recorded' = Append(recorded, CHOOSE o \in observed' \ observed : TRUE)
  /\ UNCHANGED <<client, shown>>

(* A pass over evidence that is there already makes its row the newest:    *)
(* "collected_at = now()".                                                 *)
RecordAgain ==
  /\ \E o \in observed : recorded' = Append(SelectSeq(recorded, LAMBDA p : p # o), o)
  /\ UNCHANGED <<vars, client, shown>>

ScriptNext ==
  \/ RecordObservation \/ RecordAgain
  \/ \E a \in Agent : ClientBegins(a) \/ ClientStep(a) \/ ClientRaises(a)

(* The event loop keeps running whatever loop has begun.                   *)
ScriptSpec ==
  /\ ScriptInit /\ [][ScriptNext]_scriptVars
  /\ \A a \in Agent : WF_scriptVars(ClientStep(a))

-----------------------------------------------------------------------------
(* Properties.                                                             *)

(* stub_client.py: the default script "cites the observation IDs that      *)
(* actually came back, the way a real model would": what get_enrichment    *)
(* calls citable is what verify() accepts.                                 *)
DefaultIsGrounded ==
  \A a \in Agent :
    client[a] = "evidence_following" /\ phase[a] = "verify"
      => Verified(subject[a], proposal[a])

(* A script that has been shown evidence ends with a recorded verdict, the *)
(* default one at its fifth turn and the hallucinating one after the       *)
(* rejection it provokes, unless the database or the worker fails.         *)
EvidenceLeadsToVerdict ==
  \A a \in Agent :
    phase[a] = "turn" /\ client[a] \in {"evidence_following", "hallucinating"} /\ shown[a] # {}
      ~> phase[a] \in {"recorded", "raised"} \/ errors > 0

(* stub_client.py: "Loops on a read tool forever, to prove the iteration   *)
(* cap holds".  No client keeps a worker for ever.                         *)
ClientsEnd == \A a \in Agent : phase[a] = "turn" ~> phase[a] \in Ended
=============================================================================
