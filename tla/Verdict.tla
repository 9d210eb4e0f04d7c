------------------------------- MODULE Verdict -------------------------------
(***************************************************************************)
(* What the analyst promises of its verdicts, as analyst/grounding.py      *)
(* states it: a verdict is stored at once with the evidence it cites, it   *)
(* cites observations collected for its own investigation and at least one *)
(* of them, and it is never revised.  Evidence is only ever added.  The    *)
(* pipeline and the agent loop are both shown to implement this.           *)
(***************************************************************************)
CONSTANTS
  Inv,        \* investigations
  Evidence    \* what may be collected for them

VARIABLES
  collected,  \* collected[i]: the evidence recorded for i
  verdict     \* verdict[i]: the evidence i's verdict cites; {} is no verdict

Init ==
  /\ collected = [i \in Inv |-> {}]
  /\ verdict = [i \in Inv |-> {}]

Collect(i) ==
  /\ \E found \in Evidence : collected' = [collected EXCEPT ![i] = @ \cup {found}]
  /\ UNCHANGED verdict

Decide(i) ==
  /\ verdict[i] = {}
  /\ \E cited \in SUBSET collected[i] : verdict' = [verdict EXCEPT ![i] = cited]
  /\ UNCHANGED collected

Next == \E i \in Inv : Collect(i) \/ Decide(i)

Spec == Init /\ [][Next]_<<collected, verdict>>

=============================================================================
