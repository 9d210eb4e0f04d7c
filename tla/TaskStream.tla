----------------------------- MODULE TaskStream -----------------------------
(***************************************************************************)
(* The Redis streams behind core/streams.py: one stream per pipeline stage *)
(* with a single consumer group each, and a dead-letter stream without a   *)
(* group.  A stream is an append-only log of investigation identifiers (a  *)
(* task carries nothing else), the group's last-delivered position, and    *)
(* the group's pending entries with their delivery counter.  An entry's    *)
(* idle timer is abstracted to whether it has passed the threshold the     *)
(* stage passes to XPENDING and XCLAIM.  Entry identifiers are positions   *)
(* in the log.  Each operator below is one Redis command.                  *)
(***************************************************************************)
EXTENDS InvestigationStatus, Integers, Sequences, FiniteSets

VARIABLES
  log,        \* log[s]: the investigations published to stream s, in order
  cursor,     \* cursor[s]: the position the group of s has been delivered up to
  pending,    \* pending[s][n]: delivery count and idleness of unacknowledged n
  dlq         \* dead-lettered entries, as <<stream, position>>

streamVars == <<log, cursor, pending, dlq>>

Stage == {"enrich", "analyze", "correlate"}

PendingEntry == [count : Nat, idle : BOOLEAN]

StreamTypeOK ==
  /\ log \in [Stage -> Seq(Inv)]
  /\ cursor \in [Stage -> Nat]
  /\ dlq \subseteq Stage \X Nat
  /\ DOMAIN pending = Stage
  /\ \A s \in Stage :
       /\ cursor[s] <= Len(log[s])
       /\ DOMAIN pending[s] \subseteq 1 .. cursor[s]
       /\ pending[s] \in [DOMAIN pending[s] -> PendingEntry]

(* XGROUP CREATE ... 0 MKSTREAM on every stage's stream.                   *)
StreamInit ==
  /\ log = [s \in Stage |-> <<>>]
  /\ cursor = [s \in Stage |-> 0]
  /\ pending = [s \in Stage |-> [n \in {} |-> [count |-> 0, idle |-> FALSE]]]
  /\ dlq = {}

Undelivered(s) == cursor[s] + 1 .. Len(log[s])

IdleEntries(s) == {n \in DOMAIN pending[s] : pending[s][n].idle}

(* Positions of s that some worker still has to acknowledge.               *)
Unacknowledged(s) == Undelivered(s) \cup DOMAIN pending[s]

Xadd(s, i) ==
  /\ log' = [log EXCEPT ![s] = Append(@, i)]
  /\ UNCHANGED <<cursor, pending, dlq>>

(* XREADGROUP > with COUNT 1: the next entry, pending from now on.         *)
XreadGroup(s) ==
  LET n == cursor[s] + 1
  IN  /\ Undelivered(s) # {}
      /\ cursor' = [cursor EXCEPT ![s] = n]
      /\ pending' = [pending EXCEPT ![s] =
           [m \in DOMAIN pending[s] \cup {n} |->
              IF m = n THEN [count |-> 1, idle |-> FALSE] ELSE pending[s][m]]]
      /\ UNCHANGED <<log, dlq>>

(* Mutant of Xclaim: the idle timer is not restarted.                      *)
XclaimKeepingIdle(s, claimed) ==
  /\ pending' = [pending EXCEPT ![s] =
       [m \in DOMAIN pending[s] |->
          IF m \in claimed
          THEN [pending[s][m] EXCEPT !.count = @ + 1] ELSE pending[s][m]]]
  /\ UNCHANGED <<log, cursor, dlq>>

(* XCLAIM: the counter goes up and the idle timer restarts.                *)
Xclaim(s, claimed) ==
  /\ pending' = [pending EXCEPT ![s] =
       [m \in DOMAIN pending[s] |->
          IF m \in claimed
          THEN [count |-> pending[s][m].count + 1, idle |-> FALSE]
          ELSE pending[s][m]]]
  /\ UNCHANGED <<log, cursor, dlq>>

Xack(s, n) ==
  /\ pending' = [pending EXCEPT ![s] =
       [m \in DOMAIN pending[s] \ {n} |-> pending[s][m]]]
  /\ UNCHANGED <<log, cursor, dlq>>

XaddDlq(s, n) ==
  /\ dlq' = dlq \cup {<<s, n>>}
  /\ UNCHANGED <<log, cursor, pending>>

(* The idle timer of entry n passes the threshold.                         *)
PassThreshold(s, n) ==
  /\ n \in DOMAIN pending[s] \ IdleEntries(s)
  /\ pending' = [pending EXCEPT ![s] =
       [m \in DOMAIN pending[s] |->
          IF m = n THEN [pending[s][m] EXCEPT !.idle = TRUE] ELSE pending[s][m]]]
  /\ UNCHANGED <<log, cursor, dlq>>

=============================================================================
