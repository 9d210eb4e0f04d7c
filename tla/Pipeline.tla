------------------------------ MODULE Pipeline ------------------------------
(***************************************************************************)
(* The whole pipeline: the API, the workers of the three stages and the    *)
(* sweeper, running against one database and one Redis, with the failures  *)
(* the code is written for.  A worker or the sweeper may die anywhere and  *)
(* come back; a publish of the API may be lost; a pending entry becomes    *)
(* reclaimable while its worker still runs; the sweeper takes an           *)
(* investigation for stalled while its task is in flight.  Each of these   *)
(* is bounded by a constant.                                               *)
(***************************************************************************)
EXTENDS StageWorker, Sweeper, SubmitApi

CONSTANTS
  MaxCrashes,     \* deaths of workers and aborted sweeps
  MaxOverruns     \* times a timer passes its threshold with work in flight

ASSUME BoundsAreNatural ==
  MaxCrashes \in Nat /\ MaxOverruns \in Nat

VARIABLES crashes, overruns, earlySweeps

faults == <<crashes, overruns, earlySweeps>>

vars == <<rows, streamVars, workers, sweeper, api, faults>>

TypeOK ==
  /\ RowsTypeOK
  /\ StreamTypeOK
  /\ WorkersTypeOK
  /\ SweeperTypeOK
  /\ ApiTypeOK
  /\ crashes \in 0 .. MaxCrashes
  /\ overruns \in 0 .. MaxOverruns
  /\ earlySweeps \in 0 .. MaxOverruns

Init ==
  /\ RowsInit
  /\ StreamInit
  /\ WorkersInit
  /\ SweeperInit
  /\ ApiInit
  /\ crashes = 0 /\ overruns = 0 /\ earlySweeps = 0

-----------------------------------------------------------------------------
(* The processes.                                                          *)

Request(i) ==
  /\ Submit(i) \/ PublishFirst(i) \/ PublishFails(i) \/ Cancel(i)
  /\ UNCHANGED <<workers, sweeper, faults>>

(* A submission that has begun ends one way or the other.                  *)
FinishRequest(i) ==
  /\ PublishFirst(i) \/ PublishFails(i)
  /\ UNCHANGED <<workers, sweeper, faults>>

Work(w) ==
  /\ WorkerStep(w)
  /\ UNCHANGED <<sweeper, api, faults>>

Sweep ==
  /\ SweepStep
  /\ UNCHANGED <<workers, api, faults>>

-----------------------------------------------------------------------------
(* Failures and timers.                                                    *)

Crash(w) ==
  /\ crashes < MaxCrashes
  /\ crashes' = crashes + 1
  /\ Die(w)
  /\ UNCHANGED <<sweeper, api, overruns, earlySweeps>>

AbortSweep ==
  /\ crashes < MaxCrashes
  /\ crashes' = crashes + 1
  /\ SweepAborts
  /\ UNCHANGED <<workers, api, overruns, earlySweeps>>

(* The task worker w works on and those of the same reclaim after it.      *)
HeldTasks(w) == batch[w] \cup ({task[w]} \ {NoTask})

Holds(w, s, n) == StageOf(w) = s /\ \E t \in HeldTasks(w) : t.id = n

Held(s, n) == \E w \in Worker : Holds(w, s, n)

(* The worker died or left the message for a retry, and time passes.       *)
AbandonedEntryIdles(s, n) ==
  /\ ~Held(s, n)
  /\ PassThreshold(s, n)
  /\ UNCHANGED <<rows, workers, sweeper, api, faults>>

(* The task, or the batch it waits in, takes longer than the threshold.    *)
HeldEntryIdles(s, n) ==
  /\ overruns + earlySweeps < MaxOverruns
  /\ Held(s, n)
  /\ PassThreshold(s, n)
  /\ overruns' = overruns + 1
  /\ UNCHANGED <<rows, workers, sweeper, api, crashes, earlySweeps>>

(* Some process still has to act for investigation i.                      *)
InFlight(i) ==
  \/ api[i] = "inserted"
  \/ \E s \in Stage : \E n \in Unacknowledged(s) : log[s][n] = i
  \/ \E r \in backlog \cup touched : r.inv = i

StalledRowAges(i) ==
  /\ ~InFlight(i)
  /\ Age(i)
  /\ UNCHANGED <<streamVars, workers, sweeper, api, faults>>

(* A stage, or the queue before it, is slower than the sweeper's patience. *)
BusyRowAges(i) ==
  /\ overruns + earlySweeps < MaxOverruns
  /\ InFlight(i)
  /\ Age(i)
  /\ earlySweeps' = earlySweeps + 1
  /\ UNCHANGED <<streamVars, workers, sweeper, api, crashes, overruns>>

-----------------------------------------------------------------------------

Positions == UNION {1 .. Len(log[s]) : s \in Stage}

Next ==
  \/ \E i \in Inv : Request(i) \/ StalledRowAges(i) \/ BusyRowAges(i)
  \/ \E w \in Worker : Work(w) \/ Crash(w)
  \/ Sweep \/ AbortSweep
  \/ \E s \in Stage, n \in Positions :
       AbandonedEntryIdles(s, n) \/ HeldEntryIdles(s, n)

Spec == Init /\ [][Next]_vars

(* Fairness: a process that is up keeps taking its next step, a request    *)
(* ends, and time passes for what nobody works on.  Nothing is assumed of  *)
(* crashes, overruns, early sweeps, submissions or cancellations.          *)
Fairness ==
  /\ \A w \in Worker : WF_vars(Work(w))
  /\ WF_vars(Sweep)
  /\ \A i \in Inv : WF_vars(FinishRequest(i)) /\ WF_vars(StalledRowAges(i))
  /\ \A s \in Stage :
       WF_vars(\E n \in Positions : AbandonedEntryIdles(s, n))

FairSpec == Spec /\ Fairness

-----------------------------------------------------------------------------
(* Safety.                                                                 *)

(* The statuses an investigation may have once its task was published to   *)
(* stream s.                                                               *)
Reached(s) ==
  CASE s = "enrich"    -> Status
    [] s = "analyze"   -> Status \ {"pending"}
    [] s = "correlate" -> Status \ {"pending", "enriching"}

(* A task never runs ahead of its investigation, so advance_or_resume()    *)
(* refuses only one that has moved past the stage or was cancelled, as its *)
(* docstring says, and acknowledging a refused task loses no work.         *)
NoTaskAhead ==
  \A s \in Stage : \A n \in 1 .. Len(log[s]) : status[log[s][n]] \in Reached(s)

(* Evidence first: an investigation is analysed only after both sources    *)
(* have an observation, if only a failed one, and enrichment_status says   *)
(* which succeeded; and a result exists only on top of them.               *)
EvidencePrecedesAnalysis ==
  \A i \in Inv :
    status[i] \in {"analyzing", "correlating", "complete"} \/ result[i] # {}
      => evidence[i] = Source /\ marked[i]

(* An investigation that was let past analysis has a stored result that    *)
(* cites observations of its own, and a complete one is in the graph.      *)
ConclusionIsGrounded ==
  \A i \in Inv :
    /\ status[i] \in {"correlating", "complete"} => Grounded(i, result[i])
    /\ status[i] = "complete" => linked[i]

(* The streams where a task can carry on an investigation of this status.  *)
Carriers(st) ==
  CASE st = "pending"     -> {"enrich"}
    [] st = "enriching"   -> {"enrich", "analyze"}
    [] st = "analyzing"   -> {"analyze", "correlate"}
    [] st = "correlating" -> {"correlate"}

(* Lost work is not an option: whoever dies, and whatever is claimed by    *)
(* two workers at once, an active investigation always has an              *)
(* unacknowledged task that will carry it on, since _process publishes     *)
(* before it acknowledges.  The one exception is that the API inserted the *)
(* row and its publish is still to come, or failed: then no task exists    *)
(* and the row is still pending.                                           *)
(*                                                                         *)
(* Documents name another exception, which the code does not have: a       *)
(* worker that "acknowledged its message and then died before publishing   *)
(* the next stage's task.  There is no pending message to reclaim, nothing *)
(* in any stream" (sweeper.py, lines 3 to 7).  That state would violate    *)
(* NoStranding, so that where it holds the documents are wrong.            *)
NoStranding ==
  \A i \in Inv :
    status[i] \in Active =>
      \/ \E s \in Carriers(status[i]) : \E n \in Unacknowledged(s) : log[s][n] = i
      \/ /\ api[i] \in {"inserted", "lost"}
         /\ status[i] = "pending"
         /\ \A s \in Stage : \A n \in 1 .. Len(log[s]) : log[s][n] # i

(* A dead-lettered task is one whose investigation has already ended, so   *)
(* the sweeper never revives what an operator finds in the dead letters.   *)
DeadLetterIsFinal ==
  \A d \in dlq : status[log[d[1]][d[2]]] \in Terminal

(* As long as no task outlives the reclaim threshold, XCLAIM hands an      *)
(* entry to one worker at a time, and the attempt the worker acts on is    *)
(* the delivery count Redis keeps.                                         *)
ClaimsAreExclusive ==
  overruns = 0 =>
    \A w \in Worker : \A t \in HeldTasks(w) :
      LET s == StageOf(w)
      IN  /\ t.id \in DOMAIN pending[s]
          /\ pending[s][t.id].count = t.attempt
          /\ \A v \in Worker \ {w} : ~Holds(v, s, t.id)

(* Without crashes, overruns or impatient sweeps every stage's task is     *)
(* published once, retries and lost first publishes included: the sweeper  *)
(* does not re-queue what it re-queued already.                            *)
NoNeedlessDuplicates ==
  crashes = 0 /\ overruns = 0 /\ earlySweeps = 0 =>
    \A s \in Stage : \A m, n \in 1 .. Len(log[s]) :
      log[s][m] = log[s][n] => m = n

-----------------------------------------------------------------------------
(* Refinement and action properties.                                       *)

Life == INSTANCE Lifecycle

(* Whatever races, every change of a status is a legal transition, and a   *)
(* terminal status is final.                                               *)
ImplementsLifecycle == Life!Spec

Verdicts ==
  INSTANCE Verdict WITH Evidence <- Source, collected <- evidence, verdict <- result

(* Evidence is only added, and an investigation gets one verdict at most,  *)
(* on evidence that was there when it was stored: reruns of a stage and    *)
(* analysts that overlap change nothing of it.                             *)
ImplementsVerdict == Verdicts!Spec

(* lifecycle.py, lines 4 to 6: a task for an investigation that has moved  *)
(* past the stage cannot change it, because "every transition is expressed *)
(* as an UPDATE guarded by the status the worker expects to find".         *)
TransitionsAreGuarded ==
  [][\A w \in Worker :
       pc[w] # pc'[w] /\ pc[w] \notin {"poll", "read"}
         /\ status'[task[w].inv] # status[task[w].inv]
       => status[task[w].inv] \in Entry(StageOf(w))]_vars

-----------------------------------------------------------------------------
(* Liveness, under FairSpec.                                               *)

(* Every submitted investigation ends: complete, failed or cancelled, even *)
(* if its first publish is lost and workers die.                           *)
EventuallySettled ==
  \A i \in Inv : status[i] # "absent" ~> status[i] \in Terminal

(* Every stream drains: no task is delivered over and over for ever.       *)
StreamsDrain == <>[](\A s \in Stage : Unacknowledged(s) = {})

-----------------------------------------------------------------------------
(* Why the conclusions are grounded: the inductive invariant.  A published *)
(* task vouches for what the stages before it left in the database, and so *)
(* do the copies of it that workers and the sweeper hold.                  *)

(* What stream s may hold a task for.                                      *)
ReadyFor(s, i) ==
  /\ status[i] \in Reached(s)
  /\ s # "enrich" => evidence[i] = Source /\ marked[i]
  /\ s = "correlate" => result[i] # {}

LogsReady ==
  \A s \in Stage : \A n \in 1 .. Len(log[s]) : ReadyFor(s, log[s][n])

HeldReady ==
  \A w \in Worker : \A t \in HeldTasks(w) : ReadyFor(StageOf(w), t.inv)

SweepReady ==
  \A r \in backlog \cup touched : ReadyFor(RecoveryStream(r.status), r.inv)

ApiReady == \A i \in Inv : api[i] # "none" => status[i] # "absent"

(* How far a worker in the middle of a stage has got.                      *)
StepReady(w) ==
  LET s == StageOf(w)
      i == task[w].inv
  IN  /\ pc[w] \in {"dns", "http", "summary"} => s = "enrich"
      /\ pc[w] = "analyse" => s = "analyze"
      /\ pc[w] \in {"link", "finish"} => s = "correlate"
      /\ pc[w] = "publish" => s # "correlate" /\ ReadyFor(NextStream(s), i)
      /\ pc[w] \in {"dns", "http", "summary", "analyse"} =>
           status[i] \in Reached(NextStream(s))
      /\ pc[w] \in {"http", "summary"} => "dns" \in evidence[i]
      /\ pc[w] = "summary" => "http" \in evidence[i]
      /\ pc[w] = "finish" => linked[i]

StepsReady == \A w \in Worker : StepReady(w)

RowReady(i) ==
  /\ status[i] \in {"analyzing", "correlating", "complete"} \/ result[i] # {}
       => evidence[i] = Source /\ marked[i]
  /\ status[i] \in {"correlating", "complete"} => result[i] # {}
  /\ status[i] = "complete" => linked[i]

RowsReady == \A i \in Inv : RowReady(i)

GroundingInv ==
  /\ TypeOK
  /\ LogsReady /\ HeldReady /\ SweepReady /\ ApiReady
  /\ StepsReady
  /\ RowsReady

=============================================================================
