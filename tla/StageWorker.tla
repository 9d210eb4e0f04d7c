----------------------------- MODULE StageWorker -----------------------------
(***************************************************************************)
(* The worker processes: the loop of workers/base.py and the three stages  *)
(* that subclass it.  A worker takes tasks from its stage's stream, first  *)
(* the entries that sat unacknowledged for too long, then new ones, and    *)
(* works on them one after the other.  Every database statement and every  *)
(* Redis command of the loop is a step of its own, so that any other       *)
(* process can act, or this one die, between two of them.                  *)
(***************************************************************************)
EXTENDS InvestigationStore, TaskStream

CONSTANTS
  Enricher, Analyst, Correlator,  \* the processes that run each stage
  MaxAttempts,                    \* MAX_ATTEMPTS of core/streams.py
  ReclaimCount,                   \* how many entries one reclaim looks at
  NoTask                          \* a worker between two tasks

Worker == Enricher \cup Analyst \cup Correlator

Task == [id : Nat, inv : Inv, attempt : Nat]

ASSUME StagesAreStaffed ==
  /\ Enricher # {} /\ Analyst # {} /\ Correlator # {}
  /\ Enricher \cap Analyst = {}
  /\ Enricher \cap Correlator = {}
  /\ Analyst \cap Correlator = {}

ASSUME LimitsArePositive == MaxAttempts \in Nat \ {0} /\ ReclaimCount \in Nat \ {0}

ASSUME NoTaskIsNone == NoTask \notin Task

VARIABLES
  pc,         \* pc[w]: the step of the loop worker w takes next
  task,       \* task[w]: the task _process is working on
  batch       \* batch[w]: the tasks of the same reclaim that wait their turn

workers == <<pc, task, batch>>

-----------------------------------------------------------------------------
(* The stages: what each subclass sets.                                    *)

StageOf(w) ==
  IF w \in Enricher THEN "enrich"
  ELSE IF w \in Analyst THEN "analyze" ELSE "correlate"

Expected(s) ==
  CASE s = "enrich"    -> "pending"
    [] s = "analyze"   -> "enriching"
    [] s = "correlate" -> "analyzing"

Working(s) ==
  CASE s = "enrich"    -> "enriching"
    [] s = "analyze"   -> "analyzing"
    [] s = "correlate" -> "correlating"

(* Where handle() begins, and where a handle() that returned leads.        *)
FirstStep(s) ==
  CASE s = "enrich"    -> "dns"
    [] s = "analyze"   -> "analyse"
    [] s = "correlate" -> "link"

(* Mutant of NextStream: enrichment hands over to the wrong stage.         *)
NextStreamSkipping(s) == "correlate"

NextStream(s) == IF s = "enrich" THEN "analyze" ELSE "correlate"

HandleSteps == {"dns", "http", "summary", "analyse", "link"}

Steps ==
  {"poll", "read", "begin", "enter", "finish", "publish", "reject", "dlq", "ack"}
    \cup HandleSteps

WorkersTypeOK ==
  /\ pc \in [Worker -> Steps]
  /\ task \in [Worker -> Task \cup {NoTask}]
  /\ batch \in [Worker -> SUBSET Task]
  /\ \A w \in Worker : task[w] = NoTask <=> pc[w] \in {"poll", "read"}

WorkersInit ==
  /\ pc = [w \in Worker |-> "poll"]
  /\ task = [w \in Worker |-> NoTask]
  /\ batch = [w \in Worker |-> {}]

Goto(w, l) ==
  /\ pc' = [pc EXCEPT ![w] = l]
  /\ UNCHANGED <<task, batch>>

(* The for loop of run() over what one reclaim or consume returned, oldest *)
(* entry first.                                                            *)
WorkOn(w, tasks) ==
  \E t \in tasks :
    /\ \A u \in tasks : t.id <= u.id
    /\ task' = [task EXCEPT ![w] = t]
    /\ batch' = [batch EXCEPT ![w] = tasks \ {t}]
    /\ pc' = [pc EXCEPT ![w] = "begin"]

(* Mutant of Idle: the finished task is not dropped.                       *)
IdleKeepingTask(w) ==
  /\ batch' = [batch EXCEPT ![w] = {}]
  /\ pc' = [pc EXCEPT ![w] = "poll"]
  /\ UNCHANGED task

Idle(w) ==
  /\ task' = [task EXCEPT ![w] = NoTask]
  /\ batch' = [batch EXCEPT ![w] = {}]
  /\ pc' = [pc EXCEPT ![w] = "poll"]

(* _process has returned.                                                  *)
TakeNext(w) == IF batch[w] = {} THEN Idle(w) ELSE WorkOn(w, batch[w])

-----------------------------------------------------------------------------
(* Taking tasks.                                                           *)

(* Mutant of Stalled: a task that is out of attempts is passed over.       *)
StalledWithinLimit(s) ==
  {n \in IdleEntries(s) : pending[s][n].count < MaxAttempts}

(* XPENDING lists the first ReclaimCount idle entries.                     *)
Stalled(s) ==
  {n \in IdleEntries(s) :
     Cardinality({m \in IdleEntries(s) : m < n}) < ReclaimCount}

Reclaimed(s) ==
  {[id |-> n, inv |-> log[s][n], attempt |-> pending[s][n].count + 1] :
     n \in Stalled(s)}

(* Stalled work first: XPENDING, then XCLAIM of each entry it lists.       *)
Reclaim(w) ==
  /\ pc[w] = "poll"
  /\ Stalled(StageOf(w)) # {}
  /\ Xclaim(StageOf(w), Stalled(StageOf(w)))
  /\ WorkOn(w, Reclaimed(StageOf(w)))
  /\ UNCHANGED rows

NothingStalled(w) ==
  /\ pc[w] = "poll"
  /\ Stalled(StageOf(w)) = {}
  /\ Goto(w, "read")
  /\ UNCHANGED <<rows, streamVars>>

Consume(w) ==
  LET n == cursor[StageOf(w)] + 1
  IN  /\ pc[w] = "read"
      /\ XreadGroup(StageOf(w))
      /\ WorkOn(w, {[id |-> n, inv |-> log[StageOf(w)][n], attempt |-> 1]})
      /\ UNCHANGED rows

ConsumeTimesOut(w) ==
  /\ pc[w] = "read"
  /\ Undelivered(StageOf(w)) = {}
  /\ Goto(w, "poll")
  /\ UNCHANGED <<rows, streamVars>>

-----------------------------------------------------------------------------
(* _process up to handle().                                                *)

(* Mutant of MarkExhausted: only the message is given up.                  *)
MarkExhaustedMessageOnly(w) ==
  /\ pc[w] = "begin"
  /\ task[w].attempt > MaxAttempts
  /\ Goto(w, "dlq")
  /\ UNCHANGED <<rows, streamVars>>

(* Out of attempts: the investigation first, then the message.             *)
MarkExhausted(w) ==
  /\ pc[w] = "begin"
  /\ task[w].attempt > MaxAttempts
  /\ MarkFailed(task[w].inv)
  /\ Goto(w, "dlq")
  /\ UNCHANGED streamVars

DeadLetter(w) ==
  /\ pc[w] = "dlq"
  /\ XaddDlq(StageOf(w), task[w].id)
  /\ Goto(w, "ack")
  /\ UNCHANGED rows

CheckCancelled(w) ==
  /\ pc[w] = "begin"
  /\ task[w].attempt <= MaxAttempts
  /\ Goto(w, IF status[task[w].inv] = "cancelled" THEN "ack" ELSE "enter")
  /\ UNCHANGED <<rows, streamVars>>

(* The statuses a task of stage s may be started or resumed from.          *)
Entry(s) == {Expected(s), Working(s)}

EnterStage(w) ==
  LET s == StageOf(w)
  IN  /\ pc[w] = "enter"
      /\ AdvanceOrResume(task[w].inv, Expected(s), Working(s))
      /\ Goto(w, IF status[task[w].inv] \in Entry(s) THEN FirstStep(s) ELSE "ack")
      /\ UNCHANGED streamVars

-----------------------------------------------------------------------------
(* handle() of each stage.                                                 *)

(* Mutant of RecordDns: the other source is not recorded.                  *)
RecordDnsOnly(w) ==
  /\ pc[w] = "dns"
  /\ SaveObservation(task[w].inv, "dns")
  /\ Goto(w, "summary")
  /\ UNCHANGED streamVars

(* Both collectors have answered or failed; either way the source's row is *)
(* written, with its data or with its error.                               *)
RecordDns(w) ==
  /\ pc[w] = "dns"
  /\ SaveObservation(task[w].inv, "dns")
  /\ Goto(w, "http")
  /\ UNCHANGED streamVars

RecordHttp(w) ==
  /\ pc[w] = "http"
  /\ SaveObservation(task[w].inv, "http")
  /\ Goto(w, "summary")
  /\ UNCHANGED streamVars

(* Mutant of Summarise: acknowledge, then publish.                         *)
SummariseAndAcknowledge(w) ==
  /\ pc[w] = "summary"
  /\ SetEnrichmentStatus(task[w].inv)
  /\ Xack(StageOf(w), task[w].id)
  /\ Goto(w, "publish")

Summarise(w) ==
  /\ pc[w] = "summary"
  /\ SetEnrichmentStatus(task[w].inv)
  /\ Goto(w, "publish")
  /\ UNCHANGED streamVars

Conclude(w) ==
  /\ pc[w] = "analyse"
  /\ \E cited \in SUBSET Source :
       Grounded(task[w].inv, cited) /\ PersistResult(task[w].inv, cited)
  /\ Goto(w, "publish")
  /\ UNCHANGED streamVars

(* Mutant of AnalysisFails: the failure is swallowed.                      *)
AnalysisFailsSilently(w) ==
  /\ pc[w] = "analyse"
  /\ Goto(w, "publish")
  /\ UNCHANGED <<rows, streamVars>>

(* A refusal, an exhausted iteration cap, a turn without a tool call; or a *)
(* commit whose reply was lost, which dispatch() hands to the model as a   *)
(* tool error, so that the result may exist all the same.                  *)
AnalysisFails(w) ==
  /\ pc[w] = "analyse"
  /\ \/ UNCHANGED rows
     \/ \E cited \in SUBSET Source :
          Grounded(task[w].inv, cited) /\ PersistResult(task[w].inv, cited)
  /\ Goto(w, "reject")
  /\ UNCHANGED streamVars

LinkEntities(w) ==
  /\ pc[w] = "link"
  /\ CreateRelationships(task[w].inv)
  /\ Goto(w, "finish")
  /\ UNCHANGED streamVars

(* An observation correlation cannot interpret.                            *)
PayloadMalformed(w) ==
  /\ pc[w] = "link"
  /\ Goto(w, "reject")
  /\ UNCHANGED <<rows, streamVars>>

(* Any other exception: the message stays pending, the loop moves on.      *)
HandleRaises(w) ==
  /\ pc[w] \in HandleSteps
  /\ TakeNext(w)
  /\ UNCHANGED <<rows, streamVars>>

-----------------------------------------------------------------------------
(* _process after handle().                                                *)

(* Mutant of Reject: the message is acknowledged, the row left as it is.   *)
RejectMessageOnly(w) ==
  /\ pc[w] = "reject"
  /\ Goto(w, "ack")
  /\ UNCHANGED <<rows, streamVars>>

(* PermanentError: fail without a retry.                                   *)
Reject(w) ==
  /\ pc[w] = "reject"
  /\ MarkFailed(task[w].inv)
  /\ Goto(w, "ack")
  /\ UNCHANGED streamVars

(* Only correlation has a final status; its outcome is not looked at.      *)
Finish(w) ==
  /\ pc[w] = "finish"
  /\ Advance(task[w].inv, Working(StageOf(w)), "complete")
  /\ Goto(w, "ack")
  /\ UNCHANGED streamVars

(* Publish before acknowledging.                                           *)
PublishNext(w) ==
  /\ pc[w] = "publish"
  /\ Xadd(NextStream(StageOf(w)), task[w].inv)
  /\ Goto(w, "ack")
  /\ UNCHANGED rows

Acknowledge(w) ==
  /\ pc[w] = "ack"
  /\ Xack(StageOf(w), task[w].id)
  /\ TakeNext(w)
  /\ UNCHANGED rows

-----------------------------------------------------------------------------

TaskStep(w) ==
  \/ MarkExhausted(w) \/ DeadLetter(w)
  \/ CheckCancelled(w) \/ EnterStage(w)
  \/ RecordDns(w) \/ RecordHttp(w) \/ Summarise(w)
  \/ Conclude(w) \/ AnalysisFails(w)
  \/ LinkEntities(w) \/ PayloadMalformed(w)
  \/ HandleRaises(w)
  \/ Reject(w) \/ Finish(w) \/ PublishNext(w) \/ Acknowledge(w)

WorkerStep(w) ==
  \/ Reclaim(w) \/ NothingStalled(w)
  \/ Consume(w) \/ ConsumeTimesOut(w)
  \/ TaskStep(w)

(* The process dies, or an exception outside handle()'s try ends it, and   *)
(* it is restarted: what it held is forgotten, what it wrote stays.        *)
Die(w) ==
  /\ pc[w] # "poll"
  /\ Idle(w)
  /\ UNCHANGED <<rows, streamVars>>

=============================================================================
