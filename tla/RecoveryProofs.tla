--------------------------- MODULE RecoveryProofs ---------------------------
(***************************************************************************)
(* For every instance of Pipeline: no active investigation is ever without *)
(* a task that will carry it on, a dead-lettered task is one whose         *)
(* investigation has ended, as long as nothing overruns a task is in the   *)
(* hands of one worker, and as long as nothing fails it is published once. *)
(* On top of GroundingInv the argument follows each entry of a stream to   *)
(* its acknowledgement: whoever acknowledges has settled what the entry    *)
(* was for, so that an active investigation still has one outstanding.     *)
(***************************************************************************)
EXTENDS PipelineProofs

-----------------------------------------------------------------------------
(* What a step may do.                                                     *)

(* A worker changes only by a step of its own.                             *)
LEMMA OthersStandStill ==
  ASSUME TypeOK, [Next]_vars, NEW v \in Worker, ~Work(v), ~Crash(v)
  PROVE  pc'[v] = pc[v] /\ task'[v] = task[v] /\ batch'[v] = batch[v]
<1> DEFINE Still == pc'[v] = pc[v] /\ task'[v] = task[v] /\ batch'[v] = batch[v]
<1> SUFFICES Still
  OBVIOUS
<1>a. UNCHANGED workers => Still
  BY DEF workers
<1>b. ASSUME NEW w \in Worker \ {v}, NEW l, Goto(w, l)
      PROVE  Still
  BY <1>b DEF Goto, TypeOK, WorkersTypeOK
<1>c. ASSUME NEW w \in Worker \ {v}, NEW tasks, WorkOn(w, tasks)
      PROVE  Still
  BY <1>c DEF WorkOn, TypeOK, WorkersTypeOK
<1>d. ASSUME NEW w \in Worker \ {v}, Idle(w)
      PROVE  Still
  BY <1>d DEF Idle, TypeOK, WorkersTypeOK
<1>e. ASSUME NEW w \in Worker \ {v}, TakeNext(w)
      PROVE  Still
  BY <1>e, <1>c, <1>d DEF TakeNext
<1> HIDE DEF Still
<1>1. ASSUME NEW i \in Inv, Request(i) \/ StalledRowAges(i) \/ BusyRowAges(i)
      PROVE  Still
  BY <1>1, <1>a DEF Request, StalledRowAges, BusyRowAges
<1>2. ASSUME NEW w \in Worker \ {v}, Work(w)
      PROVE  Still
  <2>1. CASE Reclaim(w) \/ Consume(w)
    BY <2>1, <1>c DEF Reclaim, Consume
  <2>2. CASE HandleRaises(w) \/ Acknowledge(w)
    BY <2>2, <1>e DEF HandleRaises, Acknowledge
  <2>3. CASE \/ MarkExhausted(w) \/ DeadLetter(w) \/ CheckCancelled(w)
             \/ EnterStage(w) \/ RecordDns(w) \/ RecordHttp(w) \/ Summarise(w)
             \/ Conclude(w) \/ AnalysisFails(w) \/ LinkEntities(w)
             \/ PayloadMalformed(w) \/ Reject(w) \/ Finish(w) \/ PublishNext(w)
    BY <2>3, <1>b DEF MarkExhausted, DeadLetter, CheckCancelled, EnterStage,
       RecordDns, RecordHttp, Summarise, Conclude, AnalysisFails, LinkEntities,
       PayloadMalformed, Reject, Finish, PublishNext
  <2>4. CASE NothingStalled(w) \/ ConsumeTimesOut(w)
    BY <2>4, <1>b DEF NothingStalled, ConsumeTimesOut
  <2> QED
    BY <1>2, <2>1, <2>2, <2>3, <2>4 DEF Work, WorkerStep, TaskStep
<1>3. ASSUME NEW w \in Worker \ {v}, Crash(w)
      PROVE  Still
  BY <1>3, <1>d DEF Crash, Die
<1>4. CASE Sweep \/ AbortSweep
  BY <1>4, <1>a DEF Sweep, AbortSweep
<1>5. ASSUME NEW s \in Stage, NEW n,
             AbandonedEntryIdles(s, n) \/ HeldEntryIdles(s, n)
      PROVE  Still
  BY <1>5, <1>a DEF AbandonedEntryIdles, HeldEntryIdles
<1>6. CASE UNCHANGED vars
  BY <1>6, <1>a DEF vars
<1> QED
  BY <1>1, <1>2, <1>3, <1>4, <1>5, <1>6 DEF Next

(* The steps that touch a stream.                                          *)
StreamStep ==
  \/ \E i \in Inv : PublishFirst(i)
  \/ SweepPublish
  \/ \E w \in Worker :
       /\ Work(w)
       /\ \/ PublishNext(w) \/ DeadLetter(w) \/ Acknowledge(w)
          \/ Reclaim(w) \/ Consume(w)
  \/ \E s \in Stage, n \in Positions : AbandonedEntryIdles(s, n) \/ HeldEntryIdles(s, n)

LEMMA StreamSteps ==
  ASSUME [Next]_vars
  PROVE  StreamStep \/ UNCHANGED streamVars
<1>1. ASSUME NEW i \in Inv, Request(i) \/ StalledRowAges(i) \/ BusyRowAges(i)
      PROVE  StreamStep \/ UNCHANGED streamVars
  BY <1>1 DEF Request, StalledRowAges, BusyRowAges, Submit, PublishFails, Cancel, StreamStep
<1>2. ASSUME NEW w \in Worker, Work(w)
      PROVE  StreamStep \/ UNCHANGED streamVars
  <2>1. CASE \/ PublishNext(w) \/ DeadLetter(w) \/ Acknowledge(w)
             \/ Reclaim(w) \/ Consume(w)
    BY <1>2, <2>1 DEF StreamStep
  <2>2. CASE \/ MarkExhausted(w) \/ CheckCancelled(w) \/ EnterStage(w)
             \/ RecordDns(w) \/ RecordHttp(w) \/ Summarise(w)
             \/ Conclude(w) \/ AnalysisFails(w) \/ LinkEntities(w)
             \/ PayloadMalformed(w) \/ HandleRaises(w) \/ Reject(w) \/ Finish(w)
             \/ NothingStalled(w) \/ ConsumeTimesOut(w)
    BY <2>2 DEF MarkExhausted, CheckCancelled, EnterStage,
       RecordDns, RecordHttp, Summarise, Conclude, AnalysisFails, LinkEntities,
       PayloadMalformed, HandleRaises, Reject, Finish, NothingStalled, ConsumeTimesOut
  <2> QED
    BY <1>2, <2>1, <2>2 DEF Work, WorkerStep, TaskStep
<1>3. ASSUME NEW w \in Worker, Crash(w)
      PROVE  UNCHANGED streamVars
  BY <1>3 DEF Crash, Die
<1>4. CASE Sweep \/ AbortSweep
  BY <1>4 DEF Sweep, SweepStep, SweepFetch, SweepTouch, AbortSweep, SweepAborts, StreamStep
<1>5. ASSUME NEW s \in Stage, NEW n \in Positions,
             AbandonedEntryIdles(s, n) \/ HeldEntryIdles(s, n)
      PROVE  StreamStep
  BY <1>5 DEF StreamStep
<1>6. CASE UNCHANGED vars
  BY <1>6 DEF vars
<1> QED
  BY <1>1, <1>2, <1>3, <1>4, <1>5, <1>6 DEF Next

(* The investigations stream s ever held a task for.                       *)
Named(s) == {log[s][n] : n \in 1 .. Len(log[s])}

(* A task of i is published to stream s, by one of those who may.          *)
Published(s, i) ==
  /\ Xadd(s, i)
  /\ \/ s = "enrich" /\ PublishFirst(i)
     \/ \E w \in Worker : Work(w) /\ PublishNext(w) /\ s = NextStream(StageOf(w)) /\ i = task[w].inv
     \/ \E r \in touched : SweepPublish /\ s = RecoveryStream(r.status) /\ i = r.inv

LEMMA LogSteps ==
  ASSUME TypeOK, [Next]_vars
  PROVE  UNCHANGED log \/ \E s \in Stage, i \in Inv : Published(s, i)
<1> USE StageFacts DEF TypeOK
<1>1. ASSUME NEW i \in Inv, PublishFirst(i)
      PROVE  Published("enrich", i) /\ "enrich" \in Stage
  BY <1>1 DEF Published, PublishFirst, Stage
<1>2. ASSUME NEW w \in Worker, Work(w), PublishNext(w)
      PROVE  \E s \in Stage, i \in Inv : Published(s, i)
  <2>1. task[w].inv \in Inv /\ NextStream(StageOf(w)) \in Stage
    BY <1>2 DEF PublishNext, WorkersTypeOK, Task
  <2>2. Published(NextStream(StageOf(w)), task[w].inv)
    BY <1>2 DEF PublishNext, Published
  <2> QED
    BY <2>1, <2>2
<1>3. CASE SweepPublish
  <2>1. PICK r \in touched : Xadd(RecoveryStream(r.status), r.inv)
    BY <1>3 DEF SweepPublish
  <2>2. r.inv \in Inv /\ RecoveryStream(r.status) \in Stage
    BY <2>1 DEF SweeperTypeOK, SweepRow, RecoveryStream, Stage, Active
  <2>3. Published(RecoveryStream(r.status), r.inv)
    BY <1>3, <2>1 DEF Published
  <2> QED
    BY <2>2, <2>3
<1>4. ASSUME NEW w \in Worker, DeadLetter(w) \/ Acknowledge(w) \/ Reclaim(w) \/ Consume(w)
      PROVE  UNCHANGED log
  BY <1>4 DEF DeadLetter, Acknowledge, Reclaim, Consume, XaddDlq, Xack, Xclaim, XreadGroup
<1>5. ASSUME NEW s \in Stage, NEW n,
             AbandonedEntryIdles(s, n) \/ HeldEntryIdles(s, n)
      PROVE  UNCHANGED log
  BY <1>5 DEF AbandonedEntryIdles, HeldEntryIdles, PassThreshold
<1>6. UNCHANGED streamVars => UNCHANGED log
  BY DEF streamVars
<1> QED
  BY <1>1, <1>2, <1>3, <1>4, <1>5, <1>6, StreamSteps DEF StreamStep

(* Publishing appends: what was in a log stays where it is.                *)
LEMMA AppendKeeps ==
  ASSUME StreamTypeOK, NEW s \in Stage, NEW i \in Inv, Xadd(s, i), NEW u \in Stage
  PROVE  /\ Len(log'[u]) = IF u = s THEN Len(log[u]) + 1 ELSE Len(log[u])
         /\ \A n \in 1 .. Len(log[u]) : log'[u][n] = log[u][n]
         /\ u = s => log'[u][Len(log[u]) + 1] = i
<1>1. log[u] \in Seq(Inv) /\ Len(log[u]) \in Nat
  BY DEF StreamTypeOK
<1>2. log'[u] = IF u = s THEN Append(log[u], i) ELSE log[u]
  BY DEF StreamTypeOK, Xadd
<1> QED
  BY <1>1, <1>2

LEMMA LogsOnlyGrow ==
  ASSUME TypeOK, [Next]_vars, NEW u \in Stage
  PROVE  /\ Len(log[u]) \in Nat /\ Len(log'[u]) \in Nat /\ Len(log[u]) <= Len(log'[u])
         /\ \A n \in 1 .. Len(log[u]) : log'[u][n] = log[u][n]
         /\ Named(u) \subseteq Named(u)'
<1>1. Len(log[u]) \in Nat
  BY DEF TypeOK, StreamTypeOK
<1>2. CASE UNCHANGED log
  BY <1>1, <1>2 DEF Named
<1>3. ASSUME NEW s \in Stage, NEW i \in Inv, Published(s, i)
      PROVE  /\ Len(log'[u]) \in Nat /\ Len(log[u]) <= Len(log'[u])
             /\ \A n \in 1 .. Len(log[u]) : log'[u][n] = log[u][n]
  BY <1>1, <1>3, AppendKeeps DEF Published, TypeOK
<1> QED
  BY <1>1, <1>2, <1>3, LogSteps DEF Named

(* An entry stays outstanding until a worker that holds it acknowledges it.*)
LEMMA EntriesStay ==
  ASSUME TypeOK, [Next]_vars, NEW u \in Stage, NEW n \in Unacknowledged(u)
  PROVE  \/ n \in Unacknowledged(u)'
         \/ \E w \in Worker : /\ Work(w) /\ Acknowledge(w)
                              /\ StageOf(w) = u /\ task[w].id = n
<1> DEFINE Stays == n \in Unacknowledged(u)'
<1> USE StageFacts DEF TypeOK
<1>a. /\ log[u] \in Seq(Inv) /\ Len(log[u]) \in Nat /\ cursor[u] \in Nat
      /\ cursor[u] <= Len(log[u]) /\ DOMAIN pending[u] \subseteq 1 .. cursor[u]
      /\ DOMAIN pending = Stage
  BY DEF StreamTypeOK
<1>b. ASSUME Len(log[u]) <= Len(log'[u]), Len(log'[u]) \in Nat,
             cursor'[u] = cursor[u], DOMAIN pending[u] \subseteq DOMAIN pending'[u]
      PROVE  Stays
  BY <1>a, <1>b DEF Unacknowledged, Undelivered
<1>c. ASSUME NEW s \in Stage, NEW i \in Inv, Published(s, i)
      PROVE  Stays
  BY <1>a, <1>b, <1>c, LogsOnlyGrow DEF Published, Xadd
<1>d. UNCHANGED streamVars => Stays
  BY DEF streamVars, Unacknowledged, Undelivered
<1>1. ASSUME NEW i \in Inv, PublishFirst(i)
      PROVE  Stays
  BY <1>1, <1>b, <1>a, LogsOnlyGrow DEF PublishFirst, Xadd
<1>2. CASE SweepPublish
  BY <1>2, <1>b, <1>a, LogsOnlyGrow DEF SweepPublish, Xadd
<1>3. ASSUME NEW w \in Worker, Work(w),
             \/ PublishNext(w) \/ DeadLetter(w) \/ Acknowledge(w)
             \/ Reclaim(w) \/ Consume(w)
      PROVE  Stays \/ (Acknowledge(w) /\ StageOf(w) = u /\ task[w].id = n)
  <2>1. CASE PublishNext(w) \/ DeadLetter(w)
    BY <2>1, <1>a, <1>b, LogsOnlyGrow DEF PublishNext, DeadLetter, Xadd, XaddDlq
  <2>2. CASE Acknowledge(w)
    <3>1. DOMAIN pending'[u] = IF u = StageOf(w) THEN DOMAIN pending[u] \ {task[w].id}
                               ELSE DOMAIN pending[u]
      BY <2>2, <1>a DEF Acknowledge, Xack
    <3>2. UNCHANGED <<log, cursor>>
      BY <2>2 DEF Acknowledge, Xack
    <3> QED
      BY <2>2, <3>1, <3>2 DEF Unacknowledged, Undelivered
  <2>3. CASE Reclaim(w)
    <3>1. DOMAIN pending'[u] = DOMAIN pending[u]
      BY <2>3, <1>a DEF Reclaim, Xclaim
    <3> QED
      BY <2>3, <3>1 DEF Reclaim, Xclaim, Unacknowledged, Undelivered
  <2>4. CASE Consume(w)
    <3>1. CASE u = StageOf(w)
      <4>1. cursor'[u] = cursor[u] + 1
              /\ DOMAIN pending'[u] = DOMAIN pending[u] \cup {cursor[u] + 1}
        BY <2>4, <3>1, <1>a DEF Consume, XreadGroup, StreamTypeOK
      <4>2. UNCHANGED log
        BY <2>4 DEF Consume, XreadGroup
      <4> QED
        BY <4>1, <4>2, <1>a DEF Unacknowledged, Undelivered
    <3>2. CASE u # StageOf(w)
      <4>1. cursor'[u] = cursor[u] /\ pending'[u] = pending[u] /\ log' = log
        BY <2>4, <3>2, <1>a DEF Consume, XreadGroup, StreamTypeOK
      <4> QED
        BY <4>1 DEF Unacknowledged, Undelivered
    <3> QED
      BY <3>1, <3>2
  <2> QED
    BY <1>3, <2>1, <2>2, <2>3, <2>4
<1>4. ASSUME NEW s \in Stage, NEW m,
             AbandonedEntryIdles(s, m) \/ HeldEntryIdles(s, m)
      PROVE  Stays
  <2>1. DOMAIN pending'[u] = DOMAIN pending[u] /\ UNCHANGED <<log, cursor>>
    BY <1>4, <1>a DEF AbandonedEntryIdles, HeldEntryIdles, PassThreshold
  <2> QED
    BY <2>1 DEF Unacknowledged, Undelivered
<1> QED
  BY <1>1, <1>2, <1>3, <1>4, <1>d, StreamSteps DEF StreamStep

(* What a worker holds it held before, or takes from its stream.           *)
LEMMA HeldAreTaken ==
  ASSUME TypeOK, [Next]_vars, NEW v \in Worker, NEW t \in HeldTasks(v)'
  PROVE  \/ t \in HeldTasks(v)
         \/ Reclaim(v) /\ t \in Reclaimed(StageOf(v))
         \/ Consume(v) /\ t = [id |-> cursor[StageOf(v)] + 1,
                              inv |-> log[StageOf(v)][cursor[StageOf(v)] + 1],
                              attempt |-> 1]
<1> USE StageFacts DEF TypeOK
<1>a. ASSUME NEW tasks, WorkOn(v, tasks)
      PROVE  t \in tasks
  BY <1>a DEF WorkOn, HeldTasks, WorkersTypeOK
<1>b. Idle(v) => t \in HeldTasks(v)
  BY DEF Idle, HeldTasks, WorkersTypeOK
<1>1. CASE ~Work(v) /\ ~Crash(v)
  BY <1>1, OthersStandStill DEF HeldTasks
<1>2. CASE Crash(v)
  BY <1>2, <1>b DEF Crash, Die
<1>3. CASE Work(v)
  <2>1. CASE Reclaim(v) \/ Consume(v)
    BY <2>1, <1>a DEF Reclaim, Consume
  <2>2. CASE HandleRaises(v) \/ Acknowledge(v)
    BY <2>2, <1>a, <1>b DEF HandleRaises, Acknowledge, TakeNext, HeldTasks
  <2>3. CASE \/ NothingStalled(v) \/ ConsumeTimesOut(v) \/ MarkExhausted(v)
             \/ DeadLetter(v) \/ CheckCancelled(v) \/ EnterStage(v)
             \/ RecordDns(v) \/ RecordHttp(v) \/ Summarise(v) \/ Conclude(v)
             \/ AnalysisFails(v) \/ LinkEntities(v) \/ PayloadMalformed(v)
             \/ Reject(v) \/ Finish(v) \/ PublishNext(v)
    <3>1. task' = task /\ batch' = batch
      BY <2>3 DEF NothingStalled, ConsumeTimesOut, MarkExhausted, DeadLetter,
         CheckCancelled, EnterStage, RecordDns, RecordHttp, Summarise, Conclude,
         AnalysisFails, LinkEntities, PayloadMalformed, Reject, Finish, PublishNext, Goto
    <3> QED
      BY <3>1 DEF HeldTasks
  <2> QED
    BY <1>3, <2>1, <2>2, <2>3 DEF Work, WorkerStep, TaskStep
<1> QED
  BY <1>1, <1>2, <1>3

-----------------------------------------------------------------------------
(* The invariant.                                                          *)

(* Stream s still holds a task of i that nobody has acknowledged.          *)
Awaits(s, i) == \E n \in Unacknowledged(s) : log[s][n] = i

(* Stage s has nothing left to do for i: the investigation has ended, or   *)
(* has moved past the stage, or is where the stage leaves it and waits in  *)
(* the next stream.                                                        *)
Settled(s, i) ==
  \/ status[i] \in Terminal
  \/ /\ s # "correlate"
     /\ status[i] \in Reached(NextStream(s))
     /\ status[i] = Working(s) => Awaits(NextStream(s), i)

(* A worker holds what its stream says, under the entry's own identifier.  *)
HeldInLogs ==
  \A w \in Worker : \A t \in HeldTasks(w) :
    t.id \in 1 .. Len(log[StageOf(w)]) /\ log[StageOf(w)][t.id] = t.inv

(* An entry that was acknowledged has done its work.                       *)
DoneAreSettled ==
  \A s \in Stage : \A n \in 1 .. Len(log[s]) :
    n \notin Unacknowledged(s) => Settled(s, log[s][n])

(* So has one that is about to be; one about to be dead-lettered has       *)
(* failed its investigation; and correlation works in its own status.      *)
EndReady(w) ==
  LET i == task[w].inv
  IN  /\ pc[w] = "ack" => Settled(StageOf(w), i)
      /\ pc[w] = "dlq" => status[i] \in Terminal
      /\ pc[w] \in {"link", "finish"} => status[i] \in {"correlating"} \cup Terminal

EndsReady == \A w \in Worker : EndReady(w)

(* An active investigation was published to the stream the sweeper would   *)
(* use for it, or its first publish is still to come or was lost.          *)
HasTask(i) ==
  status[i] \in Active =>
    \/ i \in Named(RecoveryStream(status[i]))
    \/ status[i] = "pending" /\ api[i] \in {"inserted", "lost"}

RowsHaveTasks == \A i \in Inv : HasTask(i)

LettersAreFinal ==
  \A d \in dlq : d[2] \in 1 .. Len(log[d[1]]) /\ status[log[d[1]][d[2]]] \in Terminal

RecoveryInv ==
  /\ GroundingInv
  /\ HeldInLogs /\ DoneAreSettled /\ EndsReady
  /\ RowsHaveTasks /\ LettersAreFinal

-----------------------------------------------------------------------------
(* Each part is preserved.                                                 *)

LEMMA HeldStayInLogs ==
  ASSUME TypeOK, HeldInLogs, [Next]_vars
  PROVE  HeldInLogs'
<1> USE StageFacts
<1>1. ASSUME NEW v \in Worker, NEW t \in HeldTasks(v)'
      PROVE  t.id \in 1 .. Len(log[StageOf(v)]) /\ log[StageOf(v)][t.id] = t.inv
  <2>1. CASE t \in HeldTasks(v)
    BY <2>1 DEF HeldInLogs
  <2>2. CASE Reclaim(v) /\ t \in Reclaimed(StageOf(v))
    <3>1. DOMAIN pending[StageOf(v)] \subseteq 1 .. Len(log[StageOf(v)])
      BY DEF TypeOK, StreamTypeOK
    <3>2. PICK n \in Stalled(StageOf(v)) :
            t = [id |-> n, inv |-> log[StageOf(v)][n],
                 attempt |-> pending[StageOf(v)][n].count + 1]
      BY <2>2 DEF Reclaimed
    <3> QED
      BY <3>1, <3>2 DEF Stalled, IdleEntries
  <2>3. CASE /\ Consume(v)
             /\ t.id = cursor[StageOf(v)] + 1
             /\ t.inv = log[StageOf(v)][cursor[StageOf(v)] + 1]
    <3>1. cursor[StageOf(v)] + 1 \in 1 .. Len(log[StageOf(v)])
      BY <2>3, XreadGroupType DEF Consume, TypeOK
    <3> QED
      BY <2>3, <3>1
  <2> QED
    BY <2>1, <2>2, <2>3, HeldAreTaken
<1>2. ASSUME NEW v \in Worker, NEW t \in HeldTasks(v)'
      PROVE  t.id \in 1 .. Len(log'[StageOf(v)]) /\ log'[StageOf(v)][t.id] = t.inv
  BY <1>1, <1>2, LogsOnlyGrow
<1> QED
  BY <1>2 DEF HeldInLogs, StageOf

(* A terminal status is final, correlation leaves its status only to end,  *)
(* and a stage's working status is entered only from the one before it.    *)
LEMMA StatusesKeep ==
  ASSUME TypeOK, StepsReady, [Next]_vars, NEW i \in Inv
  PROVE  /\ status[i] \in Terminal => status'[i] \in Terminal
         /\ status[i] \in {"correlating"} \cup Terminal =>
              status'[i] \in {"correlating"} \cup Terminal
         /\ \A s \in Stage \ {"correlate"} :
              status[i] \in Reached(NextStream(s)) =>
                /\ status'[i] \in Reached(NextStream(s))
                /\ status'[i] = Working(s) => status[i] = Working(s)
<1>1. [Life!Next]_status /\ RowsTypeOK
  BY LegalStep DEF TypeOK
<1>2. CASE status'[i] = status[i]
  BY <1>2
<1>3. CASE status'[i] # status[i]
  <2>1. PICK j \in Inv : Life!Create(j) \/ Life!Move(j)
    BY <1>1, <1>3 DEF Life!Next
  <2>2. \/ status[i] = "absent" /\ status'[i] = "pending"
        \/ status[i] \in Active /\ IsValid(status[i], status'[i])
    BY <1>1, <1>3, <2>1 DEF RowsTypeOK, Life!Create, Life!Move, Life!IsValid, IsValid,
       Life!ValidTransitions, ValidTransitions, Life!Active, Active, Life!Status, Status,
       Life!Terminal, Terminal
  <2>3. CASE status[i] = "absent"
    BY <2>3 DEF Reached, Stage, NextStream, Status, Active, Terminal
  <2>4. CASE status[i] \in Active /\ IsValid(status[i], status'[i])
    BY <2>4 DEF Reached, Stage, NextStream, Working, Status, Active, Terminal, IsValid,
       ValidTransitions
  <2> QED
    BY <2>2, <2>3, <2>4
<1> QED
  BY <1>2, <1>3

(* What is settled stays settled: the entry a stage left in the next       *)
(* stream goes only when that stage has settled its own part.              *)
LEMMA SettledStays ==
  ASSUME RecoveryInv, [Next]_vars, NEW s \in Stage, NEW i \in Inv, Settled(s, i)
  PROVE  Settled(s, i)'
<1> USE StageFacts DEF RecoveryInv, GroundingInv
<1>1. CASE status[i] \in Terminal
  BY <1>1, StatusesKeep DEF Settled
<1>2. CASE /\ s # "correlate"
           /\ status[i] \in Reached(NextStream(s))
           /\ status[i] = Working(s) => Awaits(NextStream(s), i)
  <2> DEFINE u == NextStream(s)
  <2>1. status'[i] \in Reached(u) /\ (status'[i] = Working(s) => status[i] = Working(s))
    BY <1>2, StatusesKeep
  <2>2. ASSUME status'[i] = Working(s)
        PROVE  Awaits(u, i)'
    <3>1. status[i] = Working(s) /\ u \in Stage
      BY <2>1, <2>2 DEF NextStream, Stage
    <3>2. PICK n \in Unacknowledged(u) : log[u][n] = i
      BY <1>2, <3>1 DEF Awaits
    <3>3. n \in 1 .. Len(log[u])
      BY <3>1, <3>2 DEF TypeOK, StreamTypeOK, Unacknowledged, Undelivered
    <3>4. log'[u][n] = i
      BY <3>1, <3>2, <3>3, LogsOnlyGrow
    <3>5. ASSUME NEW w \in Worker, Acknowledge(w), StageOf(w) = u, task[w].id = n
          PROVE  FALSE
      <4>1. pc[w] = "ack" /\ task[w] \in HeldTasks(w)
        BY <3>5 DEF Acknowledge, HeldTasks, TypeOK, WorkersTypeOK
      <4>2. task[w].inv = i
        BY <3>2, <3>5, <4>1 DEF HeldInLogs
      <4>3. Settled(u, i)
        BY <3>5, <4>1, <4>2 DEF EndsReady, EndReady
      <4> QED
        BY <1>2, <3>1, <4>3
           DEF Settled, Working, NextStream, Reached, Stage, Status, Active, Terminal
    <3>6. n \in Unacknowledged(u)'
      BY <3>1, <3>2, <3>5, EntriesStay
    <3> QED
      BY <3>4, <3>6 DEF Awaits
  <2> QED
    BY <1>2, <2>1, <2>2 DEF Settled, Reached, NextStream, Working, Stage
<1> QED
  BY <1>1, <1>2 DEF Settled

LEMMA DoneStaySettled ==
  ASSUME RecoveryInv, [Next]_vars
  PROVE  DoneAreSettled'
<1> SUFFICES ASSUME NEW s \in Stage, NEW n \in 1 .. Len(log'[s]),
                    n \notin Unacknowledged(s)'
             PROVE  Settled(s, log[s][n])'
  BY DEF DoneAreSettled
<1> USE StageFacts DEF RecoveryInv, GroundingInv
<1>1. n \in 1 .. Len(log[s])
  <2>1. CASE UNCHANGED log
    BY <2>1
  <2>2. ASSUME NEW u \in Stage, NEW i \in Inv, Published(u, i), n \notin 1 .. Len(log[s])
        PROVE  FALSE
    <3>1. u = s /\ n = Len(log[s]) + 1 /\ cursor'[s] = cursor[s]
      BY <2>2, AppendKeeps DEF Published, Xadd, TypeOK, StreamTypeOK
    <3>2. cursor[s] \in Nat /\ cursor[s] < n
      BY <3>1 DEF TypeOK, StreamTypeOK
    <3> QED
      BY <3>1, <3>2 DEF Unacknowledged, Undelivered
  <2> QED
    BY <2>1, <2>2, LogSteps
<1>2. log'[s][n] = log[s][n] /\ log[s][n] \in Inv
  BY <1>1, LogsOnlyGrow DEF TypeOK, StreamTypeOK
<1>3. Settled(s, log[s][n])
  <2>1. CASE n \notin Unacknowledged(s)
    BY <1>1, <2>1 DEF DoneAreSettled
  <2>2. CASE n \in Unacknowledged(s)
    <3>1. PICK w \in Worker : Acknowledge(w) /\ StageOf(w) = s /\ task[w].id = n
      BY <2>2, EntriesStay
    <3>2. pc[w] = "ack" /\ task[w] \in HeldTasks(w)
      BY <3>1 DEF Acknowledge, HeldTasks, TypeOK, WorkersTypeOK
    <3> QED
      BY <3>1, <3>2 DEF HeldInLogs, EndsReady, EndReady
  <2> QED
    BY <2>1, <2>2
<1>4. ASSUME NEW i \in Inv, Settled(s, i)
      PROVE  Settled(s, i)'
  BY <1>4, SettledStays
<1> QED
  BY <1>2, <1>3, <1>4 DEF Settled, Awaits, Reached

LEMMA EndsStayReady ==
  ASSUME RecoveryInv, [Next]_vars
  PROVE  EndsReady'
<1> SUFFICES ASSUME NEW w \in Worker PROVE EndReady(w)'
  BY DEF EndsReady
<1> DEFINE s == StageOf(w)
           i == task[w].inv
<1> USE StageFacts DEF RecoveryInv, GroundingInv
<1>a. EndReady(w) /\ StepReady(w)
  BY DEF EndsReady, StepsReady
<1>b. pc[w] \notin {"poll", "read"} => i \in Inv /\ s \in Stage /\ ReadyFor(s, i)
  BY DEF TypeOK, WorkersTypeOK, Task, HeldReady, HeldTasks
<1>c. Reached(s) \subseteq Status
  BY DEF Reached, Stage
<1>d. pc'[w] \notin {"ack", "dlq", "link", "finish"} => EndReady(w)'
  BY DEF EndReady
<1>e. ASSUME task'[w].inv = i, s \in Stage,
             \/ pc'[w] = "ack" /\ Settled(s, i)'
             \/ pc'[w] \in {"ack", "dlq", "link", "finish"} /\ status'[i] \in Terminal
             \/ pc'[w] \in {"link", "finish"} /\ status'[i] = "correlating"
      PROVE  EndReady(w)'
  BY <1>e DEF EndReady, Settled, StageOf, Awaits, Reached
<1>f. ASSUME NEW l, Goto(w, l)
      PROVE  pc'[w] = l /\ task'[w] = task[w]
  BY <1>f DEF Goto, TypeOK, WorkersTypeOK
<1>g. ASSUME NEW from, NEW target, MoveTo(i, from, target), i \in Inv
      PROVE  status'[i] = IF status[i] \in from THEN target ELSE status[i]
  BY <1>g DEF MoveTo, TypeOK, RowsTypeOK
<1>h. ASSUME TakeNext(w) \/ Idle(w) \/ \E tasks : WorkOn(w, tasks)
      PROVE  pc'[w] \in {"poll", "begin"}
  BY <1>h DEF TakeNext, Idle, WorkOn, TypeOK, WorkersTypeOK
<1>i. Active \cup Terminal = Status /\ {"complete", "failed", "cancelled"} = Terminal
  BY DEF Status, Terminal
<1>1. CASE ~Work(w) /\ ~Crash(w)
  <2>1. pc'[w] = pc[w] /\ task'[w] = task[w]
    BY <1>1, OthersStandStill
  <2>2. CASE pc[w] = "ack"
    BY <2>1, <2>2, <1>a, <1>b, <1>e, SettledStays DEF EndReady
  <2>3. CASE pc[w] \in {"dlq", "link", "finish"}
    BY <2>1, <2>3, <1>a, <1>b, <1>e, StatusesKeep DEF EndReady
  <2> QED
    BY <2>1, <2>2, <2>3, <1>d
<1>2. CASE Crash(w)
  BY <1>2, <1>d, <1>h DEF Crash, Die
<1>3. CASE Work(w)
  <2>1. CASE MarkExhausted(w) \/ Reject(w)
    <3>1. /\ i \in Inv /\ s \in Stage /\ status[i] \in Active \cup Terminal
          /\ MoveTo(i, Active, "failed")
      BY <2>1, <1>b, <1>c, <1>i DEF MarkExhausted, Reject, MarkFailed, ReadyFor
    <3>2. status'[i] \in Terminal
      BY <3>1, <1>g, <1>i
    <3> QED
      BY <2>1, <3>1, <3>2, <1>e, <1>f DEF MarkExhausted, Reject
  <2>2. CASE DeadLetter(w)
    <3>1. status[i] \in Terminal
      BY <2>2, <1>a DEF DeadLetter, EndReady
    <3> QED
      BY <2>2, <3>1, <1>b, <1>e, <1>f DEF DeadLetter, rows
  <2>3. CASE CheckCancelled(w)
    BY <2>3, <1>b, <1>d, <1>e, <1>f, <1>i DEF CheckCancelled, rows
  <2>4. CASE EnterStage(w)
    <3>1. CASE status[i] \in Entry(s)
      <4>1. pc'[w] = FirstStep(s) /\ task'[w] = task[w] /\ status'[i] = Working(s)
        BY <2>4, <3>1, <1>b, <1>f, <1>g DEF EnterStage, AdvanceOrResume, Entry
      <4> QED
        BY <2>4, <4>1, <1>b, <1>d, <1>e DEF EnterStage, FirstStep, Working, Stage
    <3>2. CASE status[i] \notin Entry(s)
      <4>1. pc'[w] = "ack" /\ task'[w] = task[w] /\ status'[i] = status[i]
        BY <2>4, <3>2, <1>b, <1>f, <1>g DEF EnterStage, AdvanceOrResume, Entry
      <4>2. s \in Stage /\ status[i] \in Reached(s) \ Entry(s)
        BY <2>4, <3>2, <1>b DEF EnterStage, ReadyFor
      <4>3. \/ status[i] \in Terminal
            \/ /\ s # "correlate" /\ status[i] \in Reached(NextStream(s))
               /\ status[i] # Working(s)
        BY <4>2 DEF Reached, Entry, Expected, Working, NextStream, Stage, Status, Active,
           Terminal
      <4>4. Settled(s, i)'
        BY <4>1, <4>3 DEF Settled, Reached, Working, NextStream, Stage
      <4> QED
        BY <4>1, <4>2, <4>4, <1>e
    <3> QED
      BY <3>1, <3>2
  <2>5. CASE LinkEntities(w)
    <3>1. status[i] \in {"correlating"} \cup Terminal
      BY <2>5, <1>a DEF LinkEntities, EndReady
    <3> QED
      BY <2>5, <3>1, <1>b, <1>e, <1>f DEF LinkEntities, CreateRelationships
  <2>6. CASE Finish(w)
    <3>1. s = "correlate" /\ status[i] \in {"correlating"} \cup Terminal
      BY <2>6, <1>a DEF Finish, EndReady, StepReady
    <3> QED
      BY <2>6, <3>1, <1>b, <1>e, <1>f, <1>g, <1>i DEF Finish, Advance, Working
  <2>7. CASE PublishNext(w)
    <3> DEFINE u == NextStream(s)
    <3>1. i \in Inv /\ s \in Stage \ {"correlate"} /\ u \in Stage /\ ReadyFor(u, i)
      BY <2>7, <1>a, <1>b DEF PublishNext, StepReady, NextStream, Stage
    <3>2. Xadd(u, i) /\ pc'[w] = "ack" /\ task'[w] = task[w] /\ status' = status
      BY <2>7, <1>f DEF PublishNext, rows
    <3>3. Awaits(u, i)'
      <4>1. Len(log'[u]) = Len(log[u]) + 1 /\ log'[u][Len(log[u]) + 1] = i
        BY <3>1, <3>2, AppendKeeps DEF TypeOK
      <4>2. cursor'[u] = cursor[u] /\ cursor[u] \in Nat /\ cursor[u] <= Len(log[u])
              /\ Len(log[u]) \in Nat
        BY <3>1, <3>2 DEF Xadd, TypeOK, StreamTypeOK
      <4>3. Len(log[u]) + 1 \in Unacknowledged(u)'
        BY <4>1, <4>2 DEF Unacknowledged, Undelivered
      <4> QED
        BY <3>2, <4>1, <4>3 DEF Awaits, StageOf, NextStream
    <3>4. Settled(s, i)'
      BY <3>1, <3>2, <3>3 DEF Settled, ReadyFor, Reached, Stage, NextStream
    <3> QED
      BY <3>1, <3>2, <3>4, <1>e
  <2>8. CASE \/ RecordDns(w) \/ RecordHttp(w) \/ Summarise(w) \/ Conclude(w)
             \/ AnalysisFails(w) \/ PayloadMalformed(w) \/ NothingStalled(w)
             \/ ConsumeTimesOut(w)
    BY <2>8, <1>d, <1>f DEF RecordDns, RecordHttp, Summarise, Conclude, AnalysisFails,
       PayloadMalformed, NothingStalled, ConsumeTimesOut
  <2>9. CASE HandleRaises(w) \/ Acknowledge(w) \/ Reclaim(w) \/ Consume(w)
    BY <2>9, <1>d, <1>h DEF HandleRaises, Acknowledge, Reclaim, Consume
  <2> QED
    BY <1>3, <2>1, <2>2, <2>3, <2>4, <2>5, <2>6, <2>7, <2>8, <2>9
       DEF Work, WorkerStep, TaskStep
<1> QED
  BY <1>1, <1>2, <1>3

(* An investigation becomes active, or moves on, by its own submission or  *)
(* by a worker that starts its stage.                                      *)
LEMMA StatusSteps ==
  ASSUME RecoveryInv, [Next]_vars, NEW i \in Inv,
         status'[i] # status[i], status'[i] \in Active
  PROVE  \/ Submit(i) /\ status'[i] = "pending" /\ api'[i] = "inserted"
         \/ \E w \in Worker : /\ pc[w] = "enter" /\ task[w].inv = i
                              /\ status'[i] = Working(StageOf(w))
<1> USE StageFacts DEF RecoveryInv, GroundingInv, TypeOK
<1> Active \cap Terminal = {}
  BY DEF Active, Terminal
<1>a. UNCHANGED rows => UNCHANGED status
  BY DEF rows
<1>b. ASSUME NEW j, NEW from, NEW target, MoveTo(j, from, target)
      PROVE  i = j /\ status'[i] = target
  BY <1>b DEF MoveTo, RowsTypeOK
<1>1. ASSUME NEW j \in Inv, Request(j)
      PROVE  Submit(i) /\ status'[i] = "pending" /\ api'[i] = "inserted"
  <2>1. CASE Submit(j)
    <3>1. i = j /\ status'[i] = "pending"
      BY <2>1, <1>b DEF Submit, Insert
    <3> QED
      BY <2>1, <3>1 DEF Submit, ApiTypeOK
  <2>2. CASE Cancel(j)
    BY <2>2, <1>b DEF Cancel, MarkCancelled, Terminal
  <2> QED
    BY <1>1, <2>1, <2>2, <1>a DEF Request, PublishFirst, PublishFails
<1>2. ASSUME NEW w \in Worker, Work(w)
      PROVE  pc[w] = "enter" /\ task[w].inv = i /\ status'[i] = Working(StageOf(w))
  <2>1. CASE MarkExhausted(w) \/ Reject(w) \/ Finish(w)
    BY <2>1, <1>b DEF MarkExhausted, Reject, MarkFailed, Finish, Advance, Terminal
  <2>2. CASE EnterStage(w)
    BY <2>2, <1>b DEF EnterStage, AdvanceOrResume
  <2>3. CASE \/ RecordDns(w) \/ RecordHttp(w) \/ Summarise(w) \/ Conclude(w)
             \/ AnalysisFails(w) \/ LinkEntities(w)
    BY <2>3, <1>a DEF RecordDns, RecordHttp, Summarise, Conclude, AnalysisFails,
       LinkEntities, SaveObservation, SetEnrichmentStatus, PersistResult,
       CreateRelationships
  <2>4. CASE \/ DeadLetter(w) \/ CheckCancelled(w) \/ PayloadMalformed(w)
             \/ HandleRaises(w) \/ PublishNext(w) \/ Acknowledge(w)
             \/ Reclaim(w) \/ NothingStalled(w) \/ Consume(w) \/ ConsumeTimesOut(w)
    BY <2>4, <1>a DEF DeadLetter, CheckCancelled, PayloadMalformed, HandleRaises,
       PublishNext, Acknowledge, Reclaim, NothingStalled, Consume, ConsumeTimesOut
  <2> QED
    BY <1>2, <2>1, <2>2, <2>3, <2>4 DEF Work, WorkerStep, TaskStep
<1>3. ASSUME NEW j \in Inv, StalledRowAges(j) \/ BusyRowAges(j)
      PROVE  UNCHANGED status
  BY <1>3 DEF StalledRowAges, BusyRowAges, Age
<1>4. ASSUME NEW w \in Worker, Crash(w)
      PROVE  UNCHANGED status
  BY <1>4, <1>a DEF Crash, Die
<1>5. CASE Sweep \/ AbortSweep
  BY <1>5, <1>a DEF Sweep, SweepStep, SweepFetch, SweepTouch, SweepPublish, Touch,
     AbortSweep, SweepAborts
<1>6. ASSUME NEW s \in Stage, NEW n,
             AbandonedEntryIdles(s, n) \/ HeldEntryIdles(s, n)
      PROVE  UNCHANGED status
  BY <1>6, <1>a DEF AbandonedEntryIdles, HeldEntryIdles
<1>7. CASE UNCHANGED vars
  BY <1>7, <1>a DEF vars
<1> QED
  BY <1>1, <1>2, <1>3, <1>4, <1>5, <1>6, <1>7 DEF Next

(* How far a request got changes only by a step of its own.                *)
LEMMA RequestSteps ==
  ASSUME TypeOK, [Next]_vars, NEW i \in Inv
  PROVE  \/ api'[i] = api[i]
         \/ Submit(i) /\ api'[i] = "inserted"
         \/ PublishFirst(i) /\ api'[i] = "published"
         \/ PublishFails(i) /\ api'[i] = "lost"
<1>1. ASSUME NEW j \in Inv, Request(j)
      PROVE  \/ api'[i] = api[i]
             \/ Submit(i) /\ api'[i] = "inserted"
             \/ PublishFirst(i) /\ api'[i] = "published"
             \/ PublishFails(i) /\ api'[i] = "lost"
  BY <1>1 DEF Request, Submit, PublishFirst, PublishFails, Cancel, TypeOK, ApiTypeOK
<1>2. CASE ~\E j \in Inv : Request(j)
  BY <1>2 DEF Next, vars, StalledRowAges, BusyRowAges, Work, Crash, Sweep, AbortSweep,
     AbandonedEntryIdles, HeldEntryIdles
<1> QED
  BY <1>1, <1>2

LEMMA RowsStillHaveTasks ==
  ASSUME RecoveryInv, [Next]_vars
  PROVE  RowsHaveTasks'
<1> SUFFICES ASSUME NEW i \in Inv, NEW st \in Active, status'[i] = st
             PROVE  \/ i \in Named(RecoveryStream(st))'
                    \/ st = "pending" /\ api'[i] \in {"inserted", "lost"}
  BY DEF RowsHaveTasks, HasTask, Named, RecoveryStream
<1> USE StageFacts DEF RecoveryInv, GroundingInv
<1>a. RecoveryStream(st) \in Stage /\ RecoveryStream("pending") = "enrich"
  BY DEF RecoveryStream, Active, Stage
<1>1. CASE st = status[i]
  <2>1. CASE i \in Named(RecoveryStream(status[i]))
    BY <1>1, <2>1, <1>a, LogsOnlyGrow
  <2>2. CASE status[i] = "pending" /\ api[i] \in {"inserted", "lost"}
    <3>1. CASE PublishFirst(i)
      <4>1. Xadd("enrich", i)
        BY <3>1 DEF PublishFirst
      <4>2. Len(log'["enrich"]) = Len(log["enrich"]) + 1 /\ Len(log["enrich"]) \in Nat
              /\ log'["enrich"][Len(log["enrich"]) + 1] = i
        BY <4>1, AppendKeeps DEF TypeOK, StreamTypeOK, Stage
      <4> QED
        BY <1>1, <2>2, <1>a, <4>2 DEF Named
    <3>2. CASE ~PublishFirst(i)
      BY <1>1, <2>2, <3>2, RequestSteps
    <3> QED
      BY <3>1, <3>2
  <2> QED
    BY <1>1, <2>1, <2>2 DEF RowsHaveTasks, HasTask
<1>2. CASE st # status[i]
  <2>1. ASSUME NEW w \in Worker, pc[w] = "enter", task[w].inv = i,
               st = Working(StageOf(w))
        PROVE  i \in Named(RecoveryStream(st))'
    <3>1. task[w] \in HeldTasks(w) /\ StageOf(w) \in Stage
      BY <2>1 DEF HeldTasks, TypeOK, WorkersTypeOK
    <3>2. i \in Named(StageOf(w))
      BY <2>1, <3>1 DEF HeldInLogs, Named
    <3>3. RecoveryStream(st) = StageOf(w)
      BY <2>1, <3>1 DEF RecoveryStream, Working, Stage
    <3> QED
      BY <3>1, <3>2, <3>3, LogsOnlyGrow
  <2> QED
    BY <1>2, <2>1, StatusSteps
<1> QED
  BY <1>1, <1>2

LEMMA LettersStayFinal ==
  ASSUME RecoveryInv, [Next]_vars
  PROVE  LettersAreFinal'
<1> SUFFICES ASSUME NEW d \in dlq'
             PROVE  d[2] \in 1 .. Len(log'[d[1]]) /\ status'[log'[d[1]][d[2]]] \in Terminal
  BY DEF LettersAreFinal
<1> USE StageFacts DEF RecoveryInv, GroundingInv
<1>1. /\ d[1] \in Stage
      /\ d[2] \in 1 .. Len(log[d[1]])
      /\ status[log[d[1]][d[2]]] \in Terminal
  <2>1. CASE d \in dlq
    BY <2>1 DEF LettersAreFinal, TypeOK, StreamTypeOK
  <2>2. CASE d \notin dlq
    <3>1. PICK w \in Worker : DeadLetter(w)
      BY <2>2, StreamSteps DEF StreamStep, PublishFirst, SweepPublish, PublishNext,
         Acknowledge, Reclaim, Consume, Xadd, Xack, Xclaim, XreadGroup, streamVars,
         AbandonedEntryIdles, HeldEntryIdles, PassThreshold
    <3>2. d = <<StageOf(w), task[w].id>> /\ pc[w] = "dlq"
      BY <2>2, <3>1 DEF DeadLetter, XaddDlq
    <3>3. task[w] \in HeldTasks(w)
      BY <3>2 DEF HeldTasks, TypeOK, WorkersTypeOK
    <3> QED
      BY <3>2, <3>3 DEF HeldInLogs, EndsReady, EndReady
  <2> QED
    BY <2>1, <2>2
<1>2. log[d[1]][d[2]] \in Inv
  BY <1>1 DEF TypeOK, StreamTypeOK
<1> QED
  BY <1>1, <1>2, LogsOnlyGrow, StatusesKeep

-----------------------------------------------------------------------------
(* The theorems that hold whatever fails.                                  *)

LEMMA InitRecovery == Init => RecoveryInv
<1> SUFFICES ASSUME Init PROVE RecoveryInv
  OBVIOUS
<1>1. HeldInLogs /\ EndsReady
  BY DEF Init, WorkersInit, HeldInLogs, HeldTasks, EndsReady, EndReady
<1>2. DoneAreSettled /\ LettersAreFinal
  BY DEF Init, StreamInit, DoneAreSettled, LettersAreFinal
<1>3. RowsHaveTasks
  BY DEF Init, RowsInit, RowsHaveTasks, HasTask, Active
<1> QED
  BY <1>1, <1>2, <1>3, InitGrounding DEF RecoveryInv

LEMMA NextRecovery == RecoveryInv /\ [Next]_vars => RecoveryInv'
<1> SUFFICES ASSUME RecoveryInv, [Next]_vars PROVE RecoveryInv'
  OBVIOUS
<1>1. GroundingInv' /\ HeldInLogs'
  BY NextGrounding, HeldStayInLogs DEF RecoveryInv, GroundingInv
<1> QED
  BY <1>1, DoneStaySettled, EndsStayReady, RowsStillHaveTasks, LettersStayFinal
     DEF RecoveryInv

(* The invariant the others follow from: an acknowledged entry has settled *)
(* what it was for, whoever acknowledged it and after whatever crash.      *)
THEOREM RecoveryInvariant == Spec => []RecoveryInv
BY InitRecovery, NextRecovery, PTL DEF Spec

(* An active investigation has a task outstanding that will carry it on.   *)
LEMMA NothingStranded ==
  ASSUME RecoveryInv
  PROVE  NoStranding
<1> SUFFICES ASSUME NEW i \in Inv, status[i] \in Active
             PROVE  \/ \E s \in Carriers(status[i]) : Awaits(s, i)
                    \/ /\ api[i] \in {"inserted", "lost"}
                       /\ status[i] = "pending"
                       /\ \A s \in Stage : \A n \in 1 .. Len(log[s]) : log[s][n] # i
  BY DEF NoStranding, Awaits
<1> USE DEF RecoveryInv, GroundingInv
<1> DEFINE u == RecoveryStream(status[i])
<1>1. u \in Stage /\ u \in Carriers(status[i]) /\ status[i] \notin Terminal
  BY DEF RecoveryStream, Active, Stage, Carriers, Terminal
<1>2. CASE i \in Named(u)
  <2>1. PICK n \in 1 .. Len(log[u]) : log[u][n] = i
    BY <1>2 DEF Named
  <2>2. CASE n \in Unacknowledged(u)
    BY <1>1, <2>1, <2>2 DEF Awaits
  <2>3. CASE n \notin Unacknowledged(u)
    <3>1. Settled(u, i)
      BY <1>1, <2>1, <2>3 DEF DoneAreSettled
    <3>2. u # "correlate" /\ status[i] \in Reached(NextStream(u))
            /\ (status[i] = Working(u) => Awaits(NextStream(u), i))
      BY <1>1, <3>1 DEF Settled
    <3>3. status[i] = Working(u) /\ NextStream(u) \in Carriers(status[i])
      BY <3>2 DEF RecoveryStream, Active, Reached, NextStream, Working, Carriers, Status
    <3> QED
      BY <3>2, <3>3
  <2> QED
    BY <2>2, <2>3
<1>3. CASE i \notin Named(u)
  <2>1. status[i] = "pending" /\ api[i] \in {"inserted", "lost"} /\ u = "enrich"
    BY <1>3 DEF RowsHaveTasks, HasTask, RecoveryStream
  <2>2. ASSUME NEW s \in Stage, NEW n \in 1 .. Len(log[s]), log[s][n] = i
        PROVE  FALSE
    BY <1>3, <2>1, <2>2 DEF LogsReady, ReadyFor, Reached, Stage, Named
  <2> QED
    BY <2>1, <2>2
<1> QED
  BY <1>2, <1>3

(* No crash, no overlap of workers and no sweep strands an investigation.  *)
THEOREM NoWorkIsStranded == Spec => []NoStranding
<1>1. RecoveryInv => NoStranding
  BY NothingStranded
<1> QED
  BY <1>1, RecoveryInvariant, PTL

(* What an operator finds in the dead letters has ended for good.          *)
THEOREM DeadLettersAreFinal == Spec => []DeadLetterIsFinal
<1>1. RecoveryInv => DeadLetterIsFinal
  BY DEF RecoveryInv, LettersAreFinal, DeadLetterIsFinal
<1> QED
  BY <1>1, RecoveryInvariant, PTL

-----------------------------------------------------------------------------
(* One worker for each entry, as long as nothing overruns.                 *)

(* The entry behind a task that is held is pending, with the attempt the   *)
(* task carries as its delivery count, and not idle.                       *)
Backed(w, t) ==
  /\ t.id \in DOMAIN pending[StageOf(w)]
  /\ pending[StageOf(w)][t.id].count = t.attempt
  /\ ~pending[StageOf(w)][t.id].idle

(* Two tasks that are held under one identifier are one task of one worker.*)
OneHolder ==
  \A v, w \in Worker : \A t \in HeldTasks(v), u \in HeldTasks(w) :
    StageOf(v) = StageOf(w) /\ t.id = u.id => v = w /\ t = u

HeldExclusively ==
  overruns = 0 =>
    /\ \A w \in Worker : task[w] \notin batch[w]
    /\ \A w \in Worker : \A t \in HeldTasks(w) : Backed(w, t)
    /\ OneHolder

(* The three counters of what went wrong only grow.                        *)
LEMMA FaultsGrow ==
  ASSUME TypeOK, [Next]_vars
  PROVE  /\ overruns' = 0 => overruns = 0
         /\ earlySweeps' = 0 => earlySweeps = 0
         /\ crashes' = 0 => crashes = 0
         /\ \A s \in Stage, n \in Positions : HeldEntryIdles(s, n) => overruns' # 0
         /\ \A i \in Inv : BusyRowAges(i) => earlySweeps' # 0
         /\ \A w \in Worker : Crash(w) => crashes' # 0
         /\ AbortSweep => crashes' # 0
<1>1. overruns \in Nat /\ earlySweeps \in Nat /\ crashes \in Nat
  BY BoundsAreNatural DEF TypeOK
<1> QED
  BY <1>1 DEF Next, vars, faults, Request, StalledRowAges, BusyRowAges, Work, Crash,
     Sweep, AbortSweep, AbandonedEntryIdles, HeldEntryIdles

(* Two workers never take tasks in one step.                               *)
LEMMA OneTakes ==
  ASSUME TypeOK, NEW v \in Worker, NEW w \in Worker,
         Reclaim(v) \/ Consume(v), Reclaim(w) \/ Consume(w)
  PROVE  v = w
BY DEF Reclaim, Consume, WorkOn, TypeOK, WorkersTypeOK

(* A pending entry that is not idle is left alone, but for the one who     *)
(* acknowledges it and the clock.                                          *)
LEMMA EntryKept ==
  ASSUME TypeOK, [Next]_vars, NEW u \in Stage, NEW n \in DOMAIN pending[u],
         ~pending[u][n].idle, overruns' = 0
  PROVE  \/ n \in DOMAIN pending'[u] /\ pending'[u][n] = pending[u][n]
         \/ \E w \in Worker : /\ Work(w) /\ Acknowledge(w)
                              /\ StageOf(w) = u /\ task[w].id = n
         \/ ~Held(u, n)
<1> DEFINE Kept == n \in DOMAIN pending'[u] /\ pending'[u][n] = pending[u][n]
<1> USE StageFacts DEF TypeOK
<1>a. DOMAIN pending = Stage /\ DOMAIN pending[u] \subseteq 1 .. cursor[u]
        /\ cursor[u] \in Nat
  BY DEF StreamTypeOK
<1>b. UNCHANGED pending => Kept
  OBVIOUS
<1> HIDE DEF Kept
<1>1. ASSUME NEW i \in Inv, PublishFirst(i)
      PROVE  Kept
  BY <1>1, <1>b DEF PublishFirst, Xadd
<1>2. CASE SweepPublish
  BY <1>2, <1>b DEF SweepPublish, Xadd, Kept
<1>3. ASSUME NEW w \in Worker, Work(w),
             \/ PublishNext(w) \/ DeadLetter(w) \/ Acknowledge(w)
             \/ Reclaim(w) \/ Consume(w)
      PROVE  Kept \/ (Acknowledge(w) /\ StageOf(w) = u /\ task[w].id = n)
  <2>1. CASE PublishNext(w) \/ DeadLetter(w)
    BY <2>1, <1>b DEF PublishNext, DeadLetter, Xadd, XaddDlq
  <2>2. CASE Acknowledge(w)
    BY <2>2, <1>a DEF Acknowledge, Xack, Kept
  <2>3. CASE Reclaim(w)
    <3>1. n \notin Stalled(u)
      BY DEF Stalled, IdleEntries
    <3> QED
      BY <2>3, <3>1, <1>a DEF Reclaim, Xclaim, Kept
  <2>4. CASE Consume(w)
    <3>1. n # cursor[u] + 1
      BY <1>a
    <3> QED
      BY <2>4, <3>1, <1>a DEF Consume, XreadGroup, Kept
  <2> QED
    BY <1>3, <2>1, <2>2, <2>3, <2>4
<1>4. ASSUME NEW s \in Stage, NEW m \in Positions, AbandonedEntryIdles(s, m)
      PROVE  Kept \/ ~Held(u, n)
  <2>1. CASE s = u /\ m = n
    BY <1>4, <2>1 DEF AbandonedEntryIdles
  <2>2. CASE ~(s = u /\ m = n)
    BY <1>4, <2>2, <1>a DEF AbandonedEntryIdles, PassThreshold, Kept
  <2> QED
    BY <2>1, <2>2
<1>5. \A s \in Stage, m \in Positions : ~HeldEntryIdles(s, m)
  BY FaultsGrow
<1>6. UNCHANGED streamVars => Kept
  BY <1>b DEF streamVars
<1> QED
  BY <1>1, <1>2, <1>3, <1>4, <1>5, <1>6, StreamSteps DEF StreamStep, Kept

LEMMA HeldStayExclusive ==
  ASSUME RecoveryInv, HeldExclusively, [Next]_vars
  PROVE  HeldExclusively'
<1> SUFFICES ASSUME overruns' = 0
             PROVE  /\ \A w \in Worker : task'[w] \notin batch'[w]
                    /\ \A w \in Worker : \A t \in HeldTasks(w)' : Backed(w, t)'
                    /\ OneHolder'
  BY DEF HeldExclusively, Backed, StageOf
<1> USE StageFacts DEF RecoveryInv, GroundingInv
<1>a. /\ \A w \in Worker : task[w] \notin batch[w]
      /\ \A w \in Worker : \A t \in HeldTasks(w) : Backed(w, t)
      /\ OneHolder
  BY FaultsGrow DEF HeldExclusively
<1>b. ASSUME NEW w \in Worker
      PROVE  /\ DOMAIN pending = Stage /\ cursor[StageOf(w)] \in Nat
             /\ DOMAIN pending[StageOf(w)] \subseteq 1 .. cursor[StageOf(w)]
             /\ cursor[StageOf(w)] + 1 \notin DOMAIN pending[StageOf(w)]
  BY DEF TypeOK, StreamTypeOK
<1>1. ASSUME NEW w \in Worker
      PROVE  task'[w] \notin batch'[w]
  <2>a. (\E tasks : WorkOn(w, tasks)) => task'[w] \notin batch'[w]
    BY DEF WorkOn, TypeOK, WorkersTypeOK
  <2>b. Idle(w) => task'[w] \notin batch'[w]
    BY DEF Idle, TypeOK, WorkersTypeOK
  <2>c. UNCHANGED <<task, batch>> => task'[w] \notin batch'[w]
    BY <1>a
  <2>1. CASE ~Work(w) /\ ~Crash(w)
    BY <2>1, <1>a, OthersStandStill
  <2>2. CASE Crash(w)
    BY <2>2, <2>b DEF Crash, Die
  <2>3. CASE Work(w)
    <3>1. CASE Reclaim(w) \/ Consume(w)
      BY <3>1, <2>a DEF Reclaim, Consume
    <3>2. CASE HandleRaises(w) \/ Acknowledge(w)
      BY <3>2, <2>a, <2>b DEF HandleRaises, Acknowledge, TakeNext
    <3>3. CASE \/ NothingStalled(w) \/ ConsumeTimesOut(w) \/ MarkExhausted(w)
               \/ DeadLetter(w) \/ CheckCancelled(w) \/ EnterStage(w)
               \/ RecordDns(w) \/ RecordHttp(w) \/ Summarise(w) \/ Conclude(w)
               \/ AnalysisFails(w) \/ LinkEntities(w) \/ PayloadMalformed(w)
               \/ Reject(w) \/ Finish(w) \/ PublishNext(w)
      BY <3>3, <2>c DEF NothingStalled, ConsumeTimesOut, MarkExhausted, DeadLetter,
         CheckCancelled, EnterStage, RecordDns, RecordHttp, Summarise, Conclude,
         AnalysisFails, LinkEntities, PayloadMalformed, Reject, Finish, PublishNext, Goto
    <3> QED
      BY <2>3, <3>1, <3>2, <3>3 DEF Work, WorkerStep, TaskStep
  <2> QED
    BY <2>1, <2>2, <2>3
<1>2. ASSUME NEW w \in Worker, NEW t \in HeldTasks(w)'
      PROVE  Backed(w, t)'
  <2> DEFINE s == StageOf(w)
  <2> SUFFICES /\ t.id \in DOMAIN pending'[s]
               /\ pending'[s][t.id].count = t.attempt
               /\ ~pending'[s][t.id].idle
    BY DEF Backed, StageOf
  <2>1. CASE t \in HeldTasks(w)
    <3>1. t.id \in DOMAIN pending[s] /\ pending[s][t.id].count = t.attempt
            /\ ~pending[s][t.id].idle
      BY <2>1, <1>a DEF Backed
    <3>2. Held(s, t.id)
      BY <2>1 DEF Held, Holds
    <3>3. ASSUME NEW v \in Worker, Acknowledge(v), StageOf(v) = s, task[v].id = t.id
          PROVE  FALSE
      <4>1. task[v] \in HeldTasks(v)
        BY <3>3 DEF Acknowledge, HeldTasks, TypeOK, WorkersTypeOK
      <4>2. v = w /\ t = task[w]
        BY <2>1, <3>3, <4>1, <1>a DEF OneHolder
      <4>3. HeldTasks(w)' \subseteq batch[w]
        BY <3>3, <4>2 DEF Acknowledge, TakeNext, WorkOn, Idle, HeldTasks, TypeOK,
           WorkersTypeOK
      <4> QED
        BY <4>2, <4>3, <1>a
    <3> QED
      BY <3>1, <3>2, <3>3, EntryKept
  <2>2. CASE Reclaim(w) /\ t \in Reclaimed(s)
    <3>1. PICK n \in Stalled(s) :
            t = [id |-> n, inv |-> log[s][n], attempt |-> pending[s][n].count + 1]
      BY <2>2 DEF Reclaimed
    <3>2. n \in DOMAIN pending[s]
      BY DEF Stalled, IdleEntries
    <3>3. n \in DOMAIN pending'[s]
            /\ pending'[s][n] = [count |-> pending[s][n].count + 1, idle |-> FALSE]
      BY <2>2, <3>2, <1>b DEF Reclaim, Xclaim
    <3> QED
      BY <3>1, <3>3
  <2>3. CASE Consume(w) /\ t.id = cursor[s] + 1 /\ t.attempt = 1
    BY <2>3, <1>b DEF Consume, XreadGroup
  <2> QED
    BY <2>1, <2>2, <2>3, HeldAreTaken
<1>3. ASSUME NEW v \in Worker, NEW w \in Worker,
             NEW t \in HeldTasks(v)', NEW u \in HeldTasks(w)',
             StageOf(v) = StageOf(w), t.id = u.id
      PROVE  v = w /\ t = u
  <2> DEFINE s == StageOf(v)
             Fresh == [id |-> cursor[s] + 1, inv |-> log[s][cursor[s] + 1], attempt |-> 1]
  <2>1. ASSUME NEW x \in Worker, StageOf(x) = s, NEW y \in HeldTasks(x)
        PROVE  y.id \in DOMAIN pending[s] \ IdleEntries(s)
    BY <2>1, <1>a DEF Backed, IdleEntries
  <2>2. ASSUME NEW y \in Reclaimed(s)
        PROVE  y.id \in IdleEntries(s)
    <3>1. PICK n \in Stalled(s) :
            y = [id |-> n, inv |-> log[s][n], attempt |-> pending[s][n].count + 1]
      BY DEF Reclaimed
    <3> QED
      BY <3>1 DEF Stalled
  <2>3. IdleEntries(s) \subseteq DOMAIN pending[s] /\ cursor[s] + 1 \notin DOMAIN pending[s]
    BY <1>b DEF IdleEntries
  <2>4. CASE t \in HeldTasks(v)
    <3>1. u \in HeldTasks(w)
      BY <2>1, <2>2, <2>3, <2>4, <1>3, HeldAreTaken
    <3> QED
      BY <2>4, <3>1, <1>3, <1>a DEF OneHolder
  <2>5. CASE Reclaim(v) /\ t \in Reclaimed(s)
    <3>1. Reclaim(w) /\ u \in Reclaimed(s)
      BY <2>1, <2>2, <2>3, <2>5, <1>3, HeldAreTaken
    <3> QED
      BY <2>5, <3>1, <1>3, OneTakes DEF Reclaimed
  <2>6. CASE Consume(v) /\ t = Fresh
    <3>1. t.id = cursor[s] + 1
      BY <2>6
    <3>2. Consume(w) /\ u = Fresh
      BY <2>1, <2>2, <2>3, <3>1, <1>3, HeldAreTaken
    <3> QED
      BY <2>6, <3>2, OneTakes
  <2> QED
    BY <2>4, <2>5, <2>6, HeldAreTaken
<1>4. OneHolder'
  BY <1>3 DEF OneHolder, StageOf
<1> QED
  BY <1>1, <1>2, <1>4

LEMMA InitHeld == Init => HeldExclusively
BY DEF Init, WorkersInit, HeldExclusively, OneHolder, HeldTasks

(* Redis hands an entry to one worker at a time and counts what that       *)
(* worker acts on, unless a task outlives the reclaim threshold.           *)
THEOREM ClaimsStayExclusive == Spec => []ClaimsAreExclusive
<1>1. RecoveryInv /\ HeldExclusively => ClaimsAreExclusive
  <2> SUFFICES ASSUME HeldExclusively, overruns = 0,
                      NEW w \in Worker, NEW t \in HeldTasks(w)
               PROVE  /\ Backed(w, t)
                      /\ \A v \in Worker \ {w} : ~Holds(v, StageOf(w), t.id)
    BY DEF ClaimsAreExclusive, Backed
  <2> QED
    BY DEF HeldExclusively, OneHolder, Holds
<1>2. RecoveryInv /\ HeldExclusively /\ [Next]_vars => HeldExclusively'
  BY HeldStayExclusive
<1> QED
  BY <1>1, <1>2, InitHeld, RecoveryInvariant, PTL DEF Spec

-----------------------------------------------------------------------------
(* One publish for each task, as long as nothing fails.                    *)

Untroubled == crashes = 0 /\ overruns = 0 /\ earlySweeps = 0

(* The first publish of i was lost, and no sweep has made up for it yet.   *)
Unqueued(i) == api[i] = "lost" /\ i \notin Named("enrich")

(* A stream names only what the stream before it named, and an entry whose *)
(* investigation is handed over already is acknowledged, or about to be.   *)
HandedOver ==
  \A s \in Stage \ {"correlate"} :
    /\ Named(NextStream(s)) \subseteq Named(s)
    /\ \A n \in 1 .. Len(log[s]) : log[s][n] \in Named(NextStream(s)) =>
         \/ n \notin Unacknowledged(s)
         \/ \E w \in Worker : StageOf(w) = s /\ pc[w] = "ack" /\ task[w].id = n

QueuedOnce ==
  \A s \in Stage : \A m, n \in 1 .. Len(log[s]) : log[s][m] = log[s][n] => m = n

(* The sweeper deals with investigations without a task, each of them once.*)
SweptOnce ==
  /\ \A i \in Inv : stale[i] => Unqueued(i)
  /\ \A r \in backlog \cup touched : r.status = "pending" /\ Unqueued(r.inv)
  /\ touched \cap backlog = {}
  /\ \A r \in touched : touched = {r} /\ ~stale[r.inv]
  /\ \A i \in Inv : api[i] \in {"none", "inserted"} => i \notin Named("enrich")

OnceInv == Untroubled => HandedOver /\ QueuedOnce /\ SweptOnce

(* What is published in such a run was not in the stream before, and its   *)
(* publisher is the one entitled to it.                                    *)
LEMMA PublishedIsNew ==
  ASSUME RecoveryInv, HeldExclusively, Untroubled, HandedOver, QueuedOnce, SweptOnce,
         [Next]_vars, NEW s \in Stage, NEW i \in Inv, Published(s, i)
  PROVE  /\ i \notin Named(s)
         /\ \/ s = "enrich"
            \/ \E w \in Worker : /\ s = NextStream(StageOf(w)) /\ pc'[w] = "ack"
                                 /\ StageOf(w) # "correlate"
                                 /\ task'[w] = task[w] /\ task[w].inv = i
                                 /\ task[w] \in HeldTasks(w)
<1> USE StageFacts DEF RecoveryInv, GroundingInv
<1>1. CASE PublishFirst(i) /\ s = "enrich"
  BY <1>1 DEF PublishFirst, SweptOnce
<1>2. ASSUME NEW w \in Worker, PublishNext(w), s = NextStream(StageOf(w)), i = task[w].inv
      PROVE  /\ i \notin Named(s)
             /\ pc'[w] = "ack" /\ StageOf(w) # "correlate"
             /\ task'[w] = task[w] /\ task[w] \in HeldTasks(w)
  <2> DEFINE u == StageOf(w)
             n == task[w].id
  <2>1. task[w] \in HeldTasks(w) /\ u \in Stage \ {"correlate"} /\ pc[w] = "publish"
    BY <1>2 DEF PublishNext, HeldTasks, TypeOK, WorkersTypeOK, StepsReady, StepReady
  <2>2. n \in 1 .. Len(log[u]) /\ log[u][n] = i
    BY <1>2, <2>1 DEF HeldInLogs
  <2>3. n \in Unacknowledged(u)
    BY <2>1 DEF HeldExclusively, Untroubled, Backed, Unacknowledged
  <2>4. ASSUME NEW v \in Worker, StageOf(v) = u, pc[v] = "ack", task[v].id = n
        PROVE  FALSE
    <3>1. task[v] \in HeldTasks(v)
      BY <2>4 DEF HeldTasks, TypeOK, WorkersTypeOK
    <3> QED
      BY <2>1, <2>4, <3>1 DEF HeldExclusively, Untroubled, OneHolder
  <2>5. i \notin Named(NextStream(u))
    BY <2>1, <2>2, <2>3, <2>4 DEF HandedOver
  <2> QED
    BY <1>2, <2>1, <2>5 DEF PublishNext, Goto, TypeOK, WorkersTypeOK
<1>3. ASSUME NEW r \in touched, s = RecoveryStream(r.status), i = r.inv
      PROVE  s = "enrich" /\ i \notin Named(s)
  BY <1>3 DEF SweptOnce, Unqueued, RecoveryStream
<1> QED
  BY <1>1, <1>2, <1>3 DEF Published

(* An entry that was acknowledged does not come back.                      *)
LEMMA EntriesGo ==
  ASSUME TypeOK, [Next]_vars, NEW u \in Stage, NEW n \in 1 .. Len(log[u]),
         n \notin Unacknowledged(u)
  PROVE  n \notin Unacknowledged(u)'
<1> DEFINE Gone == n \notin Unacknowledged(u)'
<1> USE StageFacts DEF TypeOK
<1>a. /\ log[u] \in Seq(Inv) /\ Len(log[u]) \in Nat /\ cursor[u] \in Nat
      /\ cursor[u] <= Len(log[u]) /\ DOMAIN pending[u] \subseteq 1 .. cursor[u]
      /\ DOMAIN pending = Stage /\ n \in 1 .. cursor[u] /\ n \notin DOMAIN pending[u]
  BY DEF StreamTypeOK, Unacknowledged, Undelivered
<1>b. ASSUME cursor'[u] \in Nat, cursor[u] <= cursor'[u], n \notin DOMAIN pending'[u]
      PROVE  Gone
  BY <1>a, <1>b DEF Unacknowledged, Undelivered
<1> HIDE DEF Gone
<1>1. ASSUME UNCHANGED <<cursor, pending>>
      PROVE  Gone
  BY <1>1, <1>a, <1>b
<1>2. ASSUME NEW w \in Worker,
             \/ PublishNext(w) \/ DeadLetter(w) \/ Acknowledge(w)
             \/ Reclaim(w) \/ Consume(w)
      PROVE  Gone
  <2>1. CASE PublishNext(w) \/ DeadLetter(w)
    BY <2>1, <1>1 DEF PublishNext, DeadLetter, Xadd, XaddDlq
  <2>2. CASE Acknowledge(w)
    BY <2>2, <1>a, <1>b DEF Acknowledge, Xack
  <2>3. CASE Reclaim(w)
    BY <2>3, <1>a, <1>b DEF Reclaim, Xclaim
  <2>4. CASE Consume(w)
    <3>1. n # cursor[u] + 1
      BY <1>a
    <3>2. cursor'[u] \in {cursor[u], cursor[u] + 1}
      BY <2>4 DEF Consume, XreadGroup, StreamTypeOK
    <3>3. n \notin DOMAIN pending'[u]
      BY <2>4, <3>1, <1>a DEF Consume, XreadGroup
    <3> QED
      BY <3>2, <3>3, <1>a, <1>b
  <2> QED
    BY <1>2, <2>1, <2>2, <2>3, <2>4
<1>3. ASSUME NEW s \in Stage, NEW m,
             AbandonedEntryIdles(s, m) \/ HeldEntryIdles(s, m)
      PROVE  Gone
  BY <1>3, <1>a, <1>b DEF AbandonedEntryIdles, HeldEntryIdles, PassThreshold
<1>4. CASE UNCHANGED streamVars
  BY <1>4, <1>1 DEF streamVars, Gone
<1>5. CASE SweepPublish \/ \E i \in Inv : PublishFirst(i)
  BY <1>5, <1>1 DEF SweepPublish, PublishFirst, Xadd, Gone
<1> QED
  BY <1>2, <1>3, <1>4, <1>5, StreamSteps DEF StreamStep, Gone

LEMMA QueuedStayOnce ==
  ASSUME RecoveryInv, HeldExclusively, Untroubled, HandedOver, QueuedOnce, SweptOnce,
         [Next]_vars
  PROVE  QueuedOnce'
<1> USE DEF RecoveryInv, GroundingInv
<1>1. CASE UNCHANGED log
  BY <1>1 DEF QueuedOnce
<1>2. ASSUME NEW s \in Stage, NEW i \in Inv, Published(s, i)
      PROVE  QueuedOnce'
  <2> SUFFICES ASSUME NEW u \in Stage, NEW m \in 1 .. Len(log'[u]),
                      NEW n \in 1 .. Len(log'[u]), log'[u][m] = log'[u][n]
               PROVE  m = n
    BY DEF QueuedOnce
  <2>1. /\ Len(log[u]) \in Nat
        /\ Len(log'[u]) = IF u = s THEN Len(log[u]) + 1 ELSE Len(log[u])
        /\ \A k \in 1 .. Len(log[u]) : log'[u][k] = log[u][k]
        /\ u = s => log'[u][Len(log[u]) + 1] = i
    BY <1>2, AppendKeeps DEF Published, TypeOK, StreamTypeOK
  <2>2. i \notin Named(s)
    BY <1>2, PublishedIsNew
  <2>3. CASE m \in 1 .. Len(log[u]) /\ n \in 1 .. Len(log[u])
    BY <2>1, <2>3 DEF QueuedOnce
  <2>4. CASE ~(m \in 1 .. Len(log[u]) /\ n \in 1 .. Len(log[u]))
    <3>1. u = s
      BY <2>1, <2>4
    <3>2. \A k \in 1 .. Len(log[u]) : log'[u][k] # i
      BY <2>1, <2>2, <3>1 DEF Named
    <3>3. \A k \in 1 .. Len(log'[u]) : k \in 1 .. Len(log[u]) \/ k = Len(log[u]) + 1
      BY <2>1, <3>1
    <3> QED
      BY <2>1, <2>4, <3>1, <3>2, <3>3
  <2> QED
    BY <2>3, <2>4
<1> QED
  BY <1>1, <1>2, LogSteps

LEMMA TasksStayHandedOver ==
  ASSUME RecoveryInv, HeldExclusively, Untroubled, Untroubled', HandedOver, QueuedOnce,
         SweptOnce, [Next]_vars
  PROVE  HandedOver'
<1> SUFFICES ASSUME NEW s \in Stage \ {"correlate"}
             PROVE  /\ Named(NextStream(s))' \subseteq Named(s)'
                    /\ \A n \in 1 .. Len(log'[s]) : log'[s][n] \in Named(NextStream(s))' =>
                         \/ n \notin Unacknowledged(s)'
                         \/ \E w \in Worker : /\ StageOf(w) = s /\ pc'[w] = "ack"
                                              /\ task'[w].id = n
  BY DEF HandedOver, Named, NextStream, StageOf
<1> DEFINE u == NextStream(s)
           Over(n) == \/ n \notin Unacknowledged(s)'
                      \/ \E w \in Worker : /\ StageOf(w) = s /\ pc'[w] = "ack"
                                           /\ task'[w].id = n
<1> USE StageFacts DEF RecoveryInv, GroundingInv
<1>a. u \in Stage /\ u # s /\ u # "enrich"
  BY DEF NextStream, Stage
<1>b. Named(u) \subseteq Named(s) /\ Named(s) \subseteq Named(s)'
  BY LogsOnlyGrow DEF HandedOver
<1>c. ASSUME NEW n \in 1 .. Len(log[s]), log[s][n] \in Named(u)
      PROVE  Over(n)
  <2>1. CASE n \notin Unacknowledged(s)
    BY <2>1, EntriesGo
  <2>2. ASSUME NEW w \in Worker, StageOf(w) = s, pc[w] = "ack", task[w].id = n
        PROVE  Over(n)
    <3>1. ~Crash(w)
      BY FaultsGrow DEF Untroubled
    <3>2. CASE ~Work(w)
      BY <2>2, <3>1, <3>2, OthersStandStill
    <3>3. CASE Work(w)
      <4>1. Acknowledge(w)
        BY <2>2, <3>3 DEF Work, WorkerStep, TaskStep, Reclaim, NothingStalled, Consume,
           ConsumeTimesOut, MarkExhausted, DeadLetter, CheckCancelled, EnterStage,
           RecordDns, RecordHttp, Summarise, Conclude, AnalysisFails, LinkEntities,
           PayloadMalformed, HandleRaises, HandleSteps, Reject, Finish, PublishNext
      <4>2. n \notin DOMAIN pending'[s] /\ log' = log /\ cursor' = cursor
        BY <2>2, <4>1 DEF Acknowledge, Xack, TypeOK, StreamTypeOK
      <4>3. task[w] \in HeldTasks(w)
        BY <2>2 DEF HeldTasks, TypeOK, WorkersTypeOK
      <4>4. n \in 1 .. cursor[s] /\ cursor[s] \in Nat
        BY <2>2, <4>3 DEF HeldExclusively, Untroubled, Backed, TypeOK, StreamTypeOK
      <4> QED
        BY <4>2, <4>4 DEF Unacknowledged, Undelivered
    <3> QED
      BY <3>2, <3>3
  <2> QED
    BY <1>c, <2>1, <2>2 DEF HandedOver
<1> HIDE DEF Over
<1>1. CASE UNCHANGED log
  <2>1. Named(u)' = Named(u) /\ Named(s)' = Named(s)
    BY <1>1 DEF Named, NextStream
  <2> QED
    BY <1>1, <1>b, <1>c, <2>1 DEF Over
<1>2. ASSUME NEW v \in Stage, NEW i \in Inv, Published(v, i)
      PROVE  /\ Named(u)' \subseteq Named(s)'
             /\ \A n \in 1 .. Len(log'[s]) : log'[s][n] \in Named(u)' => Over(n)
  <2>a. ASSUME NEW k \in Stage
        PROVE  /\ Len(log[k]) \in Nat
               /\ Len(log'[k]) = IF k = v THEN Len(log[k]) + 1 ELSE Len(log[k])
               /\ \A n \in 1 .. Len(log[k]) : log'[k][n] = log[k][n]
               /\ k = v => log'[k][Len(log[k]) + 1] = i
    <3>1. StreamTypeOK /\ Xadd(v, i)
      BY <1>2 DEF Published, TypeOK
    <3>2. Len(log[k]) \in Nat
      BY <3>1 DEF StreamTypeOK
    <3> HIDE DEF RecoveryInv, GroundingInv, Over
    <3> QED
      BY ONLY <3>1, <3>2, AppendKeeps
  <2>b. i \notin Named(v)
    BY <1>2, PublishedIsNew
  <2>1. CASE v = u
    <3>1. PICK w \in Worker : /\ u = NextStream(StageOf(w)) /\ pc'[w] = "ack"
                              /\ StageOf(w) # "correlate"
                              /\ task'[w] = task[w] /\ task[w].inv = i
                              /\ task[w] \in HeldTasks(w)
      BY <1>2, <1>a, <2>1, PublishedIsNew
    <3>2. StageOf(w) = s /\ task[w].id \in 1 .. Len(log[s]) /\ log[s][task[w].id] = i
      BY <3>1 DEF HeldInLogs, NextStream, Stage
    <3>3. log'[s] = log[s]
      BY <1>2, <1>a, <2>1 DEF Published, Xadd, TypeOK, StreamTypeOK
    <3>4. Named(u)' \subseteq Named(u) \cup {i} /\ i \in Named(s)
      BY <1>a, <2>a, <2>1, <3>2 DEF Named, NextStream
    <3>5. ASSUME NEW n \in 1 .. Len(log[s]), log[s][n] = i
          PROVE  Over(n)
      BY <3>1, <3>2, <3>5 DEF QueuedOnce, Over
    <3> QED
      BY <1>b, <1>c, <3>3, <3>4, <3>5
  <2>2. CASE v # u
    <3>1. Named(u)' = Named(u)
      BY <1>2, <1>a, <2>2 DEF Published, Xadd, TypeOK, StreamTypeOK, Named, NextStream
    <3>2. ASSUME NEW n \in 1 .. Len(log'[s]), log'[s][n] \in Named(u)
          PROVE  n \in 1 .. Len(log[s]) /\ log'[s][n] = log[s][n]
      <4>1. n \in 1 .. Len(log[s]) \/ (v = s /\ n = Len(log[s]) + 1)
        BY <2>a
      <4>2. v = s /\ n = Len(log[s]) + 1 => log'[s][n] \notin Named(s)
        BY <2>a, <2>b
      <4> QED
        BY <1>b, <2>a, <3>2, <4>1, <4>2
    <3> QED
      BY <1>b, <1>c, <3>1, <3>2
  <2> QED
    BY <2>1, <2>2
<1> QED
  BY <1>1, <1>2, LogSteps DEF Over

(* In such a run an active row nobody will act for is one whose first      *)
(* publish was lost.                                                       *)
LEMMA StalledIsUnqueued ==
  ASSUME RecoveryInv, HandedOver, NEW i \in Inv, status[i] \in Active
  PROVE  /\ Unqueued(i) => status[i] = "pending"
         /\ StalledRowAges(i) => Unqueued(i)
<1> USE DEF RecoveryInv, GroundingInv
<1>1. \A s \in Stage : Named(s) \subseteq Named("enrich")
  <2>1. Named("analyze") \subseteq Named("enrich")
          /\ Named("correlate") \subseteq Named("analyze")
    BY DEF HandedOver, NextStream, Stage
  <2> QED
    BY <2>1 DEF Stage
<1>2. RecoveryStream(status[i]) \in Stage
  BY DEF RecoveryStream, Active, Stage
<1>3. Unqueued(i) => status[i] = "pending"
  BY <1>1, <1>2 DEF Unqueued, RowsHaveTasks, HasTask
<1>4. ASSUME StalledRowAges(i)
      PROVE  Unqueued(i)
  <2>1. api[i] # "inserted" /\ \A s \in Stage : ~Awaits(s, i)
    BY <1>4 DEF StalledRowAges, InFlight, Awaits
  <2>2. \A s \in Carriers(status[i]) : s \in Stage
    BY DEF Carriers, Active, Stage
  <2>3. api[i] = "lost" /\ \A s \in Stage : \A n \in 1 .. Len(log[s]) : log[s][n] # i
    BY <2>1, <2>2, NothingStranded DEF NoStranding, Awaits
  <2> QED
    BY <2>3 DEF Unqueued, Named, Stage
<1> QED
  BY <1>3, <1>4

(* A row grows stale by the passing of time alone.                         *)
LEMMA OnlyTimeAges ==
  ASSUME TypeOK, [Next]_vars, NEW i \in Inv, stale'[i], ~stale[i]
  PROVE  StalledRowAges(i) \/ BusyRowAges(i)
<1> USE DEF TypeOK, RowsTypeOK
<1>a. UNCHANGED rows => stale'[i] = stale[i]
  BY DEF rows
<1>b. ASSUME NEW j, NEW from, NEW target, MoveTo(j, from, target)
      PROVE  FALSE
  BY <1>b DEF MoveTo
<1>1. ASSUME NEW j \in Inv, Request(j)
      PROVE  FALSE
  BY <1>1, <1>a, <1>b DEF Request, Submit, Insert, PublishFirst, PublishFails, Cancel,
     MarkCancelled
<1>2. ASSUME NEW j \in Inv, StalledRowAges(j) \/ BusyRowAges(j)
      PROVE  i = j
  BY <1>2 DEF StalledRowAges, BusyRowAges, Age
<1>3. ASSUME NEW w \in Worker, Work(w)
      PROVE  FALSE
  <2>1. CASE MarkExhausted(w) \/ Reject(w) \/ EnterStage(w) \/ Finish(w)
    BY <2>1, <1>b DEF MarkExhausted, Reject, MarkFailed, EnterStage, AdvanceOrResume,
       Finish, Advance
  <2>2. CASE \/ RecordDns(w) \/ RecordHttp(w) \/ Summarise(w) \/ Conclude(w)
             \/ AnalysisFails(w) \/ LinkEntities(w)
    BY <2>2, <1>a DEF RecordDns, RecordHttp, Summarise, Conclude, AnalysisFails,
       LinkEntities, SaveObservation, SetEnrichmentStatus, PersistResult,
       CreateRelationships
  <2>3. CASE \/ DeadLetter(w) \/ CheckCancelled(w) \/ PayloadMalformed(w)
             \/ HandleRaises(w) \/ PublishNext(w) \/ Acknowledge(w)
             \/ Reclaim(w) \/ NothingStalled(w) \/ Consume(w) \/ ConsumeTimesOut(w)
    BY <2>3, <1>a DEF DeadLetter, CheckCancelled, PayloadMalformed, HandleRaises,
       PublishNext, Acknowledge, Reclaim, NothingStalled, Consume, ConsumeTimesOut
  <2> QED
    BY <1>3, <2>1, <2>2, <2>3 DEF Work, WorkerStep, TaskStep
<1>4. ASSUME NEW w \in Worker, Crash(w)
      PROVE  FALSE
  BY <1>4, <1>a DEF Crash, Die
<1>5. CASE Sweep \/ AbortSweep
  BY <1>5, <1>a DEF Sweep, SweepStep, SweepFetch, SweepTouch, SweepPublish, Touch,
     AbortSweep, SweepAborts
<1>6. ASSUME NEW s \in Stage, NEW n,
             AbandonedEntryIdles(s, n) \/ HeldEntryIdles(s, n)
      PROVE  FALSE
  BY <1>6, <1>a DEF AbandonedEntryIdles, HeldEntryIdles
<1>7. CASE UNCHANGED vars
  BY <1>7, <1>a DEF vars
<1> QED
  BY <1>1, <1>2, <1>3, <1>4, <1>5, <1>6, <1>7 DEF Next

LEMMA RowsStaySweptOnce ==
  ASSUME RecoveryInv, HeldExclusively, Untroubled, Untroubled', HandedOver, QueuedOnce,
         SweptOnce, [Next]_vars
  PROVE  SweptOnce'
<1> USE DEF RecoveryInv, GroundingInv
<1>a. ASSUME NEW i \in Inv, Published("enrich", i)
      PROVE  \/ api[i] = "inserted" /\ api'[i] = "published"
             \/ SweepPublish /\ \E r \in touched : r.inv = i
  BY <1>a DEF Published, PublishFirst, NextStream, TypeOK, ApiTypeOK
<1>b. ASSUME NEW i \in Inv, i \notin Named("enrich"), ~Published("enrich", i)
      PROVE  i \notin Named("enrich")'
  <2>1. CASE UNCHANGED log
    BY <1>b, <2>1 DEF Named
  <2>2. ASSUME NEW s \in Stage, NEW j \in Inv, Published(s, j)
        PROVE  i \notin Named("enrich")'
    <3>1. /\ Len(log["enrich"]) \in Nat
          /\ Len(log'["enrich"]) = IF "enrich" = s THEN Len(log["enrich"]) + 1
                                   ELSE Len(log["enrich"])
          /\ \A n \in 1 .. Len(log["enrich"]) : log'["enrich"][n] = log["enrich"][n]
          /\ "enrich" = s => log'["enrich"][Len(log["enrich"]) + 1] = j
      BY <2>2, AppendKeeps DEF Published, TypeOK, StreamTypeOK, Stage
    <3>2. ~("enrich" = s /\ j = i)
      BY <1>b, <2>2
    <3> QED
      BY <1>b, <3>1, <3>2 DEF Named
  <2> QED
    BY <2>1, <2>2, LogSteps
<1>c. ASSUME NEW i \in Inv, Unqueued(i), SweepPublish => \A r \in touched : r.inv # i
      PROVE  Unqueued(i)'
  <2>1. api'[i] = "lost" /\ api[i] = "lost"
    BY <1>c, RequestSteps DEF Unqueued, Submit, PublishFirst, PublishFails
  <2> QED
    BY <1>a, <1>b, <1>c, <2>1 DEF Unqueued
<1>d. ASSUME NEW r \in backlog \cup touched
      PROVE  r.inv \in Inv /\ r = [inv |-> r.inv, status |-> "pending"] /\ Unqueued(r.inv)
  BY DEF TypeOK, SweeperTypeOK, SweepRow, SweptOnce
<1>e. ASSUME NEW i \in Inv, stale'[i], ~stale[i]
      PROVE  Unqueued(i) /\ StalledRowAges(i)
  <2>1. StalledRowAges(i)
    BY <1>e, OnlyTimeAges, FaultsGrow DEF Untroubled
  <2> QED
    BY <2>1, StalledIsUnqueued DEF StalledRowAges, Age
<1>f. ~AbortSweep
  BY FaultsGrow DEF Untroubled
<1>g. SweepFetch \/ SweepTouch \/ SweepPublish \/ UNCHANGED sweeper
  BY <1>f DEF Next, vars, Request, StalledRowAges, BusyRowAges, Work, Crash, Sweep,
     SweepStep, AbandonedEntryIdles, HeldEntryIdles
<1>1. ASSUME NEW i \in Inv, stale'[i]
      PROVE  Unqueued(i)'
  <2>1. CASE stale[i]
    BY <2>1, <1>c DEF SweptOnce
  <2>2. CASE ~stale[i]
    BY <2>2, <1>1, <1>c, <1>e DEF StalledRowAges, InFlight
  <2> QED
    BY <2>1, <2>2
<1>2. /\ \A r \in backlog' \cup touched' : r.status = "pending" /\ Unqueued(r.inv)'
      /\ touched' \cap backlog' = {}
      /\ \A r \in touched' : touched' = {r} /\ ~stale'[r.inv]
  <2>1. CASE SweepFetch
    <3>1. ASSUME NEW r \in backlog'
          PROVE  r.status = "pending" /\ Unqueued(r.inv)'
      <4>1. PICK i \in StaleRows : r = [inv |-> i, status |-> status[i]]
        BY <2>1 DEF SweepFetch
      <4>2. i \in Inv /\ status[i] \in Active /\ Unqueued(i)
        BY DEF StaleRows, SweptOnce
      <4>3. touched = {}
        BY <2>1 DEF SweepFetch
      <4> QED
        BY <4>1, <4>2, <4>3, <1>c, StalledIsUnqueued
    <3> QED
      BY <2>1, <3>1 DEF SweepFetch
  <2>2. CASE SweepTouch
    <3>1. PICK r \in backlog : Touch(r.inv) /\ touched' = {r} /\ backlog' = backlog \ {r}
      BY <2>2 DEF SweepTouch
    <3>2. touched = {}
      BY <2>2 DEF SweepTouch
    <3>3. r.inv \in Inv /\ ~stale'[r.inv]
      BY <3>1, <1>d DEF Touch, TypeOK, RowsTypeOK
    <3>4. ASSUME NEW q \in backlog
          PROVE  q.status = "pending" /\ Unqueued(q.inv)'
      BY <3>2, <1>c, <1>d
    <3> QED
      BY <3>1, <3>3, <3>4
  <2>3. CASE SweepPublish
    <3>1. PICK r \in touched : TRUE
      BY <2>3 DEF SweepPublish
    <3>2. touched = {r} /\ r \notin backlog
      BY <3>1 DEF SweptOnce
    <3>3. ASSUME NEW q \in backlog
          PROVE  q.status = "pending" /\ Unqueued(q.inv)'
      <4>1. q.inv # r.inv
        BY <3>1, <3>2, <1>d
      <4> QED
        BY <4>1, <3>2, <1>c, <1>d
    <3> QED
      BY <2>3, <3>3 DEF SweepPublish
  <2>4. CASE UNCHANGED sweeper /\ ~SweepPublish
    <3>1. UNCHANGED <<backlog, touched>>
      BY <2>4 DEF sweeper
    <3>2. ASSUME NEW q \in backlog \cup touched
          PROVE  q.status = "pending" /\ Unqueued(q.inv)'
      BY <2>4, <1>c, <1>d
    <3>3. ASSUME NEW r \in touched
          PROVE  touched = {r} /\ ~stale'[r.inv]
      <4>1. r.inv \in Inv /\ ~stale[r.inv] /\ touched = {r}
        BY <1>d DEF SweptOnce
      <4> QED
        BY <4>1, <1>e DEF StalledRowAges, InFlight
    <3> QED
      BY <3>1, <3>2, <3>3 DEF SweptOnce
  <2> QED
    BY <2>1, <2>2, <2>3, <2>4, <1>g
<1>3. ASSUME NEW i \in Inv, api'[i] \in {"none", "inserted"}
      PROVE  i \notin Named("enrich")'
  <2>1. api[i] \in {"none", "inserted"}
    BY <1>3, RequestSteps DEF Submit
  <2>2. ~Published("enrich", i)
    BY <2>1, <1>3, <1>a, <1>d DEF Unqueued
  <2> QED
    BY <2>1, <2>2, <1>b DEF SweptOnce
<1> QED
  BY <1>1, <1>2, <1>3 DEF SweptOnce

LEMMA InitOnce == Init => OnceInv
<1> SUFFICES ASSUME Init PROVE HandedOver /\ QueuedOnce /\ SweptOnce
  BY DEF OnceInv
<1>1. \A s \in Stage : Named(s) = {} /\ Len(log[s]) = 0
  BY DEF Init, StreamInit, Named
<1> QED
  BY <1>1 DEF Init, RowsInit, SweeperInit, HandedOver, QueuedOnce, SweptOnce, NextStream,
     Stage

LEMMA NextOnce ==
  ASSUME RecoveryInv, HeldExclusively, OnceInv, [Next]_vars
  PROVE  OnceInv'
<1> SUFFICES ASSUME Untroubled'
             PROVE  HandedOver' /\ QueuedOnce' /\ SweptOnce'
  BY DEF OnceInv
<1>1. Untroubled
  BY FaultsGrow DEF Untroubled, RecoveryInv, GroundingInv
<1> QED
  BY <1>1, QueuedStayOnce, TasksStayHandedOver, RowsStaySweptOnce DEF OnceInv

(* In a run without crashes, overruns and impatient sweeps each stage gets *)
(* one task for an investigation, retries and lost publishes included.     *)
THEOREM TasksArePublishedOnce == Spec => []NoNeedlessDuplicates
<1>1. OnceInv => NoNeedlessDuplicates
  BY DEF OnceInv, Untroubled, QueuedOnce, NoNeedlessDuplicates
<1>2. RecoveryInv /\ HeldExclusively /\ [Next]_vars => HeldExclusively'
  BY HeldStayExclusive
<1>3. RecoveryInv /\ HeldExclusively /\ OnceInv /\ [Next]_vars => OnceInv'
  BY NextOnce
<1> QED
  BY <1>1, <1>2, <1>3, InitHeld, InitOnce, RecoveryInvariant, PTL DEF Spec

=============================================================================
