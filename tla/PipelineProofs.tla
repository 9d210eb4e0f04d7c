--------------------------- MODULE PipelineProofs ---------------------------
(***************************************************************************)
(* Theorems of Pipeline for every set of investigations and workers and    *)
(* every value of the bounds: type correctness first; then that every      *)
(* status change is a legal transition, so that the pipeline implements    *)
(* Lifecycle, that no task runs ahead of its investigation, that analysis  *)
(* follows evidence, and that a conclusion is grounded.  The argument is   *)
(* the inductive invariant GroundingInv: a task vouches for what the       *)
(* stages before it wrote.  It is preserved because rows only grow         *)
(* (RowsGrow) and statuses only move along VALID_TRANSITIONS (LegalStep),  *)
(* so that what a task once vouched for stays true however late, or        *)
(* however often, it is worked on.                                         *)
(***************************************************************************)
EXTENDS Pipeline, TLAPS

-----------------------------------------------------------------------------
(* What the statements of the database preserve.                           *)

(* A guarded UPDATE keeps the rows well formed.                            *)
LEMMA MoveToType ==
  ASSUME RowsTypeOK, NEW i \in Inv, NEW from, NEW target \in Status,
         MoveTo(i, from, target)
  PROVE  RowsTypeOK'
BY DEF RowsTypeOK, MoveTo

(* So do the other statements.                                             *)
LEMMA RowWriteType ==
  ASSUME RowsTypeOK, NEW i \in Inv,
         \/ \E source \in Source : SaveObservation(i, source)
         \/ SetEnrichmentStatus(i)
         \/ \E cited \in SUBSET Source : PersistResult(i, cited)
         \/ CreateRelationships(i)
         \/ Touch(i)
         \/ Age(i)
  PROVE  RowsTypeOK'
<1>1. CASE \E source \in Source : SaveObservation(i, source)
  BY <1>1 DEF RowsTypeOK, SaveObservation
<1>2. CASE SetEnrichmentStatus(i)
  BY <1>2 DEF RowsTypeOK, SetEnrichmentStatus
<1>3. CASE \E cited \in SUBSET Source : PersistResult(i, cited)
  BY <1>3 DEF RowsTypeOK, PersistResult
<1>4. CASE CreateRelationships(i)
  BY <1>4 DEF RowsTypeOK, CreateRelationships
<1>5. CASE Touch(i)
  BY <1>5 DEF RowsTypeOK, Touch
<1>6. CASE Age(i)
  BY <1>6 DEF RowsTypeOK, Age
<1> QED
  BY <1>1, <1>2, <1>3, <1>4, <1>5, <1>6

LEMMA RowsUnchangedType ==
  ASSUME RowsTypeOK, UNCHANGED rows
  PROVE  RowsTypeOK'
BY DEF RowsTypeOK, rows

-----------------------------------------------------------------------------
(* What the commands of the streams preserve.                              *)

(* Publishing appends to one log and moves nothing else.                   *)
LEMMA XaddType ==
  ASSUME StreamTypeOK, NEW s \in Stage, NEW i \in Inv, Xadd(s, i)
  PROVE  StreamTypeOK'
<1>1. log' \in [Stage -> Seq(Inv)]
  BY DEF StreamTypeOK, Xadd
<1>2. ASSUME NEW u \in Stage
      PROVE  cursor[u] <= Len(log'[u])
  <2>1. log[s] \in Seq(Inv) /\ log[u] \in Seq(Inv) /\ cursor[u] \in Nat
          /\ cursor[u] <= Len(log[u])
    BY DEF StreamTypeOK
  <2>2. Len(Append(log[s], i)) = Len(log[s]) + 1 /\ Len(log[s]) \in Nat
    BY <2>1
  <2>3. log'[u] = IF u = s THEN Append(log[s], i) ELSE log[u]
    BY DEF StreamTypeOK, Xadd
  <2> QED
    BY <2>1, <2>2, <2>3
<1> QED
  BY <1>1, <1>2 DEF StreamTypeOK, Xadd

(* Delivering the next entry makes it pending.                             *)
LEMMA XreadGroupType ==
  ASSUME StreamTypeOK, NEW s \in Stage, XreadGroup(s)
  PROVE  StreamTypeOK' /\ cursor[s] + 1 \in 1 .. Len(log[s])
<1> DEFINE n == cursor[s] + 1
<1>1. cursor[s] \in Nat /\ log[s] \in Seq(Inv) /\ Len(log[s]) \in Nat
  BY DEF StreamTypeOK
<1>2. n \in 1 .. Len(log[s])
  BY <1>1 DEF XreadGroup, Undelivered
<1>3. cursor' \in [Stage -> Nat]
  BY <1>1 DEF StreamTypeOK, XreadGroup
<1>4. DOMAIN pending' = Stage
  BY DEF StreamTypeOK, XreadGroup
<1>5. ASSUME NEW u \in Stage
      PROVE  /\ cursor'[u] <= Len(log'[u])
             /\ DOMAIN pending'[u] \subseteq 1 .. cursor'[u]
             /\ pending'[u] \in [DOMAIN pending'[u] -> PendingEntry]
  <2>1. CASE u = s
    <3>1. cursor'[s] = n
      BY <2>1, <1>1 DEF StreamTypeOK, XreadGroup
    <3>2. pending'[s] = [m \in DOMAIN pending[s] \cup {n} |->
              IF m = n THEN [count |-> 1, idle |-> FALSE] ELSE pending[s][m]]
      BY DEF StreamTypeOK, XreadGroup
    <3>3. DOMAIN pending[s] \subseteq 1 .. cursor[s]
            /\ pending[s] \in [DOMAIN pending[s] -> PendingEntry]
      BY DEF StreamTypeOK
    <3>4. [count |-> 1, idle |-> FALSE] \in PendingEntry
      BY DEF PendingEntry
    <3>5. DOMAIN pending'[s] = DOMAIN pending[s] \cup {n}
      BY <3>2
    <3>6. DOMAIN pending[s] \cup {n} \subseteq 1 .. n
      BY <3>3, <1>1
    <3>7. pending'[s] \in [DOMAIN pending[s] \cup {n} -> PendingEntry]
      BY <3>2, <3>3, <3>4
    <3> QED
      BY <2>1, <1>2, <3>1, <3>5, <3>6, <3>7 DEF XreadGroup
  <2>2. CASE u # s
    BY <2>2 DEF StreamTypeOK, XreadGroup
  <2> QED
    BY <2>1, <2>2
<1> QED
  BY <1>2, <1>3, <1>4, <1>5 DEF StreamTypeOK, XreadGroup

(* A group may forget pending entries and rewrite those it keeps.          *)
LEMMA SetPendingType ==
  ASSUME StreamTypeOK, NEW s \in Stage, NEW f,
         DOMAIN f \subseteq DOMAIN pending[s],
         f \in [DOMAIN f -> PendingEntry],
         pending' = [pending EXCEPT ![s] = f],
         UNCHANGED <<log, cursor, dlq>>
  PROVE  StreamTypeOK'
BY DEF StreamTypeOK

(* Claiming keeps every entry pending.                                     *)
LEMMA XclaimType ==
  ASSUME StreamTypeOK, NEW s \in Stage, NEW claimed, Xclaim(s, claimed)
  PROVE  StreamTypeOK'
<1> DEFINE f == [m \in DOMAIN pending[s] |->
                   IF m \in claimed
                   THEN [count |-> pending[s][m].count + 1, idle |-> FALSE]
                   ELSE pending[s][m]]
<1>1. pending[s] \in [DOMAIN pending[s] -> PendingEntry]
  BY DEF StreamTypeOK
<1>2. ASSUME NEW m \in DOMAIN pending[s]
      PROVE  f[m] \in PendingEntry
  <2>1. pending[s][m] \in PendingEntry
    BY <1>1
  <2> QED
    BY <2>1 DEF PendingEntry
<1>3. f \in [DOMAIN pending[s] -> PendingEntry] /\ DOMAIN f = DOMAIN pending[s]
  BY <1>2
<1>4. pending' = [pending EXCEPT ![s] = f] /\ UNCHANGED <<log, cursor, dlq>>
  BY DEF Xclaim
<1> QED
  BY <1>3, <1>4, SetPendingType

(* Acknowledging forgets one entry.                                        *)
LEMMA XackType ==
  ASSUME StreamTypeOK, NEW s \in Stage, NEW n, Xack(s, n)
  PROVE  StreamTypeOK'
<1> DEFINE f == [m \in DOMAIN pending[s] \ {n} |-> pending[s][m]]
<1>1. pending[s] \in [DOMAIN pending[s] -> PendingEntry]
  BY DEF StreamTypeOK
<1>2. f \in [DOMAIN f -> PendingEntry] /\ DOMAIN f \subseteq DOMAIN pending[s]
  BY <1>1
<1>3. pending' = [pending EXCEPT ![s] = f] /\ UNCHANGED <<log, cursor, dlq>>
  BY DEF Xack
<1> QED
  BY <1>2, <1>3, SetPendingType

(* An entry that goes idle stays the same entry.                           *)
LEMMA PassThresholdType ==
  ASSUME StreamTypeOK, NEW s \in Stage, NEW n, PassThreshold(s, n)
  PROVE  StreamTypeOK'
<1> DEFINE f == [m \in DOMAIN pending[s] |->
                   IF m = n THEN [pending[s][m] EXCEPT !.idle = TRUE]
                   ELSE pending[s][m]]
<1>1. pending[s] \in [DOMAIN pending[s] -> PendingEntry]
  BY DEF StreamTypeOK
<1>2. ASSUME NEW m \in DOMAIN pending[s]
      PROVE  f[m] \in PendingEntry
  <2>1. pending[s][m] \in PendingEntry
    BY <1>1
  <2> QED
    BY <2>1 DEF PendingEntry
<1>3. f \in [DOMAIN pending[s] -> PendingEntry] /\ DOMAIN f = DOMAIN pending[s]
  BY <1>2
<1>4. pending' = [pending EXCEPT ![s] = f] /\ UNCHANGED <<log, cursor, dlq>>
  BY DEF PassThreshold
<1> QED
  BY <1>3, <1>4, SetPendingType

(* A dead letter names an entry of a stage's stream.                       *)
LEMMA XaddDlqType ==
  ASSUME StreamTypeOK, NEW s \in Stage, NEW n \in Nat, XaddDlq(s, n)
  PROVE  StreamTypeOK'
BY DEF StreamTypeOK, XaddDlq

LEMMA StreamsUnchangedType ==
  ASSUME StreamTypeOK, UNCHANGED streamVars
  PROVE  StreamTypeOK'
BY DEF StreamTypeOK, streamVars

-----------------------------------------------------------------------------
(* What the control of a worker preserves.                                 *)

(* The stages' attributes are what the rows and streams expect.            *)
LEMMA StageFacts ==
  /\ \A w \in Worker : StageOf(w) \in Stage
  /\ \A s \in Stage : /\ Expected(s) \in Active
                      /\ Working(s) \in Active
                      /\ IsValid(Expected(s), Working(s))
                      /\ FirstStep(s) \in HandleSteps
                      /\ NextStream(s) \in Stage
BY DEF StageOf, Stage, Expected, Working, Active, FirstStep, HandleSteps,
       NextStream, IsValid, ValidTransitions

(* A step within a task, or between two polls.                             *)
LEMMA GotoType ==
  ASSUME WorkersTypeOK, NEW w \in Worker, NEW l \in Steps, Goto(w, l),
         pc[w] \in {"poll", "read"} <=> l \in {"poll", "read"}
  PROVE  WorkersTypeOK'
BY DEF WorkersTypeOK, Goto

(* Starting on a set of tasks.                                             *)
LEMMA WorkOnType ==
  ASSUME WorkersTypeOK, NEW w \in Worker, NEW tasks \in SUBSET Task,
         WorkOn(w, tasks)
  PROVE  WorkersTypeOK'
<1>1. PICK t \in tasks :
        /\ task' = [task EXCEPT ![w] = t]
        /\ batch' = [batch EXCEPT ![w] = tasks \ {t}]
        /\ pc' = [pc EXCEPT ![w] = "begin"]
  BY DEF WorkOn
<1>2. "begin" \in Steps \ {"poll", "read"} /\ t \in Task /\ t # NoTask
  BY NoTaskIsNone DEF Steps
<1> QED
  BY <1>1, <1>2 DEF WorkersTypeOK

(* Having nothing left to work on.                                         *)
LEMMA IdleType ==
  ASSUME WorkersTypeOK, NEW w \in Worker, Idle(w)
  PROVE  WorkersTypeOK'
<1>1. "poll" \in Steps
  BY DEF Steps
<1> QED
  BY <1>1 DEF WorkersTypeOK, Idle

(* Turning to the next task of the batch, or polling again.                *)
LEMMA TakeNextType ==
  ASSUME WorkersTypeOK, NEW w \in Worker, TakeNext(w)
  PROVE  WorkersTypeOK'
<1>1. batch[w] \in SUBSET Task
  BY DEF WorkersTypeOK
<1> QED
  BY <1>1, WorkOnType, IdleType DEF TakeNext

(* What a worker takes from a stream are tasks.                            *)
LEMMA TakenType ==
  ASSUME StreamTypeOK, NEW s \in Stage
  PROVE  /\ Reclaimed(s) \subseteq Task
         /\ \A n \in 1 .. Len(log[s]) :
              [id |-> n, inv |-> log[s][n], attempt |-> 1] \in Task
<1>1. log[s] \in Seq(Inv) /\ Len(log[s]) \in Nat /\ cursor[s] \in Nat
        /\ cursor[s] <= Len(log[s])
  BY DEF StreamTypeOK
<1>2. \A n \in 1 .. Len(log[s]) : log[s][n] \in Inv /\ n \in Nat
  BY <1>1
<1>3. ASSUME NEW n \in Stalled(s)
      PROVE  [id |-> n, inv |-> log[s][n], attempt |-> pending[s][n].count + 1] \in Task
  <2>1. n \in DOMAIN pending[s] /\ pending[s] \in [DOMAIN pending[s] -> PendingEntry]
          /\ DOMAIN pending[s] \subseteq 1 .. cursor[s]
    BY DEF Stalled, IdleEntries, StreamTypeOK
  <2>2. n \in 1 .. Len(log[s]) /\ pending[s][n].count \in Nat
    BY <2>1, <1>1 DEF PendingEntry
  <2> QED
    BY <2>2, <1>2 DEF Task
<1> QED
  BY <1>2, <1>3 DEF Reclaimed, Task

-----------------------------------------------------------------------------
(* Type correctness of the processes.                                      *)

(* Every step of a worker keeps its control, the rows and the streams well *)
(* formed.                                                                 *)
LEMMA WorkerStepType ==
  ASSUME RowsTypeOK, StreamTypeOK, WorkersTypeOK,
         NEW w \in Worker, WorkerStep(w)
  PROVE  RowsTypeOK' /\ StreamTypeOK' /\ WorkersTypeOK'
<1> DEFINE s == StageOf(w)
           t == task[w]
<1> USE StageFacts
<1>1. s \in Stage
  OBVIOUS
<1>2. pc[w] \notin {"poll", "read"} => t \in Task /\ t.inv \in Inv /\ t.id \in Nat
  BY DEF WorkersTypeOK, Task
<1>3. CASE Reclaim(w)
  BY <1>3, <1>1, XclaimType, TakenType, WorkOnType, RowsUnchangedType DEF Reclaim
<1>4. CASE NothingStalled(w)
  <2>1. "read" \in Steps
    BY DEF Steps
  <2> QED
    BY <1>4, <2>1, GotoType, RowsUnchangedType, StreamsUnchangedType DEF NothingStalled
<1>5. CASE Consume(w)
  <2> DEFINE n == cursor[s] + 1
  <2>1. StreamTypeOK' /\ n \in 1 .. Len(log[s])
    BY <1>5, <1>1, XreadGroupType DEF Consume
  <2>2. {[id |-> n, inv |-> log[s][n], attempt |-> 1]} \in SUBSET Task
    BY <2>1, <1>1, TakenType
  <2>3. WorkOn(w, {[id |-> n, inv |-> log[s][n], attempt |-> 1]})
    BY <1>5 DEF Consume
  <2> QED
    BY <1>5, <2>1, <2>2, <2>3, WorkOnType, RowsUnchangedType DEF Consume
<1>6. CASE ConsumeTimesOut(w)
  <2>1. "poll" \in Steps
    BY DEF Steps
  <2> QED
    BY <1>6, <2>1, GotoType, RowsUnchangedType, StreamsUnchangedType DEF ConsumeTimesOut
<1>7. CASE TaskStep(w)
  <2> USE <1>1, <1>2
  <2> "failed" \in Status /\ "complete" \in Status /\ Active \subseteq Status
    BY DEF Status, Active, Terminal
  <2>a. {"begin", "enter", "finish", "publish", "reject", "dlq", "ack"} \cup HandleSteps
          \subseteq Steps \ {"poll", "read"}
    BY DEF Steps, HandleSteps
  <2>b. {"http", "summary", "dns", "analyse", "link"} = HandleSteps
    BY DEF HandleSteps
  <2>1. CASE MarkExhausted(w)
    BY <2>1, <2>a, MoveToType, GotoType, StreamsUnchangedType DEF MarkExhausted, MarkFailed
  <2>2. CASE DeadLetter(w)
    BY <2>2, <2>a, XaddDlqType, GotoType, RowsUnchangedType DEF DeadLetter
  <2>3. CASE CheckCancelled(w)
    BY <2>3, <2>a, GotoType, RowsUnchangedType, StreamsUnchangedType DEF CheckCancelled
  <2>4. CASE EnterStage(w)
    BY <2>4, <2>a, MoveToType, GotoType, StreamsUnchangedType
       DEF EnterStage, AdvanceOrResume
  <2>5. CASE RecordDns(w)
    BY <2>5, <2>a, <2>b, RowWriteType, GotoType, StreamsUnchangedType DEF RecordDns, Source
  <2>6. CASE RecordHttp(w)
    BY <2>6, <2>a, <2>b, RowWriteType, GotoType, StreamsUnchangedType DEF RecordHttp, Source
  <2>7. CASE Summarise(w)
    BY <2>7, <2>a, <2>b, RowWriteType, GotoType, StreamsUnchangedType DEF Summarise
  <2>8. CASE Conclude(w)
    BY <2>8, <2>a, RowWriteType, GotoType, StreamsUnchangedType DEF Conclude
  <2>9. CASE AnalysisFails(w)
    BY <2>9, <2>a, RowWriteType, RowsUnchangedType, GotoType, StreamsUnchangedType
       DEF AnalysisFails
  <2>10. CASE LinkEntities(w)
    BY <2>10, <2>a, RowWriteType, GotoType, StreamsUnchangedType DEF LinkEntities
  <2>11. CASE PayloadMalformed(w)
    BY <2>11, <2>a, RowsUnchangedType, GotoType, StreamsUnchangedType DEF PayloadMalformed
  <2>12. CASE HandleRaises(w)
    BY <2>12, TakeNextType, RowsUnchangedType, StreamsUnchangedType DEF HandleRaises
  <2>13. CASE Reject(w)
    BY <2>13, <2>a, MoveToType, GotoType, StreamsUnchangedType DEF Reject, MarkFailed
  <2>14. CASE Finish(w)
    BY <2>14, <2>a, MoveToType, GotoType, StreamsUnchangedType DEF Finish, Advance
  <2>15. CASE PublishNext(w)
    BY <2>15, <2>a, XaddType, GotoType, RowsUnchangedType DEF PublishNext
  <2>16. CASE Acknowledge(w)
    BY <2>16, XackType, TakeNextType, RowsUnchangedType DEF Acknowledge
  <2> QED
    BY <1>7, <2>1, <2>2, <2>3, <2>4, <2>5, <2>6, <2>7, <2>8, <2>9, <2>10, <2>11,
       <2>12, <2>13, <2>14, <2>15, <2>16 DEF TaskStep
<1> QED
  BY <1>3, <1>4, <1>5, <1>6, <1>7 DEF WorkerStep

(* A worker that dies forgets what it held.                                *)
LEMMA DieType ==
  ASSUME WorkersTypeOK, NEW w \in Worker, Die(w)
  PROVE  WorkersTypeOK' /\ UNCHANGED <<rows, streamVars>>
BY IdleType DEF Die

(* The sweeper's rows stay rows of active investigations.                  *)
LEMMA SweepStepType ==
  ASSUME RowsTypeOK, StreamTypeOK, SweeperTypeOK, SweepStep
  PROVE  RowsTypeOK' /\ StreamTypeOK' /\ SweeperTypeOK'
<1>1. CASE SweepFetch
  <2>1. PICK chosen \in SUBSET StaleRows :
          backlog' = {[inv |-> i, status |-> status[i]] : i \in chosen}
    BY <1>1 DEF SweepFetch
  <2>2. backlog' \subseteq SweepRow
    BY <2>1 DEF StaleRows, SweepRow
  <2> QED
    BY <1>1, <2>2, RowsUnchangedType, StreamsUnchangedType
       DEF SweepFetch, SweeperTypeOK
<1>2. CASE SweepTouch
  <2>1. PICK r \in backlog :
          Touch(r.inv) /\ touched' = {r} /\ backlog' = backlog \ {r}
    BY <1>2 DEF SweepTouch
  <2>2. r \in SweepRow /\ r.inv \in Inv
    BY <2>1 DEF SweeperTypeOK, SweepRow
  <2> QED
    BY <1>2, <2>1, <2>2, RowWriteType, StreamsUnchangedType
       DEF SweepTouch, SweeperTypeOK
<1>3. CASE SweepPublish
  <2>1. PICK r \in touched : Xadd(RecoveryStream(r.status), r.inv)
    BY <1>3 DEF SweepPublish
  <2>2. r.inv \in Inv /\ r.status \in Active
    BY <2>1 DEF SweeperTypeOK, SweepRow
  <2>3. RecoveryStream(r.status) \in Stage
    BY <2>2 DEF RecoveryStream, Stage, Active
  <2> QED
    BY <1>3, <2>1, <2>2, <2>3, XaddType, RowsUnchangedType
       DEF SweepPublish, SweeperTypeOK
<1> QED
  BY <1>1, <1>2, <1>3 DEF SweepStep

(* A request keeps the rows, the streams and its own progress well formed. *)
LEMMA RequestType ==
  ASSUME RowsTypeOK, StreamTypeOK, ApiTypeOK, NEW i \in Inv,
         Submit(i) \/ PublishFirst(i) \/ PublishFails(i) \/ Cancel(i)
  PROVE  RowsTypeOK' /\ StreamTypeOK' /\ ApiTypeOK'
<1> {"pending", "cancelled"} \subseteq Status /\ "enrich" \in Stage
  BY DEF Status, Active, Terminal, Stage
<1>1. CASE Submit(i)
  BY <1>1, MoveToType, StreamsUnchangedType DEF Submit, Insert, ApiTypeOK, ApiSteps
<1>2. CASE PublishFirst(i)
  BY <1>2, XaddType, RowsUnchangedType DEF PublishFirst, ApiTypeOK, ApiSteps
<1>3. CASE PublishFails(i)
  BY <1>3, RowsUnchangedType, StreamsUnchangedType DEF PublishFails, ApiTypeOK, ApiSteps
<1>4. CASE Cancel(i)
  BY <1>4, MoveToType, StreamsUnchangedType DEF Cancel, MarkCancelled, ApiTypeOK
<1> QED
  BY <1>1, <1>2, <1>3, <1>4

LEMMA ControlUnchangedType ==
  /\ WorkersTypeOK /\ UNCHANGED workers => WorkersTypeOK'
  /\ SweeperTypeOK /\ UNCHANGED sweeper => SweeperTypeOK'
  /\ ApiTypeOK /\ UNCHANGED api => ApiTypeOK'
BY DEF WorkersTypeOK, workers, SweeperTypeOK, sweeper, ApiTypeOK

-----------------------------------------------------------------------------
(* Type correctness of the pipeline.                                       *)

LEMMA InitType == Init => TypeOK
<1> SUFFICES ASSUME Init PROVE TypeOK
  OBVIOUS
<1>1. RowsTypeOK
  BY DEF Init, RowsInit, RowsTypeOK
<1>2. StreamTypeOK
  BY DEF Init, StreamInit, StreamTypeOK, PendingEntry
<1>3. WorkersTypeOK
  BY DEF Init, WorkersInit, WorkersTypeOK, Steps
<1>4. SweeperTypeOK /\ ApiTypeOK
  BY DEF Init, SweeperInit, SweeperTypeOK, ApiInit, ApiTypeOK, ApiSteps
<1> QED
  BY <1>1, <1>2, <1>3, <1>4, BoundsAreNatural DEF Init, TypeOK

LEMMA NextType == TypeOK /\ [Next]_vars => TypeOK'
<1> SUFFICES ASSUME TypeOK, [Next]_vars PROVE TypeOK'
  OBVIOUS
<1> USE BoundsAreNatural, ControlUnchangedType DEF TypeOK, faults
<1>1. ASSUME NEW i \in Inv, Request(i)
      PROVE  TypeOK'
  BY <1>1, RequestType DEF Request
<1>2. ASSUME NEW i \in Inv, StalledRowAges(i) \/ BusyRowAges(i)
      PROVE  TypeOK'
  BY <1>2, RowWriteType, StreamsUnchangedType DEF StalledRowAges, BusyRowAges
<1>3. ASSUME NEW w \in Worker, Work(w)
      PROVE  TypeOK'
  BY <1>3, WorkerStepType DEF Work
<1>4. ASSUME NEW w \in Worker, Crash(w)
      PROVE  TypeOK'
  BY <1>4, DieType, RowsUnchangedType, StreamsUnchangedType DEF Crash
<1>5. CASE Sweep
  BY <1>5, SweepStepType DEF Sweep
<1>6. CASE AbortSweep
  BY <1>6, RowsUnchangedType, StreamsUnchangedType
     DEF AbortSweep, SweepAborts, SweeperTypeOK
<1>7. ASSUME NEW s \in Stage, NEW n,
             AbandonedEntryIdles(s, n) \/ HeldEntryIdles(s, n)
      PROVE  TypeOK'
  BY <1>7, PassThresholdType, RowsUnchangedType
     DEF AbandonedEntryIdles, HeldEntryIdles
<1>8. CASE UNCHANGED vars
  BY <1>8, RowsUnchangedType, StreamsUnchangedType DEF vars
<1> QED
  BY <1>1, <1>2, <1>3, <1>4, <1>5, <1>6, <1>7, <1>8 DEF Next

(* The pipeline's state is well formed in every reachable state, whatever  *)
(* the investigations, the workers and the bounds on failures.             *)
THEOREM TypeCorrect == Spec => []TypeOK
BY InitType, NextType, PTL DEF Spec

-----------------------------------------------------------------------------
(* Legal transitions.                                                      *)

(* A guarded UPDATE whose target is a legal successor of every status its  *)
(* guard admits, or that very status, is a legal step.                     *)
LEMMA LegalMove ==
  ASSUME RowsTypeOK, NEW i \in Inv, NEW from, NEW target \in Status,
         MoveTo(i, from, target),
         \A source \in from : \/ source = target
                              \/ source = "absent" /\ target = "pending"
                              \/ source \in Active /\ IsValid(source, target)
  PROVE  [Life!Next]_status
<1>1. CASE status[i] \notin from \/ status[i] = target
  <2>1. status' = status
    BY <1>1 DEF MoveTo, RowsTypeOK
  <2> QED
    BY <2>1
<1>2. CASE status[i] \in from /\ status[i] # target
  <2>1. status' = [status EXCEPT ![i] = target]
    BY <1>2 DEF MoveTo
  <2>2. Life!Create(i) \/ Life!Move(i)
    BY <1>2, <2>1
       DEF Life!Create, Life!Move, Life!IsValid, IsValid, Life!ValidTransitions,
           ValidTransitions, Life!Active, Active, Life!Status, Status,
           Life!Terminal, Terminal
  <2> QED
    BY <2>2 DEF Life!Next
<1> QED
  BY <1>1, <1>2

(* Failing and cancelling are legal from every active status.              *)
LEMMA ActiveMayEnd ==
  \A source \in Active : IsValid(source, "failed") /\ IsValid(source, "cancelled")
BY DEF Active, IsValid, ValidTransitions

(* Every step of the pipeline changes statuses only as Lifecycle allows.   *)
LEMMA LegalStep ==
  ASSUME TypeOK, StepsReady, [Next]_vars
  PROVE  [Life!Next]_status
<1> USE StageFacts, ActiveMayEnd DEF TypeOK
<1> {"pending", "failed", "cancelled", "complete"} \cup Active \subseteq Status
  BY DEF Status, Active, Terminal
<1>a. ASSUME NEW w \in Worker, pc[w] \notin {"poll", "read"}
      PROVE  task[w].inv \in Inv /\ StageOf(w) \in Stage
  BY <1>a DEF WorkersTypeOK, Task
<1>b. UNCHANGED rows => UNCHANGED status
  BY DEF rows
<1>1. ASSUME NEW i \in Inv, Request(i)
      PROVE  [Life!Next]_status
  <2>1. CASE Submit(i)
    BY <2>1, LegalMove DEF Submit, Insert
  <2>2. CASE Cancel(i)
    BY <2>2, LegalMove DEF Cancel, MarkCancelled
  <2>3. CASE PublishFirst(i) \/ PublishFails(i)
    BY <2>3, <1>b DEF PublishFirst, PublishFails
  <2> QED
    BY <1>1, <2>1, <2>2, <2>3 DEF Request
<1>2. ASSUME NEW i \in Inv, StalledRowAges(i) \/ BusyRowAges(i)
      PROVE  UNCHANGED status
  BY <1>2 DEF StalledRowAges, BusyRowAges, Age
<1>3. ASSUME NEW w \in Worker, Work(w)
      PROVE  [Life!Next]_status
  <2>1. CASE MarkExhausted(w) \/ Reject(w)
    BY <2>1, <1>a, LegalMove DEF MarkExhausted, Reject, MarkFailed
  <2>2. CASE EnterStage(w)
    <3>1. Expected(StageOf(w)) \in Active /\ Working(StageOf(w)) \in Status
            /\ IsValid(Expected(StageOf(w)), Working(StageOf(w)))
      BY <2>2, <1>a DEF EnterStage
    <3> QED
      BY <2>2, <3>1, <1>a, LegalMove DEF EnterStage, AdvanceOrResume
  <2>3. CASE Finish(w)
    <3>1. StageOf(w) = "correlate"
      BY <2>3 DEF Finish, StepsReady, StepReady
    <3>2. Working(StageOf(w)) = "correlating" /\ IsValid("correlating", "complete")
            /\ "correlating" \in Active
      BY <3>1 DEF Working, IsValid, ValidTransitions, Active
    <3> QED
      BY <2>3, <3>2, <1>a, LegalMove DEF Finish, Advance
  <2>4. CASE \/ RecordDns(w) \/ RecordHttp(w) \/ Summarise(w) \/ Conclude(w)
             \/ AnalysisFails(w) \/ LinkEntities(w)
    BY <2>4, <1>b DEF RecordDns, RecordHttp, Summarise, Conclude, AnalysisFails,
       LinkEntities, SaveObservation, SetEnrichmentStatus, PersistResult,
       CreateRelationships
  <2>5. CASE \/ DeadLetter(w) \/ CheckCancelled(w) \/ PayloadMalformed(w)
             \/ HandleRaises(w) \/ PublishNext(w) \/ Acknowledge(w)
    BY <2>5, <1>b DEF DeadLetter, CheckCancelled, PayloadMalformed, HandleRaises,
       PublishNext, Acknowledge
  <2>6. CASE Reclaim(w) \/ NothingStalled(w) \/ Consume(w) \/ ConsumeTimesOut(w)
    BY <2>6, <1>b DEF Reclaim, NothingStalled, Consume, ConsumeTimesOut
  <2> QED
    BY <1>3, <2>1, <2>2, <2>3, <2>4, <2>5, <2>6 DEF Work, WorkerStep, TaskStep
<1>4. ASSUME NEW w \in Worker, Crash(w)
      PROVE  UNCHANGED status
  BY <1>4, <1>b DEF Crash, Die
<1>5. CASE Sweep
  BY <1>5, <1>b DEF Sweep, SweepStep, SweepFetch, SweepTouch, SweepPublish, Touch
<1>6. CASE AbortSweep
  BY <1>6, <1>b DEF AbortSweep, SweepAborts
<1>7. ASSUME NEW s \in Stage, NEW n,
             AbandonedEntryIdles(s, n) \/ HeldEntryIdles(s, n)
      PROVE  UNCHANGED status
  BY <1>7, <1>b DEF AbandonedEntryIdles, HeldEntryIdles
<1>8. CASE UNCHANGED vars
  BY <1>8, <1>b DEF vars
<1> QED
  BY <1>1, <1>2, <1>3, <1>4, <1>5, <1>6, <1>7, <1>8 DEF Next

-----------------------------------------------------------------------------
(* What a task vouches for stays true.                                     *)

(* No step of the pipeline takes evidence, a result or an edge back.       *)
LEMMA RowsGrow ==
  ASSUME TypeOK, [Next]_vars, NEW i \in Inv
  PROVE  /\ evidence[i] \subseteq evidence'[i] /\ evidence'[i] \subseteq Source
         /\ marked[i] => marked'[i]
         /\ result[i] # {} => result'[i] # {}
         /\ linked[i] => linked'[i]
<1> DEFINE Grow == \A j \in Inv : /\ evidence[j] \subseteq evidence'[j]
                                  /\ marked[j] => marked'[j]
                                  /\ result[j] # {} => result'[j] # {}
                                  /\ linked[j] => linked'[j]
<1> SUFFICES Grow
  BY NextType DEF TypeOK, RowsTypeOK
<1> USE DEF TypeOK, RowsTypeOK
<1>a. UNCHANGED <<evidence, marked, result, linked>> => Grow
  OBVIOUS
<1>b. UNCHANGED rows => Grow
  BY DEF rows
<1>c. ASSUME NEW j, NEW from, NEW target, MoveTo(j, from, target)
      PROVE  Grow
  BY <1>c DEF MoveTo
<1> HIDE DEF Grow
<1>1. ASSUME NEW j \in Inv, Request(j)
      PROVE  Grow
  BY <1>1, <1>b, <1>c DEF Request, Submit, Insert, PublishFirst, PublishFails, Cancel,
     MarkCancelled
<1>2. ASSUME NEW j \in Inv, StalledRowAges(j) \/ BusyRowAges(j)
      PROVE  Grow
  BY <1>2, <1>a DEF StalledRowAges, BusyRowAges, Age
<1>3. ASSUME NEW w \in Worker, Work(w)
      PROVE  Grow
  <2>1. CASE MarkExhausted(w) \/ Reject(w) \/ EnterStage(w) \/ Finish(w)
    BY <2>1, <1>c DEF MarkExhausted, Reject, MarkFailed, EnterStage, AdvanceOrResume,
       Finish, Advance
  <2>2. CASE RecordDns(w) \/ RecordHttp(w)
    BY <2>2 DEF RecordDns, RecordHttp, SaveObservation, Grow
  <2>3. CASE Summarise(w)
    BY <2>3 DEF Summarise, SetEnrichmentStatus, Grow
  <2>4. ASSUME NEW j, NEW cited, PersistResult(j, cited)
        PROVE  Grow
    BY <2>4 DEF PersistResult, Grow
  <2>5. CASE Conclude(w) \/ AnalysisFails(w)
    BY <2>5, <2>4, <1>b DEF Conclude, AnalysisFails
  <2>6. CASE LinkEntities(w)
    BY <2>6 DEF LinkEntities, CreateRelationships, Grow
  <2>7. CASE \/ DeadLetter(w) \/ CheckCancelled(w) \/ PayloadMalformed(w)
             \/ HandleRaises(w) \/ PublishNext(w) \/ Acknowledge(w)
    BY <2>7, <1>b DEF DeadLetter, CheckCancelled, PayloadMalformed, HandleRaises,
       PublishNext, Acknowledge
  <2>8. CASE Reclaim(w) \/ NothingStalled(w) \/ Consume(w) \/ ConsumeTimesOut(w)
    BY <2>8, <1>b DEF Reclaim, NothingStalled, Consume, ConsumeTimesOut
  <2> QED
    BY <1>3, <2>1, <2>2, <2>3, <2>5, <2>6, <2>7, <2>8 DEF Work, WorkerStep, TaskStep
<1>4. ASSUME NEW w \in Worker, Crash(w)
      PROVE  Grow
  BY <1>4, <1>b DEF Crash, Die
<1>5. CASE Sweep
  BY <1>5, <1>a, <1>b DEF Sweep, SweepStep, SweepFetch, SweepTouch, SweepPublish, Touch
<1>6. CASE AbortSweep
  BY <1>6, <1>b DEF AbortSweep, SweepAborts
<1>7. ASSUME NEW s \in Stage, NEW n,
             AbandonedEntryIdles(s, n) \/ HeldEntryIdles(s, n)
      PROVE  Grow
  BY <1>7, <1>b DEF AbandonedEntryIdles, HeldEntryIdles
<1>8. CASE UNCHANGED vars
  BY <1>8, <1>b DEF vars
<1> QED
  BY <1>1, <1>2, <1>3, <1>4, <1>5, <1>6, <1>7, <1>8 DEF Next

(* A legal step does not take an investigation back before a stage it has  *)
(* reached.                                                                *)
LEMMA ReachedStays ==
  ASSUME RowsTypeOK, [Life!Next]_status, NEW i \in Inv, NEW s \in Stage,
         status[i] \in Reached(s)
  PROVE  status'[i] \in Reached(s)
<1>1. CASE status' = status
  BY <1>1
<1>2. CASE \E j \in Inv : Life!Create(j)
  <2>1. PICK j \in Inv : Life!Create(j)
    BY <1>2
  <2>2. status[i] # "absent"
    BY DEF Reached, Stage, Status, Active, Terminal
  <2> QED
    BY <2>1, <2>2 DEF Life!Create, RowsTypeOK
<1>3. CASE \E j \in Inv : Life!Move(j)
  <2>1. PICK j \in Inv, target \in Status :
          /\ IsValid(status[j], target)
          /\ status[j] \in Active
          /\ status' = [status EXCEPT ![j] = target]
    BY <1>3 DEF Life!Move, Life!IsValid, IsValid, Life!ValidTransitions,
       ValidTransitions, Life!Active, Active, Life!Status, Status,
       Life!Terminal, Terminal
  <2>2. CASE i = j
    <3>1. status'[i] = target
      BY <2>1, <2>2 DEF RowsTypeOK
    <3>2. target \in Reached(s)
      BY <2>1, <2>2 DEF Reached, Stage, Status, Active, Terminal, IsValid, ValidTransitions
    <3> QED
      BY <3>1, <3>2
  <2>3. CASE i # j
    BY <2>1, <2>3 DEF RowsTypeOK
  <2> QED
    BY <2>2, <2>3
<1> QED
  BY <1>1, <1>2, <1>3 DEF Life!Next

(* ReadyFor(s, i) in the next state.                                       *)
ReadyAfter(s, i) ==
  /\ status'[i] \in Reached(s)
  /\ s # "enrich" => evidence'[i] = Source /\ marked'[i]
  /\ s = "correlate" => result'[i] # {}

(* So a stream that could hold a task for an investigation still can.      *)
LEMMA ReadyStays ==
  ASSUME TypeOK, StepsReady, [Next]_vars, NEW i \in Inv, NEW s \in Stage,
         ReadyFor(s, i)
  PROVE  ReadyAfter(s, i)
BY LegalStep, ReachedStays, RowsGrow DEF TypeOK, ReadyFor, ReadyAfter

-----------------------------------------------------------------------------
(* The parts of the invariant, one by one.                                 *)

(* A row in order stays in order unless its status moves into the later    *)
(* stages or its first result is stored.                                   *)
LEMMA RowStays ==
  ASSUME TypeOK, [Next]_vars, NEW i \in Inv, RowReady(i),
         \/ status'[i] = status[i]
         \/ status'[i] \notin {"analyzing", "correlating", "complete"},
         result'[i] # {} => result[i] # {}
  PROVE  RowReady(i)'
BY RowsGrow DEF RowReady

LEMMA RowsStayReady ==
  ASSUME GroundingInv, [Next]_vars
  PROVE  RowsReady'
<1> SUFFICES ASSUME NEW i \in Inv PROVE RowReady(i)'
  BY DEF RowsReady
<1> USE StageFacts DEF GroundingInv
<1>a. RowReady(i) /\ RowsTypeOK
  BY DEF RowsReady, TypeOK
<1>b. UNCHANGED <<status, result>> => RowReady(i)'
  BY <1>a, RowStays
<1>c. UNCHANGED rows => RowReady(i)'
  BY <1>b DEF rows
<1>d. ASSUME NEW j, NEW from, NEW target, MoveTo(j, from, target),
             target \notin {"analyzing", "correlating", "complete"}
      PROVE  RowReady(i)'
  BY <1>a, <1>d, RowStays DEF MoveTo, RowsTypeOK
<1>e. ASSUME NEW w \in Worker, pc[w] \notin {"poll", "read"}
      PROVE  task[w].inv \in Inv /\ StageOf(w) \in Stage
               /\ ReadyFor(StageOf(w), task[w].inv)
  BY <1>e DEF TypeOK, WorkersTypeOK, Task, HeldReady, HeldTasks
<1>1. ASSUME NEW j \in Inv, Request(j)
      PROVE  RowReady(i)'
  BY <1>1, <1>c, <1>d DEF Request, Submit, Insert, PublishFirst, PublishFails, Cancel,
     MarkCancelled
<1>2. ASSUME NEW j \in Inv, StalledRowAges(j) \/ BusyRowAges(j)
      PROVE  RowReady(i)'
  BY <1>2, <1>b DEF StalledRowAges, BusyRowAges, Age
<1>3. ASSUME NEW w \in Worker, Work(w)
      PROVE  RowReady(i)'
  <2>1. CASE MarkExhausted(w) \/ Reject(w)
    BY <2>1, <1>d DEF MarkExhausted, Reject, MarkFailed
  <2>2. CASE EnterStage(w)
    <3> DEFINE s == StageOf(w)
    <3>1. /\ i # task[w].inv => UNCHANGED <<status[i], result[i]>>
          /\ status'[i] \in {status[i], Working(s)}
          /\ UNCHANGED <<evidence, marked, result, linked>>
      BY <2>2, <1>a DEF EnterStage, AdvanceOrResume, MoveTo, RowsTypeOK
    <3>2. CASE i = task[w].inv
      <4>1. s \in Stage /\ ReadyFor(s, i)
        BY <2>2, <1>e, <3>2 DEF EnterStage
      <4>2. CASE s = "enrich"
        BY <4>2, <3>1, <1>a, RowStays DEF Working
      <4>3. CASE s = "analyze"
        BY <4>1, <4>3, <3>1, <1>a DEF Working, RowReady, ReadyFor
      <4>4. CASE s = "correlate"
        BY <4>1, <4>4, <3>1, <1>a DEF Working, RowReady, ReadyFor
      <4> QED
        BY <4>1, <4>2, <4>3, <4>4 DEF Stage
    <3> QED
      BY <3>1, <3>2, <1>a, RowStays
  <2>3. CASE Finish(w)
    <3>1. StageOf(w) = "correlate" /\ linked[task[w].inv]
      BY <2>3 DEF Finish, StepsReady, StepReady
    <3>2. status' = status \/ (status[task[w].inv] = "correlating"
              /\ status' = [status EXCEPT ![task[w].inv] = "complete"])
      BY <2>3, <3>1 DEF Finish, Advance, MoveTo, Working
    <3>3. UNCHANGED <<evidence, marked, result, linked>>
      BY <2>3 DEF Finish, Advance, MoveTo
    <3>4. CASE i = task[w].inv /\ status[i] = "correlating" /\ status'[i] = "complete"
      BY <3>1, <3>3, <3>4, <1>a DEF RowReady
    <3>5. CASE status'[i] = status[i]
      BY <3>3, <3>5, <1>a, RowStays
    <3> QED
      BY <3>2, <3>4, <3>5, <1>a DEF RowsTypeOK
  <2>4. CASE RecordDns(w) \/ RecordHttp(w) \/ Summarise(w) \/ LinkEntities(w)
    BY <2>4, <1>b DEF RecordDns, RecordHttp, Summarise, LinkEntities,
       SaveObservation, SetEnrichmentStatus, CreateRelationships
  <2>5. CASE Conclude(w) \/ AnalysisFails(w)
    <3>1. StageOf(w) = "analyze" /\ task[w].inv \in Inv
            /\ ReadyFor("analyze", task[w].inv)
      BY <2>5, <1>e DEF Conclude, AnalysisFails, StepsReady, StepReady
    <3>2. UNCHANGED <<status, evidence, marked, linked>>
      BY <2>5 DEF Conclude, AnalysisFails, PersistResult, rows
    <3>3. i # task[w].inv => result'[i] = result[i]
      BY <2>5, <1>a DEF Conclude, AnalysisFails, PersistResult, rows, RowsTypeOK
    <3>4. result[i] # {} => result'[i] # {}
      BY RowsGrow
    <3>5. CASE i = task[w].inv
      BY <3>1, <3>2, <3>4, <3>5, <1>a DEF RowReady, ReadyFor
    <3> QED
      BY <3>2, <3>3, <3>5, <1>a, RowStays
  <2>6. CASE \/ DeadLetter(w) \/ CheckCancelled(w) \/ PayloadMalformed(w)
             \/ HandleRaises(w) \/ PublishNext(w) \/ Acknowledge(w)
    BY <2>6, <1>c DEF DeadLetter, CheckCancelled, PayloadMalformed, HandleRaises,
       PublishNext, Acknowledge
  <2>7. CASE Reclaim(w) \/ NothingStalled(w) \/ Consume(w) \/ ConsumeTimesOut(w)
    BY <2>7, <1>c DEF Reclaim, NothingStalled, Consume, ConsumeTimesOut
  <2> QED
    BY <1>3, <2>1, <2>2, <2>3, <2>4, <2>5, <2>6, <2>7 DEF Work, WorkerStep, TaskStep
<1>4. ASSUME NEW w \in Worker, Crash(w)
      PROVE  RowReady(i)'
  BY <1>4, <1>c DEF Crash, Die
<1>5. CASE Sweep
  BY <1>5, <1>b, <1>c DEF Sweep, SweepStep, SweepFetch, SweepTouch, SweepPublish, Touch
<1>6. CASE AbortSweep
  BY <1>6, <1>c DEF AbortSweep, SweepAborts
<1>7. ASSUME NEW s \in Stage, NEW n,
             AbandonedEntryIdles(s, n) \/ HeldEntryIdles(s, n)
      PROVE  RowReady(i)'
  BY <1>7, <1>c DEF AbandonedEntryIdles, HeldEntryIdles
<1>8. CASE UNCHANGED vars
  BY <1>8, <1>c DEF vars
<1> QED
  BY <1>1, <1>2, <1>3, <1>4, <1>5, <1>6, <1>7, <1>8 DEF Next

(* Publishing a task that is ready keeps every log ready.                  *)
LEMMA LogsGrow ==
  ASSUME GroundingInv, [Next]_vars, NEW s \in Stage, NEW i \in Inv,
         Xadd(s, i), ReadyFor(s, i)
  PROVE  LogsReady'
<1> USE DEF GroundingInv
<1>1. ASSUME NEW u \in Stage, NEW n \in 1 .. Len(log'[u])
      PROVE  ReadyAfter(u, log'[u][n])
  <2>1. log[u] \in Seq(Inv) /\ Len(log[u]) \in Nat
    BY DEF TypeOK, StreamTypeOK
  <2>2. log'[u] = IF u = s THEN Append(log[u], i) ELSE log[u]
    BY DEF TypeOK, StreamTypeOK, Xadd
  <2>3. CASE n \in 1 .. Len(log[u])
    <3>1. log'[u][n] = log[u][n] /\ log[u][n] \in Inv
      BY <2>1, <2>2, <2>3
    <3>2. ReadyFor(u, log[u][n])
      BY <2>3 DEF LogsReady
    <3> QED
      BY <3>1, <3>2, ReadyStays
  <2>4. CASE n \notin 1 .. Len(log[u])
    <3>1. u = s /\ log'[u][n] = i
      BY <2>1, <2>2, <2>4
    <3> QED
      BY <3>1, ReadyStays
  <2> QED
    BY <2>3, <2>4
<1> QED
  BY <1>1 DEF LogsReady, ReadyAfter, ReadyFor, Reached

(* And so does every step that publishes nothing.                          *)
LEMMA LogsStay ==
  ASSUME GroundingInv, [Next]_vars, UNCHANGED log
  PROVE  LogsReady'
<1> USE DEF GroundingInv
<1>1. ASSUME NEW u \in Stage, NEW n \in 1 .. Len(log[u])
      PROVE  ReadyAfter(u, log[u][n])
  <2>1. log[u][n] \in Inv
    BY DEF TypeOK, StreamTypeOK
  <2> QED
    BY <2>1, ReadyStays DEF LogsReady
<1> QED
  BY <1>1 DEF LogsReady, ReadyAfter, ReadyFor, Reached

LEMMA LogsStayReady ==
  ASSUME GroundingInv, [Next]_vars
  PROVE  LogsReady'
<1> USE StageFacts DEF GroundingInv
<1>a. UNCHANGED streamVars => UNCHANGED log
  BY DEF streamVars
<1>1. ASSUME NEW i \in Inv, Request(i)
      PROVE  LogsReady'
  <2>1. CASE PublishFirst(i)
    <3>1. status[i] \in Status
      BY <2>1 DEF PublishFirst, ApiReady, TypeOK, RowsTypeOK
    <3> QED
      BY <2>1, <3>1, LogsGrow DEF PublishFirst, ReadyFor, Reached, Stage
  <2> QED
    BY <1>1, <2>1, <1>a, LogsStay DEF Request, Submit, PublishFails, Cancel
<1>2. ASSUME NEW i \in Inv, StalledRowAges(i) \/ BusyRowAges(i)
      PROVE  UNCHANGED log
  BY <1>2, <1>a DEF StalledRowAges, BusyRowAges
<1>3. ASSUME NEW w \in Worker, Work(w)
      PROVE  LogsReady'
  <2>1. CASE PublishNext(w)
    <3>1. StageOf(w) \in Stage /\ task[w].inv \in Inv
            /\ ReadyFor(NextStream(StageOf(w)), task[w].inv)
      BY <2>1 DEF PublishNext, StepsReady, StepReady, TypeOK, WorkersTypeOK, Task
    <3> QED
      BY <2>1, <3>1, LogsGrow DEF PublishNext
  <2>2. CASE \/ MarkExhausted(w) \/ DeadLetter(w) \/ CheckCancelled(w)
             \/ EnterStage(w) \/ RecordDns(w) \/ RecordHttp(w) \/ Summarise(w)
             \/ Conclude(w) \/ AnalysisFails(w) \/ LinkEntities(w)
             \/ PayloadMalformed(w) \/ HandleRaises(w) \/ Reject(w) \/ Finish(w)
             \/ Acknowledge(w)
    BY <2>2, <1>a, LogsStay DEF MarkExhausted, DeadLetter, CheckCancelled,
       EnterStage, RecordDns, RecordHttp, Summarise, Conclude, AnalysisFails,
       LinkEntities, PayloadMalformed, HandleRaises, Reject, Finish, Acknowledge,
       XaddDlq, Xack
  <2>3. CASE Reclaim(w) \/ NothingStalled(w) \/ Consume(w) \/ ConsumeTimesOut(w)
    BY <2>3, <1>a, LogsStay DEF Reclaim, NothingStalled, Consume, ConsumeTimesOut,
       Xclaim, XreadGroup
  <2> QED
    BY <1>3, <2>1, <2>2, <2>3 DEF Work, WorkerStep, TaskStep
<1>4. ASSUME NEW w \in Worker, Crash(w)
      PROVE  UNCHANGED log
  BY <1>4, <1>a DEF Crash, Die
<1>5. CASE Sweep
  <2>1. CASE SweepPublish
    <3>1. PICK r \in touched : Xadd(RecoveryStream(r.status), r.inv)
      BY <2>1 DEF SweepPublish
    <3>2. r.inv \in Inv /\ RecoveryStream(r.status) \in Stage
      BY <3>1 DEF TypeOK, SweeperTypeOK, SweepRow, RecoveryStream, Stage, Active
    <3> QED
      BY <3>1, <3>2, LogsGrow DEF SweepReady
  <2> QED
    BY <1>5, <2>1, <1>a, LogsStay DEF Sweep, SweepStep, SweepFetch, SweepTouch
<1>6. CASE AbortSweep
  BY <1>6, <1>a, LogsStay DEF AbortSweep, SweepAborts
<1>7. ASSUME NEW s \in Stage, NEW n,
             AbandonedEntryIdles(s, n) \/ HeldEntryIdles(s, n)
      PROVE  UNCHANGED log
  BY <1>7 DEF AbandonedEntryIdles, HeldEntryIdles, PassThreshold
<1>8. CASE UNCHANGED vars
  BY <1>8, <1>a, LogsStay DEF vars
<1> QED
  BY <1>1, <1>2, <1>3, <1>4, <1>5, <1>6, <1>7, <1>8, LogsStay DEF Next

(* A task a worker holds was held before, or is taken from its stream.     *)
LEMMA HeldComeFromLogs ==
  ASSUME TypeOK, [Next]_vars, NEW v \in Worker, NEW t \in HeldTasks(v)'
  PROVE  \/ t \in HeldTasks(v)
         \/ \E n \in 1 .. Len(log[StageOf(v)]) : t.inv = log[StageOf(v)][n]
<1> DEFINE Old(u) == \A x \in HeldTasks(u)' : x \in HeldTasks(u)
           FromLog(u) == \A x \in HeldTasks(u)' :
                \E n \in 1 .. Len(log[StageOf(u)]) : x.inv = log[StageOf(u)][n]
<1> SUFFICES Old(v) \/ FromLog(v)
  OBVIOUS
<1> USE StageFacts DEF TypeOK
<1>a. UNCHANGED workers => Old(v)
  BY DEF workers, HeldTasks
<1>b. ASSUME NEW w \in Worker, NEW l, Goto(w, l)
      PROVE  Old(v)
  BY <1>b DEF Goto, HeldTasks
<1>c. ASSUME NEW w \in Worker, NEW tasks, WorkOn(w, tasks)
      PROVE  IF v = w THEN HeldTasks(v)' \subseteq tasks ELSE Old(v)
  BY <1>c DEF WorkOn, HeldTasks, WorkersTypeOK
<1>d. ASSUME NEW w \in Worker, Idle(w)
      PROVE  Old(v)
  BY <1>d DEF Idle, HeldTasks, WorkersTypeOK
<1>e. ASSUME NEW w \in Worker, TakeNext(w)
      PROVE  Old(v)
  BY <1>e, <1>c, <1>d DEF TakeNext, HeldTasks
<1> HIDE DEF Old, FromLog
<1>1. ASSUME NEW i \in Inv, Request(i) \/ StalledRowAges(i) \/ BusyRowAges(i)
      PROVE  Old(v)
  BY <1>1, <1>a DEF Request, StalledRowAges, BusyRowAges
<1>2. ASSUME NEW w \in Worker, Work(w)
      PROVE  Old(v) \/ FromLog(v)
  <2>1. CASE Reclaim(w)
    <3>1. v = w => HeldTasks(v)' \subseteq Reclaimed(StageOf(v))
      BY <2>1, <1>c DEF Reclaim
    <3>2. Stalled(StageOf(v)) \subseteq 1 .. Len(log[StageOf(v)])
      BY DEF Stalled, IdleEntries, StreamTypeOK
    <3> QED
      BY <2>1, <1>c, <3>1, <3>2 DEF Reclaim, Reclaimed, FromLog
  <2>2. CASE Consume(w)
    <3>1. cursor[StageOf(w)] + 1 \in 1 .. Len(log[StageOf(w)])
      BY <2>2, XreadGroupType DEF Consume
    <3> QED
      BY <2>2, <3>1, <1>c DEF Consume, FromLog
  <2>3. CASE HandleRaises(w) \/ Acknowledge(w)
    BY <2>3, <1>e DEF HandleRaises, Acknowledge
  <2>4. CASE \/ MarkExhausted(w) \/ DeadLetter(w) \/ CheckCancelled(w)
             \/ EnterStage(w) \/ RecordDns(w) \/ RecordHttp(w) \/ Summarise(w)
             \/ Conclude(w) \/ AnalysisFails(w) \/ LinkEntities(w)
             \/ PayloadMalformed(w) \/ Reject(w) \/ Finish(w) \/ PublishNext(w)
    BY <2>4, <1>b DEF MarkExhausted, DeadLetter, CheckCancelled, EnterStage,
       RecordDns, RecordHttp, Summarise, Conclude, AnalysisFails, LinkEntities,
       PayloadMalformed, Reject, Finish, PublishNext
  <2>5. CASE NothingStalled(w) \/ ConsumeTimesOut(w)
    BY <2>5, <1>b DEF NothingStalled, ConsumeTimesOut
  <2> QED
    BY <1>2, <2>1, <2>2, <2>3, <2>4, <2>5 DEF Work, WorkerStep, TaskStep
<1>3. ASSUME NEW w \in Worker, Crash(w)
      PROVE  Old(v)
  BY <1>3, <1>d DEF Crash, Die
<1>4. CASE Sweep \/ AbortSweep
  BY <1>4, <1>a DEF Sweep, AbortSweep
<1>5. ASSUME NEW s \in Stage, NEW n,
             AbandonedEntryIdles(s, n) \/ HeldEntryIdles(s, n)
      PROVE  Old(v)
  BY <1>5, <1>a DEF AbandonedEntryIdles, HeldEntryIdles
<1>6. CASE UNCHANGED vars
  BY <1>6, <1>a DEF vars
<1> QED
  BY <1>1, <1>2, <1>3, <1>4, <1>5, <1>6 DEF Next

LEMMA HeldStayReady ==
  ASSUME GroundingInv, [Next]_vars
  PROVE  HeldReady'
<1> USE StageFacts DEF GroundingInv
<1>1. ASSUME NEW v \in Worker, NEW t \in HeldTasks(v)'
      PROVE  ReadyAfter(StageOf(v), t.inv)
  <2>1. CASE t \in HeldTasks(v)
    <3>1. t.inv \in Inv
      BY <2>1 DEF HeldTasks, TypeOK, WorkersTypeOK, Task
    <3> QED
      BY <2>1, <3>1, ReadyStays DEF HeldReady
  <2>2. ASSUME NEW n \in 1 .. Len(log[StageOf(v)]), t.inv = log[StageOf(v)][n]
        PROVE  ReadyAfter(StageOf(v), t.inv)
    <3>1. t.inv \in Inv
      BY <2>2 DEF TypeOK, StreamTypeOK
    <3> QED
      BY <2>2, <3>1, ReadyStays DEF LogsReady
  <2> QED
    BY <2>1, <2>2, HeldComeFromLogs
<1> QED
  BY <1>1 DEF HeldReady, ReadyAfter, ReadyFor, Reached, StageOf

LEMMA SweepStaysReady ==
  ASSUME GroundingInv, [Next]_vars
  PROVE  SweepReady'
<1> USE DEF GroundingInv
<1>a. ASSUME NEW r \in SweepRow
      PROVE  r.inv \in Inv /\ r.status \in Active /\ RecoveryStream(r.status) \in Stage
  BY <1>a DEF SweepRow, RecoveryStream, Stage, Active
<1>1. \A r \in backlog' \cup touched' :
         \/ r \in backlog \cup touched
         \/ \E i \in StaleRows : r = [inv |-> i, status |-> status[i]]
  <2>1. UNCHANGED sweeper => backlog' \cup touched' = backlog \cup touched
    BY DEF sweeper
  <2>2. CASE Sweep \/ AbortSweep
    BY <2>2 DEF Sweep, SweepStep, SweepFetch, SweepTouch, SweepPublish, AbortSweep,
       SweepAborts
  <2>3. CASE ~(Sweep \/ AbortSweep)
    <3>1. UNCHANGED sweeper
      BY <2>3 DEF Next, vars, Request, StalledRowAges, BusyRowAges, Work, Crash,
         AbandonedEntryIdles, HeldEntryIdles
    <3> QED
      BY <2>1, <3>1
  <2> QED
    BY <2>2, <2>3
<1>2. ASSUME NEW r \in backlog' \cup touched'
      PROVE  ReadyAfter(RecoveryStream(r.status), r.inv)
  <2>1. CASE r \in backlog \cup touched
    <3>1. r \in SweepRow
      BY <2>1 DEF TypeOK, SweeperTypeOK
    <3> QED
      BY <2>1, <3>1, <1>a, ReadyStays DEF SweepReady
  <2>2. ASSUME NEW i \in StaleRows, r = [inv |-> i, status |-> status[i]]
        PROVE  ReadyAfter(RecoveryStream(r.status), r.inv)
    <3>1. i \in Inv /\ status[i] \in Active /\ RowReady(i)
      BY DEF StaleRows, RowsReady
    <3>2. RecoveryStream(status[i]) \in Stage
      BY <3>1 DEF RecoveryStream, Active, Stage
    <3>3. ReadyFor(RecoveryStream(status[i]), i)
      BY <3>1 DEF RecoveryStream, Active, ReadyFor, RowReady, Reached, Status
    <3> QED
      BY <2>2, <3>1, <3>2, <3>3, ReadyStays
  <2> QED
    BY <1>1, <2>1, <2>2
<1> QED
  BY <1>2 DEF SweepReady, ReadyAfter, ReadyFor, Reached, RecoveryStream

LEMMA ApiStaysReady ==
  ASSUME GroundingInv, [Next]_vars
  PROVE  ApiReady'
<1> SUFFICES ASSUME NEW i \in Inv, api'[i] # "none" PROVE status'[i] # "absent"
  BY DEF ApiReady
<1> USE DEF GroundingInv, TypeOK
<1>1. CASE status[i] # "absent"
  <2>1. "enrich" \in Stage /\ status[i] \in Reached("enrich")
    BY <1>1 DEF RowsTypeOK, Reached, Stage
  <2>2. status'[i] \in Reached("enrich")
    BY <2>1, LegalStep, ReachedStays
  <2> QED
    BY <2>2 DEF Reached, Status, Active, Terminal
<1>2. CASE status[i] = "absent"
  <2>1. api[i] = "none"
    BY <1>2 DEF ApiReady
  <2>2. api' # api
    BY <2>1
  <2>3. PICK j \in Inv : Submit(j) \/ PublishFirst(j) \/ PublishFails(j)
    BY <2>2 DEF Next, vars, Request, Cancel, StalledRowAges, BusyRowAges, Work, Crash,
       Sweep, AbortSweep, AbandonedEntryIdles, HeldEntryIdles
  <2>4. Submit(i)
    BY <2>1, <2>3 DEF Submit, PublishFirst, PublishFails, ApiTypeOK
  <2> QED
    BY <1>2, <2>4 DEF Submit, Insert, MoveTo, RowsTypeOK
<1> QED
  BY <1>1, <1>2

(* A worker that does not move stays where it is entitled to be.           *)
LEMMA StepStays ==
  ASSUME GroundingInv, [Next]_vars, NEW v \in Worker,
         pc'[v] = pc[v], task'[v] = task[v]
  PROVE  StepReady(v)'
<1> USE DEF GroundingInv
<1> DEFINE s == StageOf(v)
           i == task[v].inv
<1>1. CASE pc[v] \in {"poll", "read"}
  BY <1>1 DEF StepReady
<1>2. CASE pc[v] \notin {"poll", "read"}
  <2>1. i \in Inv /\ s \in Stage /\ NextStream(s) \in Stage
    BY <1>2, StageFacts DEF TypeOK, WorkersTypeOK, Task
  <2>2. StepReady(v)
    BY DEF StepsReady
  <2>3. ReadyFor(NextStream(s), i) => ReadyAfter(NextStream(s), i)
    BY <2>1, ReadyStays
  <2>4. status[i] \in Reached(NextStream(s)) => status'[i] \in Reached(NextStream(s))
    BY <2>1, LegalStep, ReachedStays DEF TypeOK
  <2>5. evidence[i] \subseteq evidence'[i] /\ (linked[i] => linked'[i])
    BY <2>1, RowsGrow
  <2> QED
    BY <2>2, <2>3, <2>4, <2>5
       DEF StepReady, ReadyFor, ReadyAfter, Reached, NextStream, StageOf
<1> QED
  BY <1>1, <1>2

(* Steps at which a worker claims nothing of its investigation yet, or no  *)
(* longer.                                                                 *)
QuietSteps == {"poll", "read", "begin", "enter", "reject", "dlq", "ack"}

LEMMA QuietIsReady ==
  ASSUME NEW w \in Worker, pc'[w] \in QuietSteps
  PROVE  StepReady(w)'
BY DEF QuietSteps, StepReady

LEMMA StepsStayReady ==
  ASSUME GroundingInv, [Next]_vars
  PROVE  StepsReady'
<1> SUFFICES ASSUME NEW v \in Worker PROVE StepReady(v)'
  BY DEF StepsReady
<1> USE StageFacts DEF GroundingInv
<1>a. WorkersTypeOK /\ RowsTypeOK
  BY DEF TypeOK
<1>b. UNCHANGED workers => StepReady(v)'
  BY StepStays DEF workers
<1>c. ASSUME NEW w \in Worker, NEW l \in QuietSteps, Goto(w, l)
      PROVE  StepReady(v)'
  BY <1>a, <1>c, StepStays, QuietIsReady DEF Goto, WorkersTypeOK
<1>d. ASSUME NEW w \in Worker, NEW tasks, WorkOn(w, tasks)
      PROVE  StepReady(v)'
  BY <1>a, <1>d, StepStays, QuietIsReady DEF WorkOn, WorkersTypeOK, QuietSteps
<1>e. ASSUME NEW w \in Worker, Idle(w)
      PROVE  StepReady(v)'
  BY <1>a, <1>e, StepStays, QuietIsReady DEF Idle, WorkersTypeOK, QuietSteps
<1>f. ASSUME NEW w \in Worker, NEW l, Goto(w, l)
      PROVE  /\ v # w => StepReady(v)'
             /\ pc'[w] = l /\ task' = task
  BY <1>a, <1>f, StepStays DEF Goto, WorkersTypeOK
<1>1. ASSUME NEW i \in Inv, Request(i) \/ StalledRowAges(i) \/ BusyRowAges(i)
      PROVE  StepReady(v)'
  BY <1>1, <1>b DEF Request, StalledRowAges, BusyRowAges
<1>2. ASSUME NEW w \in Worker, Work(w)
      PROVE  StepReady(v)'
  <2> DEFINE s == StageOf(w)
             i == task[w].inv
  <2>a. StepReady(w)
    BY DEF StepsReady
  <2>b. pc[w] \notin {"poll", "read"} => i \in Inv /\ s \in Stage /\ ReadyFor(s, i)
    BY <1>a DEF WorkersTypeOK, Task, HeldReady, HeldTasks
  <2>1. CASE Reclaim(w) \/ Consume(w)
    BY <2>1, <1>d DEF Reclaim, Consume
  <2>2. CASE \/ NothingStalled(w) \/ ConsumeTimesOut(w) \/ MarkExhausted(w)
             \/ DeadLetter(w) \/ CheckCancelled(w) \/ AnalysisFails(w)
             \/ PayloadMalformed(w) \/ Reject(w) \/ Finish(w) \/ PublishNext(w)
    BY <2>2, <1>c DEF NothingStalled, ConsumeTimesOut, MarkExhausted, DeadLetter,
       CheckCancelled, AnalysisFails, PayloadMalformed, Reject, Finish, PublishNext,
       QuietSteps
  <2>3. CASE HandleRaises(w) \/ Acknowledge(w)
    BY <2>3, <1>d, <1>e DEF HandleRaises, Acknowledge, TakeNext
  <2>4. CASE EnterStage(w)
    <3>1. CASE status[i] \notin Entry(s)
      BY <2>4, <3>1, <1>c DEF EnterStage, QuietSteps
    <3>2. CASE status[i] \in Entry(s)
      <4>1. /\ Goto(w, FirstStep(s))
            /\ i \in Inv /\ s \in Stage
            /\ status'[i] = Working(s)
        BY <2>4, <2>b, <3>2, <1>a
           DEF EnterStage, AdvanceOrResume, MoveTo, Entry, RowsTypeOK
      <4>2. pc'[w] = FirstStep(s) /\ task'[w] = task[w]
        BY <4>1, <1>f
      <4>3. StepReady(w)'
        <5>1. CASE s = "enrich"
          BY <4>1, <4>2, <5>1 DEF StepReady, FirstStep, Working, Reached, NextStream,
             Status, Active, Terminal, StageOf
        <5>2. CASE s = "analyze"
          BY <4>1, <4>2, <5>2 DEF StepReady, FirstStep, Working, Reached, NextStream,
             Status, Active, Terminal, StageOf
        <5>3. CASE s = "correlate"
          BY <4>1, <4>2, <5>3 DEF StepReady, FirstStep, StageOf
        <5> QED
          BY <4>1, <5>1, <5>2, <5>3 DEF Stage
      <4> QED
        BY <4>1, <4>3, <1>f
    <3> QED
      BY <3>1, <3>2
  <2>5. CASE RecordDns(w)
    <3>1. /\ i \in Inv /\ s = "enrich" /\ pc'[w] = "http" /\ task'[w] = task[w]
          /\ status' = status /\ "dns" \in evidence'[i]
          /\ status[i] \in Reached(NextStream(s))
      BY <2>5, <2>a, <2>b, <1>a, <1>f
         DEF RecordDns, SaveObservation, StepReady, RowsTypeOK
    <3>2. StepReady(w)'
      BY <3>1 DEF StepReady, StageOf, Reached, NextStream
    <3> QED
      BY <2>5, <3>2, <1>f DEF RecordDns
  <2>6. CASE RecordHttp(w)
    <3>1. /\ i \in Inv /\ s = "enrich" /\ pc'[w] = "summary" /\ task'[w] = task[w]
          /\ status' = status /\ {"dns", "http"} \subseteq evidence'[i]
          /\ status[i] \in Reached(NextStream(s))
      BY <2>6, <2>a, <2>b, <1>a, <1>f
         DEF RecordHttp, SaveObservation, StepReady, RowsTypeOK
    <3>2. StepReady(w)'
      BY <3>1 DEF StepReady, StageOf, Reached, NextStream
    <3> QED
      BY <2>6, <3>2, <1>f DEF RecordHttp
  <2>7. CASE Summarise(w)
    <3>1. /\ i \in Inv /\ s = "enrich" /\ pc'[w] = "publish" /\ task'[w] = task[w]
          /\ status' = status /\ evidence' = evidence /\ marked'[i]
          /\ evidence[i] = Source
          /\ status[i] \in Reached("analyze")
      BY <2>7, <2>a, <2>b, <1>a, <1>f
         DEF Summarise, SetEnrichmentStatus, StepReady, RowsTypeOK, NextStream, Source
    <3>2. StepReady(w)'
      BY <3>1 DEF StepReady, StageOf, Reached, NextStream, ReadyFor
    <3> QED
      BY <2>7, <3>2, <1>f DEF Summarise
  <2>8. CASE Conclude(w)
    <3>1. /\ i \in Inv /\ s = "analyze" /\ pc'[w] = "publish" /\ task'[w] = task[w]
          /\ UNCHANGED <<status, evidence, marked>>
          /\ evidence[i] = Source /\ marked[i] /\ result'[i] # {}
          /\ status[i] \in Reached("correlate")
      BY <2>8, <2>a, <2>b, <1>a, <1>f
         DEF Conclude, PersistResult, Grounded, StepReady, ReadyFor, RowsTypeOK, NextStream
    <3>2. StepReady(w)'
      BY <3>1 DEF StepReady, StageOf, Reached, NextStream, ReadyFor
    <3> QED
      BY <2>8, <3>2, <1>f DEF Conclude
  <2>9. CASE LinkEntities(w)
    <3>1. /\ i \in Inv /\ s = "correlate" /\ pc'[w] = "finish" /\ task'[w] = task[w]
          /\ linked'[i]
      BY <2>9, <2>a, <2>b, <1>a, <1>f
         DEF LinkEntities, CreateRelationships, StepReady, RowsTypeOK
    <3>2. StepReady(w)'
      BY <3>1 DEF StepReady, StageOf
    <3> QED
      BY <2>9, <3>2, <1>f DEF LinkEntities
  <2> QED
    BY <1>2, <2>1, <2>2, <2>3, <2>4, <2>5, <2>6, <2>7, <2>8, <2>9
       DEF Work, WorkerStep, TaskStep
<1>3. ASSUME NEW w \in Worker, Crash(w)
      PROVE  StepReady(v)'
  BY <1>3, <1>e DEF Crash, Die
<1>4. CASE Sweep \/ AbortSweep
  BY <1>4, <1>b DEF Sweep, AbortSweep
<1>5. ASSUME NEW u \in Stage, NEW n,
             AbandonedEntryIdles(u, n) \/ HeldEntryIdles(u, n)
      PROVE  StepReady(v)'
  BY <1>5, <1>b DEF AbandonedEntryIdles, HeldEntryIdles
<1>6. CASE UNCHANGED vars
  BY <1>6, <1>b DEF vars
<1> QED
  BY <1>1, <1>2, <1>3, <1>4, <1>5, <1>6 DEF Next

-----------------------------------------------------------------------------
(* The theorems.                                                           *)

LEMMA InitGrounding == Init => GroundingInv
<1> SUFFICES ASSUME Init PROVE GroundingInv
  OBVIOUS
<1>1. TypeOK
  BY InitType
<1>2. LogsReady
  BY DEF Init, StreamInit, LogsReady
<1>3. HeldReady /\ StepsReady
  BY DEF Init, WorkersInit, HeldReady, HeldTasks, StepsReady, StepReady
<1>4. SweepReady /\ ApiReady
  BY DEF Init, SweeperInit, ApiInit, SweepReady, ApiReady
<1>5. RowsReady
  BY DEF Init, RowsInit, RowsReady, RowReady
<1> QED
  BY <1>1, <1>2, <1>3, <1>4, <1>5 DEF GroundingInv

LEMMA NextGrounding == GroundingInv /\ [Next]_vars => GroundingInv'
<1> SUFFICES ASSUME GroundingInv, [Next]_vars PROVE GroundingInv'
  OBVIOUS
<1>1. TypeOK'
  BY NextType DEF GroundingInv
<1> QED
  BY <1>1, LogsStayReady, HeldStayReady, SweepStaysReady, ApiStaysReady,
     StepsStayReady, RowsStayReady DEF GroundingInv

(* The invariant the others follow from: what a published task vouches for *)
(* holds, in the streams, in the workers and in the sweeper.               *)
THEOREM GroundingInvariant == Spec => []GroundingInv
BY InitGrounding, NextGrounding, PTL DEF Spec

(* A task is never ahead of its investigation: what advance_or_resume()    *)
(* refuses has moved past the stage or ended.                              *)
THEOREM TasksNeverAhead == Spec => []NoTaskAhead
<1>1. GroundingInv => NoTaskAhead
  BY DEF GroundingInv, LogsReady, NoTaskAhead, ReadyFor
<1> QED
  BY <1>1, GroundingInvariant, PTL

(* Analysis follows evidence, whatever crashes, overlaps or is retried.    *)
THEOREM AnalysisFollowsEvidence == Spec => []EvidencePrecedesAnalysis
<1>1. GroundingInv => EvidencePrecedesAnalysis
  BY DEF GroundingInv, RowsReady, RowReady, EvidencePrecedesAnalysis
<1> QED
  BY <1>1, GroundingInvariant, PTL

(* No investigation is let past analysis without a stored result that      *)
(* cites its own observations, and none is complete without its edges.     *)
THEOREM ConclusionsAreGrounded == Spec => []ConclusionIsGrounded
<1>1. GroundingInv => ConclusionIsGrounded
  BY DEF GroundingInv, RowsReady, RowReady, ConclusionIsGrounded, Grounded, TypeOK,
     RowsTypeOK
<1> QED
  BY <1>1, GroundingInvariant, PTL

(* The pipeline implements the abstract life cycle: each status starts     *)
(* absent and changes only along VALID_TRANSITIONS.                        *)
THEOREM PipelineImplementsLifecycle == Spec => ImplementsLifecycle
<1>1. Init => Life!Init
  BY DEF Init, RowsInit, Life!Init
<1>2. GroundingInv /\ [Next]_vars => [Life!Next]_status
  BY LegalStep DEF GroundingInv
<1> QED
  BY <1>1, <1>2, GroundingInvariant, PTL DEF Spec, Life!Spec, ImplementsLifecycle

(* The pipeline implements the promise of its verdicts: they are grounded  *)
(* when stored, and final, whatever is retried or overlaps.                *)
THEOREM PipelineImplementsVerdict == Spec => ImplementsVerdict
<1> DEFINE Promise == [Verdicts!Next]_<<evidence, result>>
<1>1. Init => Verdicts!Init
  BY DEF Init, RowsInit, Verdicts!Init
<1>2. ASSUME TypeOK, [Next]_vars
      PROVE  Promise
  <2> USE <1>2 DEF TypeOK, RowsTypeOK
  <2>a. UNCHANGED <<evidence, result>> => Promise
    OBVIOUS
  <2>b. ASSUME NEW i \in Inv, NEW from, NEW target, MoveTo(i, from, target)
        PROVE  UNCHANGED <<evidence, result>>
    BY <2>b DEF MoveTo
  <2>c. UNCHANGED rows => UNCHANGED <<evidence, result>>
    BY DEF rows
  <2>d. ASSUME NEW i \in Inv, NEW source \in Source, SaveObservation(i, source)
        PROVE  Promise
    BY <2>d DEF SaveObservation, Verdicts!Next, Verdicts!Collect
  <2>e. ASSUME NEW i \in Inv, NEW cited, Grounded(i, cited), PersistResult(i, cited)
        PROVE  Promise
    <3>1. CASE result[i] = {}
      BY <2>e, <3>1 DEF PersistResult, Grounded, Verdicts!Next, Verdicts!Decide
    <3>2. CASE result[i] # {}
      BY <2>e, <3>2 DEF PersistResult
    <3> QED
      BY <3>1, <3>2
  <2>f. ASSUME NEW w \in Worker, pc[w] \notin {"poll", "read"}
        PROVE  task[w].inv \in Inv
    BY <2>f DEF WorkersTypeOK, Task
  <2> HIDE DEF Promise
  <2>1. ASSUME NEW i \in Inv, Request(i)
        PROVE  Promise
    BY <2>1, <2>a, <2>b, <2>c DEF Request, Submit, Insert, PublishFirst, PublishFails,
       Cancel, MarkCancelled
  <2>2. ASSUME NEW i \in Inv, StalledRowAges(i) \/ BusyRowAges(i)
        PROVE  Promise
    BY <2>2, <2>a DEF StalledRowAges, BusyRowAges, Age
  <2>3. ASSUME NEW w \in Worker, Work(w)
        PROVE  Promise
    <3>1. CASE MarkExhausted(w) \/ Reject(w)
      BY <3>1, <2>a, <2>b, <2>f DEF MarkExhausted, Reject, MarkFailed
    <3>2. CASE EnterStage(w) \/ Finish(w)
      BY <3>2, <2>a, <2>b, <2>f DEF EnterStage, AdvanceOrResume, Finish, Advance
    <3>3. CASE RecordDns(w) \/ RecordHttp(w)
      BY <3>3, <2>d, <2>f DEF RecordDns, RecordHttp, Source
    <3>4. CASE Conclude(w)
      BY <3>4, <2>e, <2>f DEF Conclude
    <3>5. CASE AnalysisFails(w)
      BY <3>5, <2>a, <2>c, <2>e, <2>f DEF AnalysisFails
    <3>6. CASE Summarise(w) \/ LinkEntities(w)
      BY <3>6, <2>a DEF Summarise, SetEnrichmentStatus, LinkEntities,
         CreateRelationships
    <3>7. CASE \/ DeadLetter(w) \/ CheckCancelled(w) \/ PayloadMalformed(w)
               \/ HandleRaises(w) \/ PublishNext(w) \/ Acknowledge(w)
      BY <3>7, <2>a, <2>c DEF DeadLetter, CheckCancelled, PayloadMalformed,
         HandleRaises, PublishNext, Acknowledge
    <3>8. CASE Reclaim(w) \/ NothingStalled(w) \/ Consume(w) \/ ConsumeTimesOut(w)
      BY <3>8, <2>a, <2>c DEF Reclaim, NothingStalled, Consume, ConsumeTimesOut
    <3> QED
      BY <2>3, <3>1, <3>2, <3>3, <3>4, <3>5, <3>6, <3>7, <3>8
         DEF Work, WorkerStep, TaskStep
  <2>4. ASSUME NEW w \in Worker, Crash(w)
        PROVE  Promise
    BY <2>4, <2>a, <2>c DEF Crash, Die
  <2>5. CASE Sweep \/ AbortSweep
    BY <2>5, <2>a, <2>c DEF Sweep, SweepStep, SweepFetch, SweepTouch, SweepPublish,
       Touch, AbortSweep, SweepAborts
  <2>6. ASSUME NEW s \in Stage, NEW n,
               AbandonedEntryIdles(s, n) \/ HeldEntryIdles(s, n)
        PROVE  Promise
    BY <2>6, <2>a, <2>c DEF AbandonedEntryIdles, HeldEntryIdles
  <2>7. CASE UNCHANGED vars
    BY <2>7, <2>a, <2>c DEF vars
  <2> QED
    BY <2>1, <2>2, <2>3, <2>4, <2>5, <2>6, <2>7 DEF Next
<1> QED
  BY <1>1, <1>2, TypeCorrect, PTL DEF Spec, Verdicts!Spec, ImplementsVerdict

=============================================================================
