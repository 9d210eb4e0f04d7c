------------------------- MODULE ConsumerGroupProofs -------------------------
(***************************************************************************)
(* For any number of workers, jobs, entries, faults and overruns, whatever *)
(* the limits: an entry stops being pending only when its job is settled,  *)
(* has one holder unless it outlived the threshold in somebody's hands,    *)
(* and is tried as often as the limit says before it is given up.          *)
(***************************************************************************)
EXTENDS ConsumerGroup, FiniteSetTheorems, SequenceTheorems, TLAPS

NoTaskSteps == {"down", "poll", "claim", "read"}

TaskSteps == {"begin", "work", "dlq", "ack"}

(* The stream and its group.                                               *)
RedisTypeOK ==
  /\ entries \in Seq(Job) /\ Len(entries) <= MaxEntries
  /\ lost \in 0 .. Len(entries)
  /\ group \in BOOLEAN
  /\ cursor \in lost .. Len(entries)
  /\ DOMAIN pending \subseteq lost + 1 .. cursor
  /\ pending \in [DOMAIN pending -> [count : Nat, idle : BOOLEAN]]
  /\ dead \subseteq Entry

(* The workers.                                                            *)
LoopTypeOK ==
  /\ pc \in [Consumer -> NoTaskSteps \cup TaskSteps]
  /\ listed \in [Consumer -> SUBSET Listing]
  /\ batch \in [Consumer -> SUBSET Task]
  /\ task \in [Consumer -> Task \cup {NoTask}]
  /\ \A c \in Consumer : task[c] = NoTask <=> pc[c] \in NoTaskSteps

CountersTypeOK ==
  /\ settled \subseteq Job
  /\ tried \in [Entry -> Nat]
  /\ faults \in 0 .. MaxFaults
  /\ overruns \in 0 .. MaxOverruns

LEMMA TypeOKInParts ==
  /\ TypeOK <=> RedisTypeOK /\ LoopTypeOK /\ CountersTypeOK
  /\ TypeOK' <=> RedisTypeOK' /\ LoopTypeOK' /\ CountersTypeOK'
BY DEF TypeOK, RedisTypeOK, LoopTypeOK, CountersTypeOK, NoTaskSteps, TaskSteps

-----------------------------------------------------------------------------
(* The pieces the actions are made of.                                     *)

LEMMA NoTaskIsNoTask == NoTask \notin Task
BY NoTaskIsNone, ConsumerGroupAssumption DEF Task, Entry

LEMMA DropKeepsLoop ==
  ASSUME LoopTypeOK, NEW c \in Consumer, NEW next \in {"down", "poll"}, Drop(c, next)
  PROVE  LoopTypeOK'
BY DEF LoopTypeOK, Drop, NoTaskSteps, TaskSteps

LEMMA WorkOnKeepsLoop ==
  ASSUME LoopTypeOK, NEW c \in Consumer, NEW tasks \in SUBSET Task, WorkOn(c, tasks)
  PROVE  LoopTypeOK'
<1>1. CASE Drop(c, "poll")
  BY <1>1, DropKeepsLoop
<1>2. CASE \E t \in tasks :
             /\ task' = [task EXCEPT ![c] = t]
             /\ batch' = [batch EXCEPT ![c] = tasks \ {t}]
             /\ pc' = [pc EXCEPT ![c] = "begin"]
             /\ UNCHANGED listed
  BY <1>2, NoTaskIsNoTask DEF LoopTypeOK, NoTaskSteps, TaskSteps
<1> QED BY <1>1, <1>2 DEF WorkOn

(* A worker goes from one step with a task to the next.                    *)
LEMMA ProgressKeepsLoop ==
  ASSUME LoopTypeOK, NEW c \in Consumer, pc[c] \in TaskSteps,
         NEW next \in TaskSteps, pc' = [pc EXCEPT ![c] = next],
         UNCHANGED <<listed, batch, task>>
  PROVE  LoopTypeOK'
BY DEF LoopTypeOK, NoTaskSteps, TaskSteps

LEMMA XaddKeepsRedis ==
  ASSUME RedisTypeOK, NEW j \in Job, Xadd(j)
  PROVE  /\ RedisTypeOK'
         /\ Len(entries') = Len(entries) + 1
         /\ \A n \in 1 .. Len(entries) : entries'[n] = entries[n]
<1>1. /\ entries' \in Seq(Job) /\ Len(entries') = Len(entries) + 1
      /\ \A n \in 1 .. Len(entries) : entries'[n] = entries[n]
  BY AppendProperties DEF RedisTypeOK, Xadd
<1> QED BY <1>1, ConsumerGroupAssumption DEF RedisTypeOK, Xadd

LEMMA XreadGroupKeepsRedis ==
  ASSUME RedisTypeOK, XreadGroup
  PROVE  /\ RedisTypeOK'
         /\ cursor' = cursor + 1 /\ cursor + 1 \in Entry /\ cursor' <= Len(entries)
<1>1. cursor \in Nat /\ Len(entries) \in Nat /\ cursor < Len(entries)
  BY DEF RedisTypeOK, XreadGroup, Undelivered
<1>2. DOMAIN pending' = DOMAIN pending \cup {cursor + 1}
  BY DEF XreadGroup
<1>3. pending' \in [DOMAIN pending' -> [count : Nat, idle : BOOLEAN]]
  BY <1>2 DEF RedisTypeOK, XreadGroup
<1> QED BY <1>1, <1>2, <1>3, ConsumerGroupAssumption DEF RedisTypeOK, XreadGroup, Entry

LEMMA XclaimKeepsRedis ==
  ASSUME RedisTypeOK, NEW n \in DOMAIN pending, Xclaim(n)
  PROVE  RedisTypeOK'
BY DEF RedisTypeOK, Xclaim

LEMMA XackKeepsRedis ==
  ASSUME RedisTypeOK, NEW n, Xack(n)
  PROVE  RedisTypeOK'
BY DEF RedisTypeOK, Xack

LEMMA PendingAreEntries ==
  ASSUME RedisTypeOK, NEW n \in DOMAIN pending
  PROVE  n \in Entry /\ pending[n].count \in Nat /\ pending[n].idle \in BOOLEAN /\ n <= cursor
BY ConsumerGroupAssumption DEF RedisTypeOK, Entry

-----------------------------------------------------------------------------
(* Type correctness.                                                       *)

(* What types rest on: nothing is pending in a group yet to be created,    *)
(* and workers know entries only that were delivered.                      *)
GroupStartsAfresh == ~group => cursor = lost

Known(c) ==
  /\ \A t \in Held(c) : t.id <= cursor
  /\ \A l \in listed[c] : l.id <= cursor

TasksAreDelivered == \A c \in Consumer : Known(c)

LEMMA TypesStart == Init => TypeOK
<1> SUFFICES ASSUME Init PROVE TypeOK
  OBVIOUS
<1>1. RedisTypeOK
  BY EmptySeq, ConsumerGroupAssumption DEF Init, RedisTypeOK, NothingPending
<1>2. LoopTypeOK
  BY DEF Init, LoopTypeOK, NoTaskSteps, TaskSteps
<1>3. CountersTypeOK
  BY ConsumerGroupAssumption DEF Init, CountersTypeOK
<1> QED BY <1>1, <1>2, <1>3, TypeOKInParts

LEMMA PublishingKeepsTypes ==
  ASSUME TypeOK, NEW j \in Job, Publish(j) \/ Republish(j)
  PROVE  TypeOK'
<1>1. RedisTypeOK'
  BY XaddKeepsRedis, TypeOKInParts DEF Publish, Republish
<1>2. UNCHANGED <<settled, loop, tried, counters>>
  BY DEF Publish, Republish
<1> QED BY <1>1, <1>2, TypeOKInParts DEF LoopTypeOK, CountersTypeOK, loop, counters

LEMMA TakingKeepsTypes ==
  ASSUME TypeOK, GroupStartsAfresh, NEW c \in Consumer,
         \/ Start(c) \/ ListPending(c) \/ ClaimNext(c) \/ Reclaimed(c)
         \/ Read(c) \/ ReadTimesOut(c) \/ NoGroup(c)
  PROVE  TypeOK'
<1> USE TypeOKInParts
<1>1. CASE Start(c)
  <2>1. RedisTypeOK'
    BY <1>1 DEF Start, XgroupCreate, RedisTypeOK, GroupStartsAfresh
  <2>2. LoopTypeOK'
    BY <1>1, DropKeepsLoop DEF Start
  <2> QED BY <1>1, <2>1, <2>2 DEF Start, CountersTypeOK, counters
<1>2. CASE ListPending(c)
  <2>1. {[id |-> n, delivered |-> pending[n].count] : n \in Stalled} \subseteq Listing
    <3> SUFFICES ASSUME NEW n \in Stalled
                 PROVE  [id |-> n, delivered |-> pending[n].count] \in Listing
      OBVIOUS
    <3>1. n \in DOMAIN pending
      BY DEF Stalled, Idle
    <3>2. n \in Entry /\ pending[n].count \in Nat
      BY <3>1, PendingAreEntries
    <3> QED BY <3>2 DEF Listing
  <2>2. LoopTypeOK'
    BY <1>2, <2>1 DEF ListPending, LoopTypeOK, NoTaskSteps, TaskSteps
  <2> QED BY <1>2, <2>2 DEF ListPending, RedisTypeOK, CountersTypeOK, redis, counters
<1>3. CASE ClaimNext(c)
  <2>1. PICK l \in listed[c] :
          /\ listed' = [listed EXCEPT ![c] = @ \ {l}]
          /\ IF Claimable(l.id)
             THEN Xclaim(l.id) /\ batch' = [batch EXCEPT ![c] = @ \cup {Claimed(l)}]
             ELSE UNCHANGED <<redis, batch>>
    BY <1>3 DEF ClaimNext
  <2>2. l \in Listing /\ Claimed(l) \in Task
    BY <2>1 DEF LoopTypeOK, Listing, Claimed, Task
  <2>3. RedisTypeOK'
    BY <2>1, XclaimKeepsRedis DEF Claimable, RedisTypeOK, redis
  <2>4. LoopTypeOK'
    BY <1>3, <2>1, <2>2 DEF ClaimNext, LoopTypeOK, NoTaskSteps, TaskSteps
  <2> QED BY <1>3, <2>3, <2>4 DEF ClaimNext, CountersTypeOK, counters
<1>4. CASE Reclaimed(c)
  <2>1. LoopTypeOK'
    <3>1. batch[c] \in SUBSET Task
      BY DEF LoopTypeOK
    <3>2. CASE batch[c] = {}
      BY <1>4, <3>2 DEF Reclaimed, LoopTypeOK, NoTaskSteps, TaskSteps
    <3>3. CASE batch[c] # {}
      BY <1>4, <3>1, <3>3, WorkOnKeepsLoop DEF Reclaimed
    <3> QED BY <3>2, <3>3
  <2> QED BY <1>4, <2>1 DEF Reclaimed, RedisTypeOK, CountersTypeOK, redis, counters
<1>5. CASE Read(c)
  <2>1. RedisTypeOK' /\ cursor + 1 \in Entry
    BY <1>5, XreadGroupKeepsRedis DEF Read
  <2>2. {[id |-> cursor + 1, attempt |-> 1]} \in SUBSET Task
    BY <2>1 DEF Task
  <2>3. LoopTypeOK'
    BY <1>5, <2>2, WorkOnKeepsLoop DEF Read
  <2> QED BY <1>5, <2>1, <2>3 DEF Read, CountersTypeOK, counters
<1>6. CASE ReadTimesOut(c)
  BY <1>6, DropKeepsLoop DEF ReadTimesOut, RedisTypeOK, CountersTypeOK, redis, counters
<1>7. CASE NoGroup(c)
  BY <1>7, DropKeepsLoop DEF NoGroup, RedisTypeOK, CountersTypeOK, redis, counters
<1> QED BY <1>1, <1>2, <1>3, <1>4, <1>5, <1>6, <1>7

LEMMA TaskIsHeld ==
  ASSUME TypeOK, NEW c \in Consumer, pc[c] \in TaskSteps
  PROVE  task[c] \in Task /\ task[c].id \in Entry /\ batch[c] \in SUBSET Task
BY TypeOKInParts DEF LoopTypeOK, NoTaskSteps, TaskSteps, Task

LEMMA JobIsKnown ==
  ASSUME TypeOK, NEW c \in Consumer, pc[c] \in TaskSteps, Known(c)
  PROVE  task[c].id \in 1 .. cursor /\ task[c].id \in 1 .. Len(entries) /\ JobOf(c) \in Job
<1>1. task[c] \in Task /\ task[c].id \in Nat \ {0} /\ task[c] \in Held(c)
  BY TaskIsHeld, NoTaskIsNoTask, ConsumerGroupAssumption DEF Held, Entry
<1> QED BY <1>1, TypeOKInParts DEF RedisTypeOK, JobOf, Known

LEMMA ProcessingKeepsTypes ==
  ASSUME TypeOK, NEW c \in Consumer, Known(c),
         \/ GiveUp(c) \/ Skip(c) \/ Enter(c) \/ Succeed(c) \/ HandleRaises(c)
         \/ DeadLetter(c) \/ Acknowledge(c)
  PROVE  TypeOK'
<1> USE TypeOKInParts
<1>0. pc[c] \in TaskSteps
  BY DEF GiveUp, Skip, Enter, Succeed, HandleRaises, DeadLetter, Acknowledge, TaskSteps
<1>1. task[c] \in Task /\ task[c].id \in Entry /\ batch[c] \in SUBSET Task /\ JobOf(c) \in Job
  BY <1>0, TaskIsHeld, JobIsKnown, NoTaskIsNoTask
<1>2. LoopTypeOK'
  <2>1. CASE HandleRaises(c) \/ Acknowledge(c)
    BY <1>1, <2>1, WorkOnKeepsLoop DEF HandleRaises, Acknowledge
  <2>2. CASE GiveUp(c) \/ Skip(c) \/ Enter(c) \/ Succeed(c) \/ DeadLetter(c)
    BY <1>0, <2>2, ProgressKeepsLoop DEF GiveUp, Skip, Enter, Succeed, DeadLetter, TaskSteps
  <2> QED BY <2>1, <2>2
<1>3. RedisTypeOK'
  <2>1. CASE Acknowledge(c)
    BY <2>1, XackKeepsRedis DEF Acknowledge
  <2>2. CASE DeadLetter(c)
    BY <1>1, <2>2 DEF DeadLetter, RedisTypeOK
  <2>3. CASE UNCHANGED redis
    BY <2>3 DEF redis, RedisTypeOK
  <2> QED BY <2>1, <2>2, <2>3 DEF GiveUp, Skip, Enter, Succeed, HandleRaises
<1>4. CountersTypeOK'
  BY <1>1 DEF CountersTypeOK, counters, GiveUp, Skip, Enter, Succeed, HandleRaises, DeadLetter, Acknowledge
<1> QED BY <1>2, <1>3, <1>4

LEMMA FaultsKeepTypes ==
  ASSUME TypeOK,
         \/ \E c \in Consumer : CommandFails(c) \/ Crash(c)
         \/ \E n \in Entry : AbandonedIdles(n) \/ HeldIdles(n)
         \/ LoseData
  PROVE  TypeOK'
<1> USE TypeOKInParts, ConsumerGroupAssumption
<1>1. ASSUME NEW c \in Consumer, CommandFails(c) PROVE TypeOK'
  <2>1. RedisTypeOK'
    <3>1. ASSUME NEW l \in listed[c], Claimable(l.id), Xclaim(l.id) PROVE RedisTypeOK'
      BY <3>1, XclaimKeepsRedis DEF Claimable
    <3>2. CASE UNCHANGED redis
      BY <3>2 DEF redis, RedisTypeOK
    <3> QED BY <1>1, <3>1, <3>2, XreadGroupKeepsRedis DEF CommandFails
  <2>2. LoopTypeOK'
    BY <1>1, DropKeepsLoop DEF CommandFails
  <2> QED BY <1>1, <2>1, <2>2 DEF CommandFails, CountersTypeOK
<1>2. ASSUME NEW c \in Consumer, Crash(c) PROVE TypeOK'
  BY <1>2, DropKeepsLoop DEF Crash, RedisTypeOK, CountersTypeOK, redis
<1>3. ASSUME NEW n \in Entry, AbandonedIdles(n) \/ HeldIdles(n) PROVE TypeOK'
  <2>1. RedisTypeOK'
    BY <1>3 DEF AbandonedIdles, HeldIdles, PassThreshold, RedisTypeOK
  <2> QED BY <1>3, <2>1 DEF AbandonedIdles, HeldIdles, PassThreshold, LoopTypeOK,
        CountersTypeOK, loop, counters
<1>4. CASE LoseData
  <2>1. RedisTypeOK'
    <3>1. /\ pending' = [n \in {} |-> [count |-> 0, idle |-> FALSE]]
          /\ lost' = Len(entries) /\ cursor' = Len(entries) /\ entries' = entries
          /\ group' = FALSE /\ dead' = {}
      BY <1>4 DEF LoseData, NothingPending
    <3>2. entries \in Seq(Job) /\ Len(entries) <= MaxEntries /\ Len(entries) \in Nat
      BY DEF RedisTypeOK
    <3>3. DOMAIN pending' = {} /\ pending' \in [DOMAIN pending' -> [count : Nat, idle : BOOLEAN]]
      BY <3>1
    <3>4. /\ entries' \in Seq(Job) /\ Len(entries') <= MaxEntries
          /\ lost' \in 0 .. Len(entries') /\ cursor' \in lost' .. Len(entries')
          /\ group' \in BOOLEAN /\ dead' \subseteq Entry
      <4>1. Len(entries') = Len(entries)
        BY <3>1
      <4>2. lost' \in 0 .. Len(entries') /\ cursor' \in lost' .. Len(entries')
        BY <3>1, <3>2, <4>1
      <4>3. entries' \in Seq(Job) /\ Len(entries') <= MaxEntries
        BY <3>1, <3>2, <4>1
      <4>4. group' \in BOOLEAN /\ dead' \subseteq Entry
        BY <3>1
      <4> QED BY <4>2, <4>3, <4>4
    <3> QED BY <3>3, <3>4 DEF RedisTypeOK
  <2> QED BY <1>4, <2>1 DEF LoseData, LoopTypeOK, CountersTypeOK, loop
<1> QED BY <1>1, <1>2, <1>3, <1>4

-----------------------------------------------------------------------------
(* Who holds what.                                                         *)

(* An entry that is pending and idle is as good as held once more: whoever *)
(* claims it next becomes a holder.                                        *)
IdleBit(n) == IF n \in DOMAIN pending /\ pending[n].idle THEN 1 ELSE 0

HoldersAreFew == \A n \in Entry : Cardinality(Holders(n)) + IdleBit(n) <= 1 + overruns

(* The next task is published, or the investigation has ended, before the  *)
(* message is acknowledged.                                                *)
DoneIsSettled == \A c \in Consumer : pc[c] \in {"dlq", "ack"} => JobOf(c) \in settled

GroupInv ==
  /\ TypeOK
  /\ GroupStartsAfresh
  /\ TasksAreDelivered
  /\ DoneIsSettled
  /\ NoneLeftBehind
  /\ HoldersAreFew

LEMMA HoldersAreConsumers ==
  \A n : /\ Holders(n) \subseteq Consumer /\ IsFiniteSet(Holders(n))
         /\ Cardinality(Holders(n)) \in Nat
<1> SUFFICES ASSUME NEW n
             PROVE  /\ Holders(n) \subseteq Consumer /\ IsFiniteSet(Holders(n))
                    /\ Cardinality(Holders(n)) \in Nat
  OBVIOUS
<1>1. Holders(n) \subseteq Consumer
  BY DEF Holders
<1> QED BY <1>1, ConsumersAreFinite, FS_Subset, FS_CardinalityType

LEMMA OneMoreAtMost ==
  ASSUME NEW S, IsFiniteSet(S), NEW c, NEW T, T \subseteq S \cup {c}
  PROVE  Cardinality(T) <= Cardinality(S) + 1 /\ Cardinality(T) \in Nat
<1>1. Cardinality(S) \in Nat
  BY FS_CardinalityType
<1>2. IsFiniteSet(S \cup {c}) /\ Cardinality(S \cup {c}) <= Cardinality(S) + 1
  <2>1. /\ IsFiniteSet(S \cup {c})
        /\ Cardinality(S \cup {c}) = IF c \in S THEN Cardinality(S) ELSE Cardinality(S) + 1
    BY FS_AddElement
  <2> QED BY <1>1, <2>1
<1>3. IsFiniteSet(T) /\ Cardinality(T) <= Cardinality(S \cup {c})
  BY <1>2, FS_Subset
<1>4. Cardinality(T) \in Nat /\ Cardinality(S \cup {c}) \in Nat
  BY <1>2, <1>3, FS_CardinalityType
<1> QED BY <1>1, <1>2, <1>3, <1>4

(* Where no entry gets a holder or turns idle, there are still few.        *)
LEMMA FewStayFew ==
  ASSUME HoldersAreFew, overruns \in Nat, overruns' \in Nat, overruns <= overruns',
         \A n \in Entry : Holders(n)' \subseteq Holders(n) /\ IdleBit(n)' <= IdleBit(n)
  PROVE  HoldersAreFew'
<1> SUFFICES ASSUME NEW n \in Entry
             PROVE  Cardinality(Holders(n)') + IdleBit(n)' <= 1 + overruns'
  BY DEF HoldersAreFew
<1>1. /\ IsFiniteSet(Holders(n)) /\ Holders(n)' \subseteq Holders(n)
      /\ Cardinality(Holders(n)) \in Nat
  BY HoldersAreConsumers
<1>2. Cardinality(Holders(n)') <= Cardinality(Holders(n)) /\ Cardinality(Holders(n)') \in Nat
  BY <1>1, FS_Subset, FS_CardinalityType
<1>3. IdleBit(n) \in Nat /\ IdleBit(n)' \in Nat
  BY DEF IdleBit
<1>4. Cardinality(Holders(n)) + IdleBit(n) <= 1 + overruns /\ IdleBit(n)' <= IdleBit(n)
  BY DEF HoldersAreFew
<1> QED BY <1>1, <1>2, <1>3, <1>4

(* One worker may forget tasks.                                            *)
LEMMA ForgettingShrinks ==
  ASSUME NEW c \in Consumer, Held(c)' \subseteq Held(c),
         \A d \in Consumer \ {c} : Held(d)' = Held(d)
  PROVE  \A n : Holders(n)' \subseteq Holders(n)
BY DEF Holders

(* One worker gets one task.                                               *)
LEMMA TakingAddsOne ==
  ASSUME NEW c \in Consumer, NEW t, Held(c)' \subseteq Held(c) \cup {t},
         \A d \in Consumer \ {c} : Held(d)' = Held(d)
  PROVE  /\ \A n : n # t.id => Holders(n)' \subseteq Holders(n)
         /\ Holders(t.id)' \subseteq Holders(t.id) \cup {c}
BY DEF Holders

LEMMA DropHolds ==
  ASSUME LoopTypeOK, NEW c \in Consumer, NEW next, Drop(c, next)
  PROVE  /\ Held(c)' = {} /\ listed'[c] = {}
         /\ \A d \in Consumer \ {c} : Held(d)' = Held(d) /\ listed'[d] = listed[d]
BY DEF LoopTypeOK, Drop, Held

LEMMA WorkOnHolds ==
  ASSUME LoopTypeOK, NEW c \in Consumer, NEW tasks \in SUBSET Task, WorkOn(c, tasks)
  PROVE  /\ Held(c)' = tasks /\ listed'[c] \subseteq listed[c]
         /\ \A d \in Consumer \ {c} : Held(d)' = Held(d) /\ listed'[d] = listed[d]
         /\ pc'[c] \in {"poll", "begin"}
         /\ \A d \in Consumer \ {c} : pc'[d] = pc[d] /\ task'[d] = task[d]
<1>1. CASE tasks = {} /\ Drop(c, "poll")
  BY <1>1, DropHolds DEF LoopTypeOK, Drop
<1>2. CASE \E t \in tasks :
             /\ task' = [task EXCEPT ![c] = t]
             /\ batch' = [batch EXCEPT ![c] = tasks \ {t}]
             /\ pc' = [pc EXCEPT ![c] = "begin"]
             /\ UNCHANGED listed
  BY <1>2, NoTaskIsNoTask DEF LoopTypeOK, Held
<1> QED BY <1>1, <1>2 DEF WorkOn

-----------------------------------------------------------------------------
(* Every step keeps all parts.                                             *)

LEMMA GroupStarts == Init => GroupInv
<1> SUFFICES ASSUME Init PROVE GroupInv
  OBVIOUS
<1>1. \A c \in Consumer : Held(c) = {} /\ listed[c] = {}
  BY DEF Init, Held
<1>2. \A n : Holders(n) = {}
  BY <1>1 DEF Holders
<1>3. HoldersAreFew
  <2>1. \A n : Cardinality(Holders(n)) = 0
    BY <1>2, FS_EmptySet
  <2>2. \A n : IdleBit(n) = 0
    BY DEF IdleBit, Init, NothingPending
  <2> QED BY <2>1, <2>2 DEF HoldersAreFew, Init
<1>4. GroupStartsAfresh /\ TasksAreDelivered /\ DoneIsSettled /\ NoneLeftBehind
  BY <1>1 DEF Init, GroupStartsAfresh, TasksAreDelivered, Known, DoneIsSettled, NoneLeftBehind
<1> QED BY <1>3, <1>4, TypesStart DEF GroupInv

LEMMA PublishingIsSafe ==
  ASSUME GroupInv, NEW j \in Job, Publish(j) \/ Republish(j)
  PROVE  GroupInv'
<1> USE TypeOKInParts DEF GroupInv
<1>1. /\ UNCHANGED <<settled, loop, tried, counters>>
      /\ UNCHANGED <<lost, group, cursor, pending, dead>>
  BY DEF Publish, Republish, Xadd
<1>2. \A n \in 1 .. Len(entries) : entries'[n] = entries[n]
  BY XaddKeepsRedis DEF Publish, Republish
<1>3. \A c : Held(c)' = Held(c) /\ listed' = listed
  BY <1>1 DEF Held, loop
<1>4. HoldersAreFew'
  BY <1>1, <1>3 DEF HoldersAreFew, Holders, IdleBit, counters
<1>5. DoneIsSettled'
  <2> SUFFICES ASSUME NEW c \in Consumer, pc[c] \in {"dlq", "ack"} PROVE JobOf(c)' \in settled
    BY <1>1 DEF DoneIsSettled, loop
  <2>1. task[c].id \in 1 .. Len(entries) /\ JobOf(c) \in settled
    BY JobIsKnown DEF TaskSteps, DoneIsSettled, TasksAreDelivered
  <2> QED BY <1>1, <1>2, <2>1 DEF JobOf, loop
<1>6. NoneLeftBehind'
  <2>1. \A n \in lost + 1 .. cursor : n \in 1 .. Len(entries)
    BY DEF RedisTypeOK
  <2> QED BY <1>1, <1>2, <2>1 DEF NoneLeftBehind
<1>7. GroupStartsAfresh' /\ TasksAreDelivered'
  BY <1>1, <1>3 DEF GroupStartsAfresh, TasksAreDelivered, Known
<1> QED BY <1>4, <1>5, <1>6, <1>7, PublishingKeepsTypes

(* A step of one worker, by what it does to the tasks the worker holds, to *)
(* its listing and to the stream.                                          *)
LEMMA WorkersStayKnown ==
  ASSUME TasksAreDelivered, NEW c \in Consumer, cursor \in Nat, cursor' \in Nat,
         cursor <= cursor', TypeOK, Known(c)',
         \A d \in Consumer \ {c} : Held(d)' = Held(d) /\ listed'[d] = listed[d]
  PROVE  TasksAreDelivered'
<1> SUFFICES ASSUME NEW d \in Consumer \ {c} PROVE Known(d)'
  BY DEF TasksAreDelivered
<1>1. \A t \in Held(d) : t.id \in Nat
  BY TypeOKInParts, ConsumerGroupAssumption DEF LoopTypeOK, Held, Task, Entry
<1>2. \A l \in listed[d] : l.id \in Nat
  BY TypeOKInParts, ConsumerGroupAssumption DEF LoopTypeOK, Listing, Entry
<1> QED BY <1>1, <1>2 DEF TasksAreDelivered, Known

(* The other workers' jobs stay settled.                                   *)
LEMMA OthersStaySettled ==
  ASSUME DoneIsSettled, NEW c \in Consumer, UNCHANGED entries, settled \subseteq settled',
         pc'[c] \in {"dlq", "ack"} => JobOf(c)' \in settled',
         \A d \in Consumer \ {c} : pc'[d] = pc[d] /\ task'[d] = task[d]
  PROVE  DoneIsSettled'
BY DEF DoneIsSettled, JobOf

LEMMA StartIsSafe ==
  ASSUME GroupInv, NEW c \in Consumer, Start(c)
  PROVE  GroupInv'
<1> USE TypeOKInParts DEF GroupInv
<1>1. /\ UNCHANGED <<entries, lost, pending, dead, settled, tried, counters>>
      /\ Drop(c, "poll") /\ group' = TRUE
      /\ cursor' = IF group THEN cursor ELSE lost
  BY DEF Start, XgroupCreate
<1>2. /\ Held(c)' = {} /\ listed'[c] = {}
      /\ \A d \in Consumer \ {c} : Held(d)' = Held(d) /\ listed'[d] = listed[d]
  BY <1>1, DropHolds
<1>3. cursor' = cursor /\ cursor \in Nat
  BY <1>1 DEF GroupStartsAfresh, RedisTypeOK
<1>4. TypeOK'
  BY TakingKeepsTypes
<1>5. TasksAreDelivered'
  BY <1>2, <1>3, WorkersStayKnown DEF Known
<1>6. DoneIsSettled'
  <2>1. pc'[c] = "poll" /\ \A d \in Consumer \ {c} : pc'[d] = pc[d] /\ task'[d] = task[d]
    BY <1>1 DEF Drop, LoopTypeOK
  <2> QED BY <1>1, <2>1, OthersStaySettled
<1>7. HoldersAreFew'
  <2>1. \A n : Holders(n)' \subseteq Holders(n)
    BY <1>2, ForgettingShrinks
  <2>2. overruns \in Nat /\ overruns' = overruns
    BY <1>1, ConsumerGroupAssumption DEF CountersTypeOK, counters
  <2>3. \A n : IdleBit(n)' = IdleBit(n) /\ IdleBit(n) \in Nat
    BY <1>1 DEF IdleBit
  <2> QED BY <2>1, <2>2, <2>3, FewStayFew
<1> QED BY <1>1, <1>3, <1>4, <1>5, <1>6, <1>7 DEF GroupStartsAfresh, NoneLeftBehind

(* A step of a worker that takes no task and delivers none.                *)
LEMMA WorkerStepIsSafe ==
  ASSUME GroupInv, NEW c \in Consumer, TypeOK',
         UNCHANGED <<entries, lost, group, cursor, overruns>>, settled \subseteq settled',
         Held(c)' \subseteq Held(c), \A l \in listed'[c] : l.id <= cursor,
         \A d \in Consumer \ {c} : Held(d)' = Held(d) /\ listed'[d] = listed[d],
         \A d \in Consumer \ {c} : pc'[d] = pc[d] /\ task'[d] = task[d],
         pc'[c] \in {"dlq", "ack"} => JobOf(c)' \in settled',
         \A n \in Entry : IdleBit(n)' <= IdleBit(n),
         \A n \in DOMAIN pending : n \in DOMAIN pending' \/ entries[n] \in settled'
  PROVE  GroupInv'
<1> USE TypeOKInParts DEF GroupInv
<1>1. TasksAreDelivered'
  <2>1. Known(c)' /\ cursor \in Nat
    BY DEF TasksAreDelivered, Known, RedisTypeOK
  <2> QED BY <2>1, WorkersStayKnown
<1>2. DoneIsSettled'
  BY OthersStaySettled
<1>3. HoldersAreFew'
  <2>1. overruns \in Nat /\ overruns' = overruns
    BY ConsumerGroupAssumption DEF CountersTypeOK
  <2> QED BY <2>1, ForgettingShrinks, FewStayFew
<1>4. NoneLeftBehind'
  BY DEF NoneLeftBehind
<1> QED BY <1>1, <1>2, <1>3, <1>4 DEF GroupStartsAfresh

LEMMA ListingIsSafe ==
  ASSUME GroupInv, NEW c \in Consumer, ListPending(c)
  PROVE  GroupInv'
<1> USE TypeOKInParts DEF GroupInv
<1>1. TypeOK'
  BY TakingKeepsTypes
<1>2. /\ UNCHANGED <<redis, settled, batch, task, tried, counters>>
      /\ listed' = [listed EXCEPT ![c] =
           {[id |-> n, delivered |-> pending[n].count] : n \in Stalled}]
      /\ pc' = [pc EXCEPT ![c] = IF Stalled = {} THEN "read" ELSE "claim"]
  BY DEF ListPending
<1>3. \A l \in listed'[c] : l.id <= cursor
  <2>1. \A n \in Stalled : n <= cursor
    BY PendingAreEntries DEF Stalled, Idle
  <2> QED BY <1>2, <2>1 DEF LoopTypeOK
<1>4. /\ \A d : Held(d)' = Held(d)
      /\ \A d \in Consumer \ {c} : listed'[d] = listed[d] /\ pc'[d] = pc[d] /\ task'[d] = task[d]
      /\ pc'[c] \in {"read", "claim"}
  BY <1>2 DEF Held, LoopTypeOK
<1>5. \A n \in Entry : IdleBit(n)' = IdleBit(n) /\ IdleBit(n) \in Nat
  BY <1>2 DEF IdleBit, redis
<1> QED BY <1>1, <1>2, <1>3, <1>4, <1>5, WorkerStepIsSafe DEF redis, counters

(* Steps that end in Drop or in the next task of the batch.                *)
LEMMA MovingOnIsSafe ==
  ASSUME GroupInv, NEW c \in Consumer, TypeOK',
         UNCHANGED <<entries, lost, group, cursor, overruns, settled>>,
         \/ \E next \in {"down", "poll"} : Drop(c, next)
         \/ WorkOn(c, batch[c]),
         \A n \in Entry : IdleBit(n)' <= IdleBit(n),
         \A n \in DOMAIN pending : n \in DOMAIN pending' \/ entries[n] \in settled
  PROVE  GroupInv'
<1> USE TypeOKInParts DEF GroupInv
<1>1. CASE \E next \in {"down", "poll"} : Drop(c, next)
  <2>1. PICK next \in {"down", "poll"} : Drop(c, next)
    BY <1>1
  <2>2. /\ Held(c)' = {} /\ listed'[c] = {}
        /\ \A d \in Consumer \ {c} : Held(d)' = Held(d) /\ listed'[d] = listed[d]
    BY <2>1, DropHolds
  <2>3. /\ pc'[c] \in {"down", "poll"}
        /\ \A d \in Consumer \ {c} : pc'[d] = pc[d] /\ task'[d] = task[d]
    BY <2>1 DEF Drop, LoopTypeOK
  <2> QED BY <2>2, <2>3, WorkerStepIsSafe
<1>2. CASE WorkOn(c, batch[c])
  <2>1. batch[c] \in SUBSET Task /\ batch[c] \subseteq Held(c)
    BY DEF LoopTypeOK, Held
  <2>2. /\ Held(c)' = batch[c] /\ listed'[c] \subseteq listed[c]
        /\ \A d \in Consumer \ {c} : Held(d)' = Held(d) /\ listed'[d] = listed[d]
        /\ pc'[c] \in {"poll", "begin"}
        /\ \A d \in Consumer \ {c} : pc'[d] = pc[d] /\ task'[d] = task[d]
    BY <1>2, <2>1, WorkOnHolds
  <2>3. \A l \in listed'[c] : l.id <= cursor
    BY <2>2 DEF TasksAreDelivered, Known
  <2> QED BY <2>1, <2>2, <2>3, WorkerStepIsSafe
<1> QED BY <1>1, <1>2

LEMMA IdleBitIsNumber == \A n : IdleBit(n) \in {0, 1}
BY DEF IdleBit

LEMMA SameRedis ==
  ASSUME UNCHANGED redis
  PROVE  /\ UNCHANGED <<entries, lost, group, cursor>> /\ DOMAIN pending' = DOMAIN pending
         /\ \A n : IdleBit(n)' = IdleBit(n) /\ IdleBit(n)' <= IdleBit(n)
BY DEF redis, IdleBit

LEMMA QuietStepsAreSafe ==
  ASSUME GroupInv, NEW c \in Consumer,
         Reclaimed(c) \/ ReadTimesOut(c) \/ NoGroup(c) \/ HandleRaises(c) \/ Crash(c)
  PROVE  GroupInv'
<1> USE TypeOKInParts DEF GroupInv
<1>1. /\ UNCHANGED <<entries, lost, group, cursor, overruns, settled>>
      /\ DOMAIN pending' = DOMAIN pending
      /\ \A n \in Entry : IdleBit(n)' <= IdleBit(n)
  BY SameRedis DEF Reclaimed, ReadTimesOut, NoGroup, HandleRaises, Crash, counters
<1>2. TypeOK'
  BY TakingKeepsTypes, ProcessingKeepsTypes, FaultsKeepTypes DEF TasksAreDelivered
<1>3. CASE \/ \E next \in {"down", "poll"} : Drop(c, next)
           \/ WorkOn(c, batch[c])
  BY <1>1, <1>2, <1>3, MovingOnIsSafe
<1>4. CASE /\ batch[c] = {} /\ pc' = [pc EXCEPT ![c] = "read"]
           /\ UNCHANGED <<listed, batch, task>>
  <2>1. /\ \A d : Held(d)' = Held(d)
        /\ pc'[c] = "read" /\ \A d \in Consumer \ {c} : pc'[d] = pc[d]
    BY <1>4 DEF Held, LoopTypeOK
  <2> QED BY <1>1, <1>2, <1>4, <2>1, WorkerStepIsSafe DEF TasksAreDelivered, Known
<1> QED BY <1>3, <1>4 DEF Reclaimed, ReadTimesOut, NoGroup, HandleRaises, Crash

LEMMA ProgressIsSafe ==
  ASSUME GroupInv, NEW c \in Consumer,
         GiveUp(c) \/ Skip(c) \/ Enter(c) \/ Succeed(c) \/ DeadLetter(c)
  PROVE  GroupInv'
<1> USE TypeOKInParts DEF GroupInv
<1>1. /\ UNCHANGED <<entries, lost, group, cursor, pending, listed, batch, task, overruns>>
      /\ settled \subseteq settled'
  BY DEF GiveUp, Skip, Enter, Succeed, DeadLetter, redis, counters
<1>2. TypeOK'
  BY ProcessingKeepsTypes DEF TasksAreDelivered
<1>3. /\ \A d : Held(d)' = Held(d)
      /\ \A n \in Entry : IdleBit(n)' <= IdleBit(n)
      /\ JobOf(c)' = JobOf(c)
  BY <1>1, IdleBitIsNumber DEF Held, IdleBit, JobOf
<1>4. /\ \A d \in Consumer \ {c} : pc'[d] = pc[d]
      /\ pc'[c] \in {"dlq", "ack"} => JobOf(c) \in settled'
  BY DEF GiveUp, Skip, Enter, Succeed, DeadLetter, LoopTypeOK, DoneIsSettled
<1> QED BY <1>1, <1>2, <1>3, <1>4, WorkerStepIsSafe DEF TasksAreDelivered, Known

(* What is acknowledged is settled.                                        *)
LEMMA AcknowledgingIsSafe ==
  ASSUME GroupInv, NEW c \in Consumer, Acknowledge(c)
  PROVE  GroupInv'
<1> USE TypeOKInParts DEF GroupInv
<1>1. /\ UNCHANGED <<entries, lost, group, cursor, overruns, settled>>
      /\ pending' = [m \in DOMAIN pending \ {task[c].id} |-> pending[m]]
      /\ WorkOn(c, batch[c])
  BY DEF Acknowledge, Xack, counters
<1>2. entries[task[c].id] \in settled
  BY DEF Acknowledge, DoneIsSettled, JobOf
<1>3. \A n \in Entry : IdleBit(n)' <= IdleBit(n)
  BY <1>1 DEF IdleBit
<1>4. TypeOK'
  BY ProcessingKeepsTypes DEF TasksAreDelivered
<1> QED BY <1>1, <1>2, <1>3, <1>4, MovingOnIsSafe

(* Whoever claims an idle entry takes the place that was left for it.      *)
LEMMA ClaimingIsSafe ==
  ASSUME GroupInv, NEW c \in Consumer, ClaimNext(c)
  PROVE  GroupInv'
<1> USE TypeOKInParts DEF GroupInv
<1>1. TypeOK'
  BY TakingKeepsTypes
<1>2. PICK l \in listed[c] :
        /\ listed' = [listed EXCEPT ![c] = @ \ {l}]
        /\ IF Claimable(l.id)
           THEN Xclaim(l.id) /\ batch' = [batch EXCEPT ![c] = @ \cup {Claimed(l)}]
           ELSE UNCHANGED <<redis, batch>>
  BY DEF ClaimNext
<1>3. UNCHANGED <<entries, lost, group, cursor, settled, pc, task, overruns>>
  BY <1>2 DEF ClaimNext, Xclaim, redis, counters
<1>4. /\ listed'[c] \subseteq listed[c]
      /\ \A d \in Consumer \ {c} : listed'[d] = listed[d]
  BY <1>2 DEF LoopTypeOK
<1>5. CASE ~Claimable(l.id)
  <2>1. UNCHANGED <<redis, batch>>
    BY <1>2, <1>5
  <2>2. \A d : Held(d)' = Held(d)
    BY <1>3, <2>1 DEF Held
  <2>3. pc'[c] \notin {"dlq", "ack"}
    BY <1>3 DEF ClaimNext
  <2> QED BY <1>1, <1>3, <1>4, <2>1, <2>2, <2>3, SameRedis, WorkerStepIsSafe
        DEF TasksAreDelivered, Known
<1>6. CASE Claimable(l.id)
  <2>1. /\ l.id \in DOMAIN pending /\ pending[l.id].idle
        /\ pending' = [pending EXCEPT ![l.id] = [count |-> @.count + 1, idle |-> FALSE]]
        /\ batch' = [batch EXCEPT ![c] = @ \cup {Claimed(l)}]
    BY <1>2, <1>6 DEF Claimable, Xclaim
  <2>2. /\ Held(c)' = Held(c) \cup {Claimed(l)}
        /\ \A d \in Consumer \ {c} : Held(d)' = Held(d)
    BY <1>3, <2>1 DEF Held, LoopTypeOK
  <2>3. Claimed(l).id = l.id /\ l.id <= cursor /\ l.id \in Entry
    BY <2>1, PendingAreEntries DEF Claimed
  <2>4. TasksAreDelivered'
    <3>1. Known(c)' /\ cursor \in Nat
      BY <1>3, <1>4, <2>2, <2>3 DEF TasksAreDelivered, Known, RedisTypeOK
    <3> QED BY <1>3, <1>4, <2>2, <3>1, WorkersStayKnown
  <2>5. DoneIsSettled'
    BY <1>3 DEF DoneIsSettled, JobOf
  <2>6. NoneLeftBehind'
    BY <1>3, <2>1 DEF NoneLeftBehind
  <2>7. HoldersAreFew'
    <3>1. overruns \in Nat /\ overruns' = overruns
      BY <1>3, ConsumerGroupAssumption DEF CountersTypeOK
    <3> SUFFICES ASSUME NEW n \in Entry
                 PROVE  Cardinality(Holders(n)') + IdleBit(n)' <= 1 + overruns
      BY <1>3 DEF HoldersAreFew
    <3>2. /\ Cardinality(Holders(n)) + IdleBit(n) <= 1 + overruns
          /\ IsFiniteSet(Holders(n)) /\ Cardinality(Holders(n)) \in Nat
      BY HoldersAreConsumers DEF HoldersAreFew
    <3>3. CASE n = l.id
      <4>1. IdleBit(n) = 1 /\ IdleBit(n)' = 0
        BY <2>1, <3>3 DEF IdleBit
      <4>2. Holders(n)' \subseteq Holders(n) \cup {c}
        BY <2>2, <2>3, <3>3, TakingAddsOne
      <4>3. /\ Cardinality(Holders(n)') <= Cardinality(Holders(n)) + 1
            /\ Cardinality(Holders(n)') \in Nat
        BY <3>2, <4>2, OneMoreAtMost
      <4> QED BY <3>1, <3>2, <4>1, <4>3
    <3>4. CASE n # l.id
      <4>1. IdleBit(n)' = IdleBit(n) /\ IdleBit(n) \in {0, 1}
        BY <2>1, <3>4 DEF IdleBit
      <4>2. Holders(n)' \subseteq Holders(n)
        BY <2>2, <2>3, <3>4, TakingAddsOne
      <4>3. Cardinality(Holders(n)') <= Cardinality(Holders(n)) /\ Cardinality(Holders(n)') \in Nat
        BY <3>2, <4>2, FS_Subset, FS_CardinalityType
      <4> QED BY <3>1, <3>2, <4>1, <4>3
    <3> QED BY <3>3, <3>4
  <2> QED BY <1>1, <1>3, <2>4, <2>5, <2>6, <2>7 DEF GroupStartsAfresh
<1> QED BY <1>5, <1>6

(* An entry that is delivered for the first time has no holder yet.        *)
LEMMA NewEntryIsFree ==
  ASSUME GroupInv, NEW n, n \in Int, n > cursor
  PROVE  Holders(n) = {} /\ IdleBit(n) = 0
<1>1. \A c \in Consumer : \A t \in Held(c) : t.id <= cursor
  BY DEF GroupInv, TasksAreDelivered, Known
<1>2. n \notin DOMAIN pending /\ cursor \in Int
  BY TypeOKInParts DEF GroupInv, RedisTypeOK
<1>3. Holders(n) = {}
  <2> SUFFICES ASSUME NEW c \in Consumer, NEW t \in Held(c), t.id = n PROVE FALSE
    BY DEF Holders
  <2> QED BY <1>1, <1>2
<1> QED BY <1>2, <1>3 DEF IdleBit

(* XREADGROUP by a worker that then holds the new entry, or nothing.       *)
LEMMA DeliveryIsSafe ==
  ASSUME GroupInv, NEW c \in Consumer, TypeOK', group, XreadGroup,
         UNCHANGED <<settled, overruns>>,
         NEW t, t.id = cursor + 1, Held(c)' \subseteq {t}, listed'[c] \subseteq listed[c],
         \A d \in Consumer \ {c} : Held(d)' = Held(d) /\ listed'[d] = listed[d],
         \A d \in Consumer \ {c} : pc'[d] = pc[d] /\ task'[d] = task[d],
         pc'[c] \in {"poll", "begin"}
  PROVE  GroupInv'
<1> USE TypeOKInParts DEF GroupInv
<1>1. /\ cursor' = cursor + 1 /\ cursor \in Nat /\ cursor + 1 \in Entry
      /\ UNCHANGED <<entries, lost, group>>
      /\ pending' = [n \in DOMAIN pending \cup {cursor + 1} |->
           IF n = cursor + 1 THEN [count |-> 1, idle |-> FALSE] ELSE pending[n]]
  BY XreadGroupKeepsRedis DEF XreadGroup, RedisTypeOK
<1>2. TasksAreDelivered'
  <2>1. Known(c)'
    <3>1. \A l \in listed[c] : l.id <= cursor /\ l.id \in Nat
      BY ConsumerGroupAssumption DEF TasksAreDelivered, Known, LoopTypeOK, Listing, Entry
    <3> QED BY <1>1, <3>1 DEF Known
  <2> QED BY <1>1, <2>1, WorkersStayKnown
<1>3. DoneIsSettled'
  BY <1>1, OthersStaySettled
<1>4. NoneLeftBehind'
  BY <1>1 DEF NoneLeftBehind, RedisTypeOK
<1>5. HoldersAreFew'
  <2>1. overruns \in Nat /\ overruns' = overruns
    BY ConsumerGroupAssumption DEF CountersTypeOK
  <2> SUFFICES ASSUME NEW n \in Entry
               PROVE  Cardinality(Holders(n)') + IdleBit(n)' <= 1 + overruns
    BY <2>1 DEF HoldersAreFew
  <2>2. /\ Cardinality(Holders(n)) + IdleBit(n) <= 1 + overruns
        /\ IsFiniteSet(Holders(n)) /\ Cardinality(Holders(n)) \in Nat
    BY HoldersAreConsumers DEF HoldersAreFew
  <2>3. Held(c)' \subseteq Held(c) \cup {t}
    OBVIOUS
  <2>4. CASE n = cursor + 1
    <3>1. Holders(n) = {} /\ IdleBit(n)' = 0
      BY <1>1, <2>4, NewEntryIsFree DEF IdleBit
    <3>2. Holders(n)' \subseteq {} \cup {c}
      BY <2>3, <2>4, <3>1, TakingAddsOne
    <3>3. Cardinality(Holders(n)') <= 1 /\ Cardinality(Holders(n)') \in Nat
      BY <3>2, FS_EmptySet, OneMoreAtMost
    <3> QED BY <2>1, <3>1, <3>3
  <2>5. CASE n # cursor + 1
    <3>1. IdleBit(n)' = IdleBit(n) /\ IdleBit(n) \in {0, 1}
      BY <1>1, <2>5 DEF IdleBit
    <3>2. Holders(n)' \subseteq Holders(n)
      BY <2>3, <2>5, TakingAddsOne
    <3>3. Cardinality(Holders(n)') <= Cardinality(Holders(n)) /\ Cardinality(Holders(n)') \in Nat
      BY <2>2, <3>2, FS_Subset, FS_CardinalityType
    <3> QED BY <2>1, <2>2, <3>1, <3>3
  <2> QED BY <2>4, <2>5
<1> QED BY <1>1, <1>2, <1>3, <1>4, <1>5 DEF GroupStartsAfresh

LEMMA ReadingIsSafe ==
  ASSUME GroupInv, NEW c \in Consumer, Read(c)
  PROVE  GroupInv'
<1> USE TypeOKInParts DEF GroupInv
<1> DEFINE t == [id |-> cursor + 1, attempt |-> 1]
<1>1. TypeOK'
  BY TakingKeepsTypes
<1>2. group /\ XreadGroup /\ WorkOn(c, {t}) /\ UNCHANGED <<settled, overruns>>
  BY DEF Read, counters
<1>3. {t} \in SUBSET Task
  BY <1>2, XreadGroupKeepsRedis DEF Task
<1>4. t.id = cursor + 1
  OBVIOUS
<1> HIDE DEF t
<1> QED BY <1>1, <1>2, <1>3, <1>4, WorkOnHolds, DeliveryIsSafe

LEMMA FailingIsSafe ==
  ASSUME GroupInv, NEW c \in Consumer, CommandFails(c)
  PROVE  GroupInv'
<1> USE TypeOKInParts DEF GroupInv
<1>1. TypeOK' /\ group /\ Drop(c, "poll") /\ UNCHANGED <<settled, overruns>>
  BY FaultsKeepTypes DEF CommandFails
<1>2. CASE UNCHANGED redis
  BY <1>1, <1>2, SameRedis, MovingOnIsSafe
<1>3. CASE XreadGroup
  <2> DEFINE t == [id |-> cursor + 1, attempt |-> 1]
  <2>1. t.id = cursor + 1
    OBVIOUS
  <2> HIDE DEF t
  <2>2. /\ pc'[c] = "poll"
        /\ \A d \in Consumer \ {c} : pc'[d] = pc[d] /\ task'[d] = task[d]
    BY <1>1 DEF Drop, LoopTypeOK
  <2> QED BY <1>1, <1>3, <2>1, <2>2, DropHolds, DeliveryIsSafe
<1>4. ASSUME NEW l \in listed[c], Claimable(l.id), Xclaim(l.id) PROVE GroupInv'
  <2>1. /\ UNCHANGED <<entries, lost, group, cursor>> /\ DOMAIN pending' = DOMAIN pending
        /\ \A n \in Entry : IdleBit(n)' <= IdleBit(n)
    BY <1>4 DEF Claimable, Xclaim, IdleBit
  <2> QED BY <1>1, <2>1, MovingOnIsSafe
<1> QED BY <1>2, <1>3, <1>4 DEF CommandFails

LEMMA TimeIsSafe ==
  ASSUME GroupInv, NEW n \in Entry, AbandonedIdles(n) \/ HeldIdles(n)
  PROVE  GroupInv'
<1> USE TypeOKInParts DEF GroupInv
<1>1. /\ UNCHANGED <<entries, lost, group, cursor, settled, pc, listed, batch, task>>
      /\ n \in DOMAIN pending /\ ~pending[n].idle
      /\ pending' = [pending EXCEPT ![n].idle = TRUE]
  BY DEF AbandonedIdles, HeldIdles, PassThreshold, loop
<1>2. TypeOK'
  BY FaultsKeepTypes
<1>3. \A d : Held(d)' = Held(d)
  BY <1>1 DEF Held
<1>4. TasksAreDelivered' /\ DoneIsSettled' /\ NoneLeftBehind' /\ GroupStartsAfresh'
  BY <1>1, <1>3 DEF TasksAreDelivered, Known, DoneIsSettled, JobOf, NoneLeftBehind, GroupStartsAfresh
<1>5. HoldersAreFew'
  <2> SUFFICES ASSUME NEW m \in Entry
               PROVE  Cardinality(Holders(m)') + IdleBit(m)' <= 1 + overruns'
    BY DEF HoldersAreFew
  <2>1. /\ Cardinality(Holders(m)) + IdleBit(m) <= 1 + overruns
        /\ Cardinality(Holders(m)) \in Nat /\ overruns \in Nat
        /\ overruns' = overruns \/ overruns' = overruns + 1
    BY HoldersAreConsumers, ConsumerGroupAssumption
       DEF HoldersAreFew, CountersTypeOK, AbandonedIdles, HeldIdles, counters
  <2>2. Holders(m)' = Holders(m) /\ IdleBit(m) \in {0, 1}
    BY <1>3, IdleBitIsNumber DEF Holders
  <2>3. CASE m # n
    <3>1. IdleBit(m)' = IdleBit(m)
      BY <1>1, <2>3 DEF IdleBit
    <3> QED BY <2>1, <2>2, <3>1
  <2>4. CASE m = n
    <3>1. IdleBit(m) = 0 /\ IdleBit(m)' \in {0, 1}
      BY <1>1, <2>4, IdleBitIsNumber DEF IdleBit
    <3>2. CASE HeldIdles(n)
      BY <2>1, <2>2, <3>1, <3>2 DEF HeldIdles
    <3>3. CASE AbandonedIdles(n)
      <4>1. Holders(m) = {}
        BY <2>4, <3>3 DEF AbandonedIdles, Users
      <4> QED BY <2>1, <2>2, <3>1, <4>1, FS_EmptySet
    <3> QED BY <3>2, <3>3
  <2> QED BY <2>3, <2>4
<1> QED BY <1>2, <1>4, <1>5

LEMMA LossIsSafe ==
  ASSUME GroupInv, LoseData
  PROVE  GroupInv'
<1> USE TypeOKInParts DEF GroupInv
<1>1. /\ UNCHANGED <<entries, settled, pc, listed, batch, task, overruns>>
      /\ lost' = Len(entries) /\ cursor' = Len(entries) /\ DOMAIN pending' = {}
      /\ cursor <= cursor' /\ cursor \in Nat /\ cursor' \in Nat
  BY DEF LoseData, NothingPending, loop, RedisTypeOK
<1>2. TypeOK'
  BY FaultsKeepTypes
<1>3. \A d : Held(d)' = Held(d)
  BY <1>1 DEF Held
<1>4. TasksAreDelivered'
  <2>1. \A c \in Consumer : Known(c)'
    <3> SUFFICES ASSUME NEW c \in Consumer PROVE Known(c)'
      OBVIOUS
    <3>1. /\ \A t \in Held(c) : t.id \in Nat /\ t.id <= cursor
          /\ \A l \in listed[c] : l.id \in Nat /\ l.id <= cursor
      BY ConsumerGroupAssumption DEF TasksAreDelivered, Known, LoopTypeOK, Held, Task, Listing, Entry
    <3> QED BY <1>1, <1>3, <3>1 DEF Known
  <2> QED BY <2>1 DEF TasksAreDelivered
<1>5. DoneIsSettled' /\ NoneLeftBehind' /\ GroupStartsAfresh'
  BY <1>1 DEF DoneIsSettled, JobOf, NoneLeftBehind, GroupStartsAfresh
<1>6. HoldersAreFew'
  <2>1. \A n \in Entry : Holders(n)' \subseteq Holders(n) /\ IdleBit(n)' <= IdleBit(n)
    <3>1. \A n : IdleBit(n)' = 0
      BY <1>1 DEF IdleBit
    <3> QED BY <1>3, <3>1, IdleBitIsNumber DEF Holders
  <2>2. overruns \in Nat /\ overruns' = overruns
    BY <1>1, ConsumerGroupAssumption DEF CountersTypeOK
  <2> QED BY <2>1, <2>2, FewStayFew
<1> QED BY <1>2, <1>4, <1>5, <1>6

-----------------------------------------------------------------------------

LEMMA GroupStays ==
  ASSUME GroupInv, [Next]_vars
  PROVE  GroupInv'
<1>1. CASE UNCHANGED vars
  BY <1>1 DEF vars, redis, loop, counters, GroupInv, TypeOK, GroupStartsAfresh,
     TasksAreDelivered, Known, Held, DoneIsSettled, JobOf, NoneLeftBehind, HoldersAreFew,
     Holders, IdleBit
<1>2. ASSUME NEW c \in Consumer, Step(c) PROVE GroupInv'
  BY <1>2, StartIsSafe, ListingIsSafe, ClaimingIsSafe, ReadingIsSafe, QuietStepsAreSafe,
     ProgressIsSafe, AcknowledgingIsSafe DEF Step
<1>3. ASSUME NEW c \in Consumer, CommandFails(c) \/ Crash(c) PROVE GroupInv'
  BY <1>3, FailingIsSafe, QuietStepsAreSafe
<1> QED BY <1>1, <1>2, <1>3, PublishingIsSafe, TimeIsSafe, LossIsSafe DEF Next

THEOREM GroupIsKept == Spec => []GroupInv
BY GroupStarts, GroupStays, PTL DEF Spec

(* streams.py and base.py: every variable keeps its type; a worker that    *)
(* finds no task has none, and nothing is pending that was not delivered.  *)
THEOREM GroupTypeCorrect == Spec => []TypeOK
<1>1. GroupInv => TypeOK
  BY DEF GroupInv
<1> QED BY <1>1, GroupIsKept, PTL

(* reclaim(): "Only one worker can win", for any number of workers whose   *)
(* listings overlap, and but for entries that outlive the threshold.       *)
THEOREM OneWorkerWins == Spec => []OnlyOneWins
<1>1. GroupInv => OnlyOneWins
  <2> SUFFICES ASSUME GroupInv, NEW n \in Entry PROVE Cardinality(Holders(n)) <= 1 + overruns
    BY DEF OnlyOneWins
  <2>1. /\ Cardinality(Holders(n)) + IdleBit(n) <= 1 + overruns
        /\ IdleBit(n) \in {0, 1} /\ Cardinality(Holders(n)) \in Nat /\ overruns \in Nat
    BY HoldersAreConsumers, IdleBitIsNumber, ConsumerGroupAssumption, TypeOKInParts
       DEF GroupInv, HoldersAreFew, CountersTypeOK
  <2> QED BY <2>1
<1> QED BY <1>1, GroupIsKept, PTL

(* run() and _process(): however often commands fail, workers die or Redis *)
(* loses its data, a stream has no entry that is neither pending nor done. *)
THEOREM NothingIsLeftBehind == Spec => []NoneLeftBehind
<1>1. GroupInv => NoneLeftBehind
  BY DEF GroupInv
<1> QED BY <1>1, GroupIsKept, PTL


-----------------------------------------------------------------------------
(* How often an entry is tried.                                            *)

(* The tasks worker c holds and has not begun.                             *)
Waiting(c) == batch[c] \cup (IF pc[c] = "begin" THEN {task[c]} ELSE {})

(* The workers that will still begin n.                                    *)
Starters(n) == {c \in Consumer : \E t \in Waiting(c) : t.id = n}

(* The workers that will still try n, or acknowledge it.                   *)
Keepers(n) ==
  {c \in Consumer : \E t \in Held(c) : t.id = n /\ (t \in batch[c] \/ pc[c] # "work")}

(* An entry is in one place of a worker's hands only.                      *)
Orderly(c) ==
  /\ pc[c] \in {"down", "poll", "read"} => listed[c] = {} /\ batch[c] = {}
  /\ \A k, l \in listed[c] : k.id = l.id => k = l
  /\ \A l \in listed[c], t \in batch[c] : l.id # t.id
  /\ \A t, u \in batch[c] : t.id = u.id => t = u
  /\ task[c] # NoTask => \A t \in batch[c] : t.id # task[c].id

WorkersAreOrderly == \A c \in Consumer : Orderly(c)

Untried == \A n \in Entry : n > cursor => tried[n] = 0

(* Every try and every task yet to begin is a delivery of its own.         *)
TriesAreDelivered ==
  \A n \in DOMAIN pending : tried[n] + Cardinality(Starters(n)) <= pending[n].count

(* A listing is behind the delivery count by no more than the overruns.    *)
ListingsAreFresh ==
  \A c \in Consumer : \A l \in listed[c] : l.id \in DOMAIN pending =>
    /\ l.delivered <= pending[l.id].count
    /\ pending[l.id].count + IdleBit(l.id) <= l.delivered + 1 + overruns

AttemptsAreFresh ==
  \A c \in Consumer : \A t \in Waiting(c) : t.id \in DOMAIN pending =>
    pending[t.id].count + IdleBit(t.id) <= t.attempt + overruns

(* The same of a task, also when its entry is no longer pending.           *)
StartsAreFew ==
  \A c \in Consumer : \A t \in Waiting(c) :
    tried[t.id] + Cardinality(Starters(t.id)) <= t.attempt + overruns

(* What can explain that n was delivered.                                  *)
Trouble(n) == tried[n] + faults + overruns

(* All deliveries but the last one came to something or went wrong; so did *)
(* the last one if no worker has it in its hands.                          *)
DeliveriesAreTried ==
  \A n \in DOMAIN pending :
    /\ pending[n].count + IdleBit(n) <= Trouble(n) + 1
    /\ Keepers(n) = {} => pending[n].count <= Trouble(n)

AttemptsAreEarned ==
  \A c \in Consumer : \A t \in Waiting(c) : t.attempt <= Trouble(t.id) + 1

DeadAreTried == \A c \in Consumer : pc[c] = "dlq" => MaxAttempts <= Trouble(task[c].id)

(* The limit holds from above ...                                          *)
AtMostTheLimit ==
  /\ Untried
  /\ TriesAreDelivered
  /\ ListingsAreFresh
  /\ AttemptsAreFresh
  /\ StartsAreFew
  /\ TriesAreBounded

(* ... and from below.                                                     *)
AtLeastTheLimit ==
  /\ DeliveriesAreTried
  /\ AttemptsAreEarned
  /\ DeadAreTried
  /\ GivenUpAfterTrying

TriesInv == GroupInv /\ WorkersAreOrderly /\ AtMostTheLimit /\ AtLeastTheLimit

LEMMA WaitingAreTasks ==
  ASSUME TypeOK, NEW c \in Consumer
  PROVE  /\ Waiting(c) \subseteq Held(c) /\ Waiting(c) \subseteq Task
         /\ Held(c) \subseteq Task
         /\ \A t \in Held(c) : t.id \in Entry /\ t.attempt \in Nat
<1>1. batch[c] \subseteq Task /\ task[c] \in Task \cup {NoTask}
      /\ (pc[c] = "begin" => task[c] # NoTask)
  BY TypeOKInParts DEF LoopTypeOK, NoTaskSteps
<1>2. Held(c) \subseteq Task /\ Waiting(c) \subseteq Held(c)
  BY <1>1 DEF Held, Waiting
<1> QED BY <1>2 DEF Task

LEMMA ListingsAreEntries ==
  ASSUME TypeOK, NEW c \in Consumer, NEW l \in listed[c]
  PROVE  l \in Listing /\ l.id \in Entry /\ l.delivered \in Nat
BY TypeOKInParts DEF LoopTypeOK, Listing

LEMMA CountsAreNumbers ==
  ASSUME TypeOK
  PROVE  /\ faults \in Nat /\ overruns \in Nat
         /\ \A n \in Entry : tried[n] \in Nat /\ Trouble(n) \in Nat
         /\ \A n \in DOMAIN pending : n \in Entry /\ pending[n].count \in Nat
         /\ \A n : IdleBit(n) \in {0, 1}
         /\ cursor \in Nat
<1>1. faults \in Nat /\ overruns \in Nat /\ \A n \in Entry : tried[n] \in Nat
  BY TypeOKInParts, ConsumerGroupAssumption DEF CountersTypeOK
<1>2. \A n \in DOMAIN pending : n \in Entry /\ pending[n].count \in Nat
  BY TypeOKInParts, PendingAreEntries
<1>3. cursor \in Nat
  BY TypeOKInParts DEF RedisTypeOK
<1> QED BY <1>1, <1>2, <1>3, IdleBitIsNumber DEF Trouble

LEMMA CountsGrow ==
  ASSUME TypeOK, TypeOK', faults <= faults', overruns <= overruns',
         \A n \in Entry : tried[n] <= tried'[n]
  PROVE  /\ faults \in Nat /\ faults' \in Nat /\ overruns \in Nat /\ overruns' \in Nat
         /\ cursor \in Nat /\ cursor' \in Nat /\ MaxAttempts \in Nat
         /\ \A n \in Entry : /\ n \in Nat /\ tried[n] \in Nat /\ tried'[n] \in Nat
                             /\ Trouble(n) \in Nat /\ Trouble(n)' \in Nat
                             /\ Trouble(n) <= Trouble(n)'
<1>1. faults \in Nat /\ faults' \in Nat /\ overruns \in Nat /\ overruns' \in Nat
  BY TypeOKInParts, ConsumerGroupAssumption DEF CountersTypeOK
<1>2. cursor \in Nat /\ cursor' \in Nat
  BY TypeOKInParts DEF RedisTypeOK
<1>3. MaxAttempts \in Nat /\ \A n \in Entry : n \in Nat
  BY ConsumerGroupAssumption DEF Entry
<1>4. \A n \in Entry : tried[n] \in Nat /\ tried'[n] \in Nat
  BY TypeOKInParts DEF CountersTypeOK
<1> QED BY <1>1, <1>2, <1>3, <1>4 DEF Trouble

LEMMA StartersAreConsumers ==
  \A n : /\ Starters(n) \subseteq Consumer /\ IsFiniteSet(Starters(n))
         /\ Cardinality(Starters(n)) \in Nat
<1> SUFFICES ASSUME NEW n
             PROVE  /\ Starters(n) \subseteq Consumer /\ IsFiniteSet(Starters(n))
                    /\ Cardinality(Starters(n)) \in Nat
  OBVIOUS
<1>1. Starters(n) \subseteq Consumer
  BY DEF Starters
<1> QED BY <1>1, ConsumersAreFinite, FS_Subset, FS_CardinalityType

LEMMA FewerStarters ==
  ASSUME NEW n, Starters(n)' \subseteq Starters(n)
  PROVE  /\ Cardinality(Starters(n)') <= Cardinality(Starters(n))
         /\ Cardinality(Starters(n)') \in Nat /\ Cardinality(Starters(n)) \in Nat
<1>1. IsFiniteSet(Starters(n)) /\ Cardinality(Starters(n)) \in Nat
  BY StartersAreConsumers
<1> QED BY <1>1, FS_Subset, FS_CardinalityType

-----------------------------------------------------------------------------
(* Every worker stays orderly.                                             *)

(* A step of one worker.                                                   *)
LEMMA OthersStayOrderly ==
  ASSUME WorkersAreOrderly, NEW c \in Consumer, Orderly(c)',
         \A d \in Consumer \ {c} : /\ pc'[d] = pc[d] /\ listed'[d] = listed[d]
                                   /\ batch'[d] = batch[d] /\ task'[d] = task[d]
  PROVE  WorkersAreOrderly'
<1>1. ASSUME NEW d \in Consumer, d # c PROVE Orderly(d)'
  BY <1>1 DEF WorkersAreOrderly, Orderly
<1> QED BY <1>1 DEF WorkersAreOrderly

LEMMA DropIsOrderly ==
  ASSUME TypeOK, WorkersAreOrderly, NEW c \in Consumer, NEW next, Drop(c, next)
  PROVE  WorkersAreOrderly'
<1>1. listed'[c] = {} /\ batch'[c] = {} /\ task'[c] = NoTask
  BY TypeOKInParts DEF LoopTypeOK, Drop
<1>2. \A d \in Consumer \ {c} : /\ pc'[d] = pc[d] /\ listed'[d] = listed[d]
                                /\ batch'[d] = batch[d] /\ task'[d] = task[d]
  BY TypeOKInParts DEF LoopTypeOK, Drop
<1>3. Orderly(c)'
  BY <1>1 DEF Orderly
<1> QED BY <1>2, <1>3, OthersStayOrderly

LEMMA WorkOnIsOrderly ==
  ASSUME TypeOK, WorkersAreOrderly, NEW c \in Consumer, NEW tasks \in SUBSET Task,
         WorkOn(c, tasks),
         \A t, u \in tasks : t.id = u.id => t = u,
         \A l \in listed[c], t \in tasks : l.id # t.id
  PROVE  WorkersAreOrderly'
<1>1. CASE Drop(c, "poll")
  BY <1>1, DropIsOrderly
<1>2. CASE \E t \in tasks :
             /\ task' = [task EXCEPT ![c] = t]
             /\ batch' = [batch EXCEPT ![c] = tasks \ {t}]
             /\ pc' = [pc EXCEPT ![c] = "begin"]
             /\ UNCHANGED listed
  BY <1>2, TypeOKInParts DEF LoopTypeOK, WorkersAreOrderly, Orderly
<1> QED BY <1>1, <1>2 DEF WorkOn

LEMMA OrderStays ==
  ASSUME TriesInv, [Next]_vars
  PROVE  WorkersAreOrderly'
<1> USE TypeOKInParts DEF TriesInv, GroupInv
<1>1. CASE UNCHANGED loop
  BY <1>1 DEF loop, WorkersAreOrderly, Orderly
<1>2. ASSUME NEW c \in Consumer, \E next : Drop(c, next)
      PROVE  WorkersAreOrderly'
  BY <1>2, DropIsOrderly
<1>3. ASSUME NEW c \in Consumer, WorkOn(c, batch[c])
      PROVE  WorkersAreOrderly'
  <2>1. batch[c] \in SUBSET Task
    BY DEF LoopTypeOK
  <2> QED BY <1>3, <2>1, WorkOnIsOrderly DEF WorkersAreOrderly, Orderly
<1>4. ASSUME NEW c \in Consumer, ListPending(c)
      PROVE  WorkersAreOrderly'
  <2>1. /\ listed' = [listed EXCEPT ![c] =
             {[id |-> n, delivered |-> pending[n].count] : n \in Stalled}]
        /\ pc[c] = "poll" /\ task[c] = NoTask /\ UNCHANGED <<batch, task>>
        /\ pc' = [pc EXCEPT ![c] = IF Stalled = {} THEN "read" ELSE "claim"]
    BY <1>4 DEF ListPending, LoopTypeOK, NoTaskSteps
  <2>2. listed'[c] = {[id |-> n, delivered |-> pending[n].count] : n \in Stalled}
    BY <2>1 DEF LoopTypeOK
  <2>3. \A d \in Consumer \ {c} : listed'[d] = listed[d] /\ pc'[d] = pc[d]
    BY <2>1 DEF LoopTypeOK
  <2>4. pc'[c] = "claim" \/ (pc'[c] = "read" /\ listed'[c] = {})
    <3>1. pc'[c] = IF Stalled = {} THEN "read" ELSE "claim"
      BY <2>1 DEF LoopTypeOK
    <3>2. Stalled = {} => listed'[c] = {}
      BY <2>2
    <3> QED BY <3>1, <3>2
  <2>5. batch'[c] = {}
    BY <2>1 DEF WorkersAreOrderly, Orderly
  <2>6. \A k, l \in listed'[c] : k.id = l.id => k = l
    BY <2>2
  <2>7. Orderly(c)'
    BY <2>4, <2>5, <2>6 DEF Orderly
  <2> QED BY <2>1, <2>3, <2>7, OthersStayOrderly
<1>5. ASSUME NEW c \in Consumer, ClaimNext(c)
      PROVE  WorkersAreOrderly'
  <2>1. PICK l \in listed[c] :
          /\ listed' = [listed EXCEPT ![c] = @ \ {l}]
          /\ IF Claimable(l.id)
             THEN Xclaim(l.id) /\ batch' = [batch EXCEPT ![c] = @ \cup {Claimed(l)}]
             ELSE UNCHANGED <<redis, batch>>
    BY <1>5 DEF ClaimNext
  <2>2. pc[c] = "claim" /\ task[c] = NoTask /\ UNCHANGED <<pc, task>>
    BY <1>5 DEF ClaimNext, LoopTypeOK, NoTaskSteps
  <2>3. /\ listed'[c] = listed[c] \ {l}
        /\ batch'[c] \subseteq batch[c] \cup {Claimed(l)}
        /\ \A d \in Consumer \ {c} : listed'[d] = listed[d] /\ batch'[d] = batch[d]
    BY <2>1 DEF LoopTypeOK
  <2>4. Claimed(l).id = l.id
    BY DEF Claimed
  <2> QED BY <2>2, <2>3, <2>4 DEF WorkersAreOrderly, Orderly
<1>6. ASSUME NEW c \in Consumer, Reclaimed(c)
      PROVE  WorkersAreOrderly'
  <2>1. CASE batch[c] = {}
    BY <1>6, <2>1 DEF Reclaimed, LoopTypeOK, WorkersAreOrderly, Orderly
  <2> QED BY <1>3, <1>6, <2>1 DEF Reclaimed
<1>7. ASSUME NEW c \in Consumer, Read(c)
      PROVE  WorkersAreOrderly'
  <2> DEFINE tasks == {[id |-> cursor + 1, attempt |-> 1]}
  <2>1. WorkOn(c, tasks) /\ listed[c] = {}
    BY <1>7 DEF Read, WorkersAreOrderly, Orderly
  <2>2. tasks \in SUBSET Task
    BY <1>7, XreadGroupKeepsRedis DEF Task, Read
  <2> QED BY <2>1, <2>2, WorkOnIsOrderly
<1>8. ASSUME NEW c \in Consumer,
             GiveUp(c) \/ Skip(c) \/ Enter(c) \/ Succeed(c) \/ DeadLetter(c)
      PROVE  WorkersAreOrderly'
  <2>1. pc[c] \in TaskSteps /\ UNCHANGED <<listed, batch, task>>
        /\ \E next \in TaskSteps : pc' = [pc EXCEPT ![c] = next]
    BY <1>8 DEF GiveUp, Skip, Enter, Succeed, DeadLetter, TaskSteps
  <2> QED BY <2>1 DEF LoopTypeOK, TaskSteps, WorkersAreOrderly, Orderly
<1>9. ASSUME NEW c \in Consumer, Step(c) PROVE WorkersAreOrderly'
  BY <1>2, <1>3, <1>4, <1>5, <1>6, <1>7, <1>8, <1>9
     DEF Step, Start, ReadTimesOut, NoGroup, HandleRaises, Acknowledge
<1>10. ASSUME NEW c \in Consumer, CommandFails(c) \/ Crash(c) PROVE WorkersAreOrderly'
  BY <1>2, <1>10 DEF CommandFails, Crash
<1>11. ASSUME NEW j \in Job, Publish(j) \/ Republish(j) PROVE WorkersAreOrderly'
  BY <1>1, <1>11 DEF Publish, Republish
<1>12. ASSUME NEW n \in Entry, AbandonedIdles(n) \/ HeldIdles(n) PROVE WorkersAreOrderly'
  BY <1>1, <1>12 DEF AbandonedIdles, HeldIdles, PassThreshold
<1>13. CASE LoseData
  BY <1>1, <1>13 DEF LoseData
<1>14. CASE UNCHANGED vars
  BY <1>1, <1>14 DEF vars
<1> QED BY <1>9, <1>10, <1>11, <1>12, <1>13, <1>14 DEF Next
-----------------------------------------------------------------------------
(* The limits, step by step.                                               *)

(* A step that delivers nothing and begins no task: entries may be         *)
(* listed, tasks forgotten.                                                *)
LEMMA LimitStaysAbove ==
  ASSUME TypeOK, TypeOK', AtMostTheLimit, overruns <= overruns', UNCHANGED tried,
         faults <= faults', cursor <= cursor',
         \A c \in Consumer : Waiting(c)' \subseteq Waiting(c),
         \A c \in Consumer : \A l \in listed'[c] :
           \/ l \in listed[c]
           \/ l.id \in DOMAIN pending /\ l.delivered = pending[l.id].count,
         \A n \in DOMAIN pending' : n \in DOMAIN pending /\ pending'[n] = pending[n]
  PROVE  AtMostTheLimit'
<1> USE DEF AtMostTheLimit
<1>0. /\ overruns \in Nat /\ overruns' \in Nat /\ cursor \in Nat /\ cursor' \in Nat
      /\ MaxAttempts \in Nat
      /\ \A n \in Entry : n \in Nat /\ tried[n] \in Nat
  <2>1. \A n \in Entry : tried[n] <= tried'[n]
    BY CountsAreNumbers
  <2> QED BY <2>1, CountsGrow
<1>1. Untried'
  BY <1>0 DEF Untried
<1>2. \A n : /\ Cardinality(Starters(n)') <= Cardinality(Starters(n))
             /\ Cardinality(Starters(n)') \in Nat /\ Cardinality(Starters(n)) \in Nat
  <2> SUFFICES ASSUME NEW n PROVE Starters(n)' \subseteq Starters(n)
    BY FewerStarters
  <2> QED BY DEF Starters
<1>3. \A n \in DOMAIN pending' : /\ n \in DOMAIN pending /\ n \in Entry /\ pending'[n] = pending[n]
                                 /\ pending[n].count \in Nat
                                 /\ IdleBit(n)' = IdleBit(n) /\ IdleBit(n) \in {0, 1}
  BY CountsAreNumbers DEF IdleBit
<1>4. TriesAreDelivered'
  <2> SUFFICES ASSUME NEW n \in DOMAIN pending'
               PROVE  tried'[n] + Cardinality(Starters(n)') <= pending'[n].count
    BY DEF TriesAreDelivered
  <2>1. tried[n] + Cardinality(Starters(n)) <= pending[n].count
    BY <1>3 DEF TriesAreDelivered
  <2> QED BY <1>0, <1>2, <1>3, <2>1
<1>5. ListingsAreFresh'
  <2> SUFFICES ASSUME NEW c \in Consumer, NEW l \in listed'[c], l.id \in DOMAIN pending'
               PROVE  /\ l.delivered <= pending'[l.id].count
                      /\ pending'[l.id].count + IdleBit(l.id)' <= l.delivered + 1 + overruns'
    BY DEF ListingsAreFresh
  <2>1. l.delivered \in Nat
    BY TypeOKInParts DEF LoopTypeOK, Listing
  <2>2. CASE l \in listed[c]
    <3>1. /\ l.delivered <= pending[l.id].count
          /\ pending[l.id].count + IdleBit(l.id) <= l.delivered + 1 + overruns
      BY <1>3, <2>2 DEF ListingsAreFresh
    <3> QED BY <1>0, <1>3, <2>1, <3>1
  <2>3. CASE l.delivered = pending[l.id].count
    BY <1>0, <1>3, <2>1, <2>3
  <2> QED BY <2>2, <2>3
<1>6. AttemptsAreFresh' /\ StartsAreFew'
  <2> SUFFICES ASSUME NEW c \in Consumer, NEW t \in Waiting(c)'
               PROVE  /\ tried'[t.id] + Cardinality(Starters(t.id)') <= t.attempt + overruns'
                      /\ t.id \in DOMAIN pending' =>
                           pending'[t.id].count + IdleBit(t.id)' <= t.attempt + overruns'
    BY DEF AttemptsAreFresh, StartsAreFew
  <2>1. t \in Waiting(c) /\ t.id \in Entry /\ t.attempt \in Nat
    BY WaitingAreTasks
  <2>2. tried[t.id] + Cardinality(Starters(t.id)) <= t.attempt + overruns
    BY <2>1 DEF StartsAreFew
  <2>3. t.id \in DOMAIN pending => pending[t.id].count + IdleBit(t.id) <= t.attempt + overruns
    BY <2>1 DEF AttemptsAreFresh
  <2>4. tried'[t.id] + Cardinality(Starters(t.id)') <= t.attempt + overruns'
    BY <1>0, <1>2, <2>1, <2>2
  <2> QED BY <1>0, <1>3, <2>1, <2>3, <2>4
<1>7. TriesAreBounded'
  BY <1>0 DEF TriesAreBounded
<1> QED BY <1>1, <1>4, <1>5, <1>6, <1>7

LEMMA LimitStaysBelow ==
  ASSUME TypeOK, TypeOK', AtLeastTheLimit, overruns <= overruns', faults <= faults',
         UNCHANGED tried,
         \A c \in Consumer : Waiting(c)' \subseteq Waiting(c),
         \A n \in DOMAIN pending' : n \in DOMAIN pending /\ pending'[n] = pending[n],
         faults' = faults + 1 \/ \A n \in DOMAIN pending' : Keepers(n) \subseteq Keepers(n)',
         \A c \in Consumer : pc'[c] = "dlq" => MaxAttempts <= Trouble(task'[c].id),
         \A n \in dead' : n \in dead \/ MaxAttempts <= Trouble(n)
  PROVE  AtLeastTheLimit'
<1> USE DEF AtLeastTheLimit
<1>0. /\ overruns \in Nat /\ overruns' \in Nat /\ faults \in Nat /\ faults' \in Nat
      /\ MaxAttempts \in Nat
      /\ \A n \in Entry : tried[n] \in Nat /\ tried'[n] = tried[n]
      /\ \A n \in Entry : /\ Trouble(n) \in Nat /\ Trouble(n)' \in Nat
                          /\ Trouble(n) <= Trouble(n)'
  <2>1. \A n \in Entry : tried[n] <= tried'[n]
    BY CountsAreNumbers
  <2> QED BY <2>1, CountsGrow
<1>1. \A n \in Entry : faults' = faults + 1 => Trouble(n) + 1 <= Trouble(n)'
  BY <1>0 DEF Trouble
<1>2. DeliveriesAreTried'
  <2> SUFFICES ASSUME NEW n \in DOMAIN pending'
               PROVE  /\ pending'[n].count + IdleBit(n)' <= Trouble(n)' + 1
                      /\ Keepers(n)' = {} => pending'[n].count <= Trouble(n)'
    BY DEF DeliveriesAreTried
  <2>1. /\ n \in DOMAIN pending /\ n \in Entry /\ pending'[n] = pending[n]
        /\ pending[n].count \in Nat
        /\ IdleBit(n)' = IdleBit(n) /\ IdleBit(n) \in {0, 1}
    BY CountsAreNumbers DEF IdleBit
  <2>2. /\ pending[n].count + IdleBit(n) <= Trouble(n) + 1
        /\ Keepers(n) = {} => pending[n].count <= Trouble(n)
    BY <2>1 DEF DeliveriesAreTried
  <2>3. Keepers(n)' = {} => Keepers(n) = {} \/ faults' = faults + 1
    OBVIOUS
  <2> QED BY <1>0, <1>1, <2>1, <2>2, <2>3
<1>3. AttemptsAreEarned'
  <2> SUFFICES ASSUME NEW c \in Consumer, NEW t \in Waiting(c)'
               PROVE  t.attempt <= Trouble(t.id)' + 1
    BY DEF AttemptsAreEarned
  <2>1. t \in Waiting(c) /\ t.id \in Entry /\ t.attempt \in Nat
    BY WaitingAreTasks
  <2> QED BY <1>0, <2>1 DEF AttemptsAreEarned
<1>4. DeadAreTried'
  <2> SUFFICES ASSUME NEW c \in Consumer, pc'[c] = "dlq", NEW n, n = task'[c].id
               PROVE  MaxAttempts <= Trouble(n)'
    BY DEF DeadAreTried, Trouble
  <2>1. n \in Entry /\ MaxAttempts <= Trouble(n)
    BY TypeOKInParts DEF LoopTypeOK, NoTaskSteps, Task
  <2> QED BY <1>0, <2>1
<1>5. GivenUpAfterTrying'
  <2> SUFFICES ASSUME NEW n \in dead' PROVE MaxAttempts <= Trouble(n)'
    BY <1>0, TypeOKInParts DEF GivenUpAfterTrying, Trouble, RedisTypeOK, CountersTypeOK
  <2>1. n \in Entry
    BY TypeOKInParts DEF RedisTypeOK
  <2>2. MaxAttempts <= Trouble(n)
    BY <1>0, <2>1 DEF GivenUpAfterTrying, Trouble
  <2> QED BY <1>0, <2>1, <2>2
<1> QED BY <1>2, <1>3, <1>4, <1>5

(* A claim, counted from a listing; the worker may lose the task with the  *)
(* reply, at the price of a fault.                                         *)
LEMMA ClaimedStarters ==
  ASSUME NEW c \in Consumer, NEW t,
         Waiting(c)' \subseteq Waiting(c) \cup {t},
         \A d \in Consumer \ {c} : Waiting(d)' \subseteq Waiting(d)
  PROVE  /\ \A n : n # t.id => Cardinality(Starters(n)') <= Cardinality(Starters(n))
         /\ Cardinality(Starters(t.id)') <= Cardinality(Starters(t.id)) + 1
         /\ \A n : Cardinality(Starters(n)') \in Nat /\ Cardinality(Starters(n)) \in Nat
<1>1. /\ \A n : n # t.id => Starters(n)' \subseteq Starters(n)
      /\ Starters(t.id)' \subseteq Starters(t.id) \cup {c}
  BY DEF Starters
<1>2. Cardinality(Starters(t.id)') <= Cardinality(Starters(t.id)) + 1
  BY <1>1, StartersAreConsumers, OneMoreAtMost
<1>3. \A n : Cardinality(Starters(n)') \in Nat /\ Cardinality(Starters(n)) \in Nat
  <2> SUFFICES ASSUME NEW n
               PROVE  Cardinality(Starters(n)') \in Nat /\ Cardinality(Starters(n)) \in Nat
    OBVIOUS
  <2>1. Starters(n)' \subseteq Consumer
    BY DEF Starters
  <2> QED BY <2>1, StartersAreConsumers, ConsumersAreFinite, FS_Subset, FS_CardinalityType
<1> QED BY <1>1, <1>2, <1>3, FewerStarters

LEMMA ClaimStaysAbove ==
  ASSUME TypeOK, TypeOK', AtMostTheLimit, UNCHANGED <<tried, overruns, cursor>>,
         faults <= faults',
         NEW c \in Consumer, NEW l \in listed[c], Claimable(l.id), Xclaim(l.id),
         Waiting(c)' \subseteq Waiting(c) \cup {Claimed(l)},
         \A d \in Consumer \ {c} : Waiting(d)' \subseteq Waiting(d),
         \A d \in Consumer : listed'[d] \subseteq listed[d]
  PROVE  AtMostTheLimit'
<1> USE DEF AtMostTheLimit
<1> DEFINE t == Claimed(l)
<1>0. /\ overruns \in Nat /\ cursor \in Nat /\ MaxAttempts \in Nat
      /\ \A n \in Entry : n \in Nat /\ tried[n] \in Nat
  <2>1. overruns <= overruns' /\ \A n \in Entry : tried[n] <= tried'[n]
    BY CountsAreNumbers
  <2> QED BY <2>1, CountsGrow
<1>1. /\ l.id \in DOMAIN pending /\ l.id \in Entry /\ l.delivered \in Nat
      /\ t.id = l.id /\ t.attempt = l.delivered + 1
      /\ IdleBit(l.id) = 1 /\ IdleBit(l.id)' = 0
      /\ DOMAIN pending' = DOMAIN pending
      /\ pending'[l.id].count = pending[l.id].count + 1
  BY ListingsAreEntries DEF Claimable, Xclaim, Claimed, IdleBit
<1>2. \A n \in DOMAIN pending : /\ n \in Entry /\ pending[n].count \in Nat
                                /\ IdleBit(n) \in {0, 1}
                                /\ n # l.id => pending'[n] = pending[n] /\ IdleBit(n)' = IdleBit(n)
  BY CountsAreNumbers DEF Xclaim, IdleBit
<1>3. /\ \A n : n # l.id => Cardinality(Starters(n)') <= Cardinality(Starters(n))
      /\ Cardinality(Starters(l.id)') <= Cardinality(Starters(l.id)) + 1
      /\ \A n : Cardinality(Starters(n)') \in Nat /\ Cardinality(Starters(n)) \in Nat
  BY <1>1, ClaimedStarters
<1> HIDE DEF t
<1>4. TriesAreDelivered'
  <2> SUFFICES ASSUME NEW n \in DOMAIN pending
               PROVE  tried[n] + Cardinality(Starters(n)') <= pending'[n].count
    BY <1>1 DEF TriesAreDelivered
  <2>1. tried[n] + Cardinality(Starters(n)) <= pending[n].count
    BY DEF TriesAreDelivered
  <2>2. CASE n = l.id
    BY <1>0, <1>1, <1>2, <1>3, <2>1, <2>2
  <2>3. CASE n # l.id
    <3>1. Cardinality(Starters(n)') <= Cardinality(Starters(n)) /\ Cardinality(Starters(n)') \in Nat /\ Cardinality(Starters(n)) \in Nat
      BY <1>3, <2>3
    <3>2. n \in Entry /\ tried[n] \in Nat /\ pending'[n] = pending[n] /\ pending[n].count \in Nat
      BY <1>0, <1>2, <2>3
    <3> QED BY <3>1, <3>2, <2>1
  <2> QED BY <2>2, <2>3
<1>5. ListingsAreFresh'
  <2> SUFFICES ASSUME NEW d \in Consumer, NEW k \in listed[d], k.id \in DOMAIN pending
               PROVE  /\ k.delivered <= pending'[k.id].count
                      /\ pending'[k.id].count + IdleBit(k.id)' <= k.delivered + 1 + overruns
    BY <1>1 DEF ListingsAreFresh
  <2>1. k.delivered \in Nat
    BY ListingsAreEntries
  <2>2. /\ k.delivered <= pending[k.id].count
        /\ pending[k.id].count + IdleBit(k.id) <= k.delivered + 1 + overruns
    BY DEF ListingsAreFresh
  <2>3. CASE k.id = l.id
    BY <1>0, <1>1, <1>2, <2>1, <2>2, <2>3
  <2>4. CASE k.id # l.id
    BY <1>0, <1>2, <2>1, <2>2, <2>4
  <2> QED BY <2>3, <2>4
<1>6. AttemptsAreFresh'
  <2> SUFFICES ASSUME NEW d \in Consumer, NEW u \in Waiting(d)', u.id \in DOMAIN pending
               PROVE  pending'[u.id].count + IdleBit(u.id)' <= u.attempt + overruns
    BY <1>1 DEF AttemptsAreFresh
  <2>1. CASE u = t
    <3>1. pending[l.id].count + 1 <= l.delivered + 1 + overruns
      BY <1>1 DEF ListingsAreFresh
    <3> QED BY <1>0, <1>1, <1>2, <2>1, <3>1
  <2>2. CASE u # t
    <3>1. u \in Waiting(d)
      BY <2>2 DEF t
    <3>2. u.attempt \in Nat /\ pending[u.id].count + IdleBit(u.id) <= u.attempt + overruns
      BY <3>1, WaitingAreTasks DEF AttemptsAreFresh
    <3> QED BY <1>0, <1>1, <1>2, <3>2
  <2> QED BY <2>1, <2>2
<1>7. StartsAreFew'
  <2> SUFFICES ASSUME NEW d \in Consumer, NEW u \in Waiting(d)'
               PROVE  tried[u.id] + Cardinality(Starters(u.id)') <= u.attempt + overruns
    BY DEF StartsAreFew
  <2>1. u.id \in Entry /\ u.attempt \in Nat
    <3>1. u \in Waiting(d) \/ u = t
      BY DEF t
    <3> QED BY <1>1, <3>1, WaitingAreTasks
  <2>2. CASE u.id = l.id
    <3>1. tried[u.id] + Cardinality(Starters(u.id)') <= pending'[u.id].count
      BY <1>1, <1>4, <2>2 DEF TriesAreDelivered
    <3>2. pending'[u.id].count + 0 <= u.attempt + overruns
      BY <1>1, <1>6, <2>2 DEF AttemptsAreFresh
    <3> QED BY <1>0, <1>1, <1>2, <1>3, <2>1, <2>2, <3>1, <3>2
  <2>3. CASE u.id # l.id
    <3>1. u \in Waiting(d)
      BY <1>1, <2>3 DEF t
    <3>2. tried[u.id] + Cardinality(Starters(u.id)) <= u.attempt + overruns
      BY <3>1 DEF StartsAreFew
    <3> QED BY <1>0, <1>3, <2>1, <2>3, <3>2
  <2> QED BY <2>2, <2>3
<1>8. Untried' /\ TriesAreBounded'
  BY DEF Untried, TriesAreBounded
<1> QED BY <1>4, <1>5, <1>6, <1>7, <1>8

LEMMA DeadStayTried ==
  ASSUME TypeOK, TypeOK', DeadAreTried, GivenUpAfterTrying,
         UNCHANGED <<tried, overruns, dead>>, faults <= faults',
         \A d \in Consumer : pc'[d] = "dlq" => pc[d] = "dlq" /\ task'[d] = task[d]
  PROVE  DeadAreTried' /\ GivenUpAfterTrying'
<1>0. /\ faults \in Nat /\ faults' \in Nat /\ overruns \in Nat /\ MaxAttempts \in Nat
      /\ \A n \in Entry : tried[n] \in Nat
      /\ \A n \in Entry : /\ Trouble(n) \in Nat /\ Trouble(n)' \in Nat
                          /\ Trouble(n) <= Trouble(n)'
  <2>1. overruns <= overruns' /\ \A n \in Entry : tried[n] <= tried'[n]
    BY CountsAreNumbers
  <2> QED BY <2>1, CountsGrow
<1>1. DeadAreTried'
  <2> SUFFICES ASSUME NEW d \in Consumer, pc[d] = "dlq", NEW n, n = task[d].id
               PROVE  MaxAttempts <= Trouble(n)'
    BY DEF DeadAreTried, Trouble
  <2>1. n \in Entry /\ MaxAttempts <= Trouble(n)
    BY TypeOKInParts DEF LoopTypeOK, NoTaskSteps, Task, DeadAreTried
  <2> QED BY <1>0, <2>1
<1>2. GivenUpAfterTrying'
  <2>1. \A n \in dead : tried[n] \in Nat
    BY <1>0, TypeOKInParts DEF RedisTypeOK
  <2> QED BY <1>0, <2>1 DEF GivenUpAfterTrying
<1> QED BY <1>1, <1>2

LEMMA ClaimStaysBelow ==
  ASSUME TypeOK, TypeOK', AtMostTheLimit, AtLeastTheLimit,
         UNCHANGED <<tried, overruns, dead>>, faults <= faults',
         NEW c \in Consumer, NEW l \in listed[c], Claimable(l.id), Xclaim(l.id),
         Waiting(c)' \subseteq Waiting(c) \cup {Claimed(l)},
         \A d \in Consumer \ {c} : Waiting(d)' \subseteq Waiting(d),
         \/ faults' = faults + 1
         \/ /\ Keepers(l.id)' # {}
            /\ \A n \in DOMAIN pending : Keepers(n) \subseteq Keepers(n)',
         \A d \in Consumer : pc'[d] = "dlq" => pc[d] = "dlq" /\ task'[d] = task[d]
  PROVE  AtLeastTheLimit'
<1> USE DEF AtLeastTheLimit
<1> DEFINE t == Claimed(l)
<1>0. /\ faults \in Nat /\ faults' \in Nat /\ overruns \in Nat
      /\ MaxAttempts \in Nat
      /\ \A n \in Entry : tried[n] \in Nat
      /\ \A n \in Entry : /\ Trouble(n) \in Nat /\ Trouble(n)' \in Nat
                          /\ Trouble(n) <= Trouble(n)'
  <2>1. overruns <= overruns' /\ \A n \in Entry : tried[n] <= tried'[n]
    BY CountsAreNumbers
  <2> QED BY <2>1, CountsGrow
<1>1. \A n \in Entry : faults' = faults + 1 => Trouble(n) + 1 <= Trouble(n)'
  BY <1>0 DEF Trouble
<1>2. /\ l.id \in DOMAIN pending /\ l.id \in Entry /\ l.delivered \in Nat
      /\ t.id = l.id /\ t.attempt = l.delivered + 1
      /\ IdleBit(l.id) = 1 /\ IdleBit(l.id)' = 0
      /\ DOMAIN pending' = DOMAIN pending
      /\ pending'[l.id].count = pending[l.id].count + 1
  BY ListingsAreEntries DEF Claimable, Xclaim, Claimed, IdleBit
<1>3. \A n \in DOMAIN pending : /\ n \in Entry /\ pending[n].count \in Nat
                                /\ IdleBit(n) \in {0, 1}
                                /\ n # l.id => pending'[n] = pending[n] /\ IdleBit(n)' = IdleBit(n)
  BY CountsAreNumbers DEF Xclaim, IdleBit
<1>4. /\ pending[l.id].count + 1 <= Trouble(l.id) + 1
      /\ l.delivered <= pending[l.id].count
  BY <1>2 DEF DeliveriesAreTried, AtMostTheLimit, ListingsAreFresh
<1>5. DeliveriesAreTried'
  <2> SUFFICES ASSUME NEW n \in DOMAIN pending
               PROVE  /\ pending'[n].count + IdleBit(n)' <= Trouble(n)' + 1
                      /\ Keepers(n)' = {} => pending'[n].count <= Trouble(n)'
    BY <1>2 DEF DeliveriesAreTried
  <2>1. CASE n = l.id
    BY <1>0, <1>1, <1>2, <1>3, <1>4, <2>1
  <2>2. CASE n # l.id
    <3>1. /\ pending[n].count + IdleBit(n) <= Trouble(n) + 1
          /\ Keepers(n) = {} => pending[n].count <= Trouble(n)
      BY DEF DeliveriesAreTried
    <3>2. Keepers(n)' = {} => Keepers(n) = {} \/ faults' = faults + 1
      OBVIOUS
    <3> QED BY <1>0, <1>1, <1>3, <2>2, <3>1, <3>2
  <2> QED BY <2>1, <2>2
<1>6. AttemptsAreEarned'
  <2> SUFFICES ASSUME NEW d \in Consumer, NEW u \in Waiting(d)'
               PROVE  u.attempt <= Trouble(u.id)' + 1
    BY DEF AttemptsAreEarned
  <2>1. CASE u = t
    BY <1>0, <1>2, <1>3, <1>4, <2>1
  <2>2. CASE u \in Waiting(d)
    <3>1. u.id \in Entry /\ u.attempt \in Nat /\ u.attempt <= Trouble(u.id) + 1
      BY <2>2, WaitingAreTasks DEF AttemptsAreEarned
    <3> QED BY <1>0, <3>1
  <2> QED BY <2>1, <2>2
<1>7. DeadAreTried' /\ GivenUpAfterTrying'
  BY DeadStayTried
<1> QED BY <1>5, <1>6, <1>7

(* XREADGROUP: the entry is delivered for the first time.                  *)
LEMMA DeliveryStaysAbove ==
  ASSUME TypeOK, TypeOK', AtMostTheLimit, TasksAreDelivered, XreadGroup,
         UNCHANGED <<tried, overruns>>, faults <= faults',
         NEW c \in Consumer, NEW t, t = [id |-> cursor + 1, attempt |-> 1],
         Waiting(c)' \subseteq Waiting(c) \cup {t},
         \A d \in Consumer \ {c} : Waiting(d)' \subseteq Waiting(d),
         \A d \in Consumer : listed'[d] \subseteq listed[d]
  PROVE  AtMostTheLimit'
<1> USE DEF AtMostTheLimit
<1>0. /\ overruns \in Nat /\ cursor \in Nat /\ cursor' \in Nat /\ MaxAttempts \in Nat
      /\ \A n \in Entry : n \in Nat /\ tried[n] \in Nat
  <2>1. overruns <= overruns' /\ \A n \in Entry : tried[n] <= tried'[n]
    BY CountsAreNumbers
  <2> QED BY <2>1, CountsGrow
<1>1. /\ t.id = cursor + 1 /\ t.attempt = 1
      /\ t.id \in Entry /\ cursor' = cursor + 1
      /\ DOMAIN pending' = DOMAIN pending \cup {t.id}
      /\ t.id \notin DOMAIN pending
      /\ pending'[t.id].count = 1 /\ IdleBit(t.id)' = 0
  <2>1. t.id = cursor + 1 /\ t.attempt = 1
    OBVIOUS
  <2>2. t.id \in Entry /\ cursor' = cursor + 1
    BY <2>1, XreadGroupKeepsRedis, TypeOKInParts
  <2>3. t.id \notin DOMAIN pending
    BY <1>0, <2>1, TypeOKInParts DEF RedisTypeOK
  <2>4. /\ DOMAIN pending' = DOMAIN pending \cup {t.id}
        /\ pending'[t.id] = [count |-> 1, idle |-> FALSE]
    BY <2>1 DEF XreadGroup
  <2> QED BY <2>1, <2>2, <2>3, <2>4 DEF IdleBit
<1>2. \A n \in DOMAIN pending : /\ n \in Entry /\ pending[n].count \in Nat
                                /\ IdleBit(n) \in {0, 1}
                                /\ pending'[n] = pending[n] /\ IdleBit(n)' = IdleBit(n)
                                /\ n # t.id
  BY <1>1, CountsAreNumbers DEF XreadGroup, IdleBit
<1>3. /\ \A n : n # t.id => Cardinality(Starters(n)') <= Cardinality(Starters(n))
      /\ Cardinality(Starters(t.id)') <= Cardinality(Starters(t.id)) + 1
      /\ \A n : Cardinality(Starters(n)') \in Nat /\ Cardinality(Starters(n)) \in Nat
  BY ClaimedStarters
<1>4. \A d \in Consumer : \A u \in Held(d) : u.id # t.id /\ u.id \in Entry /\ u.attempt \in Nat
  <2> SUFFICES ASSUME NEW d \in Consumer, NEW u \in Held(d)
               PROVE  u.id # t.id /\ u.id \in Entry /\ u.attempt \in Nat
    OBVIOUS
  <2>1. u.id \in Entry /\ u.attempt \in Nat /\ u.id <= cursor
    BY WaitingAreTasks DEF TasksAreDelivered, Known
  <2> QED BY <1>0, <1>1, <2>1
<1>5. Cardinality(Starters(t.id)) = 0 /\ tried[t.id] = 0
  <2>1. Starters(t.id) = {}
    BY <1>4, WaitingAreTasks DEF Starters
  <2>2. tried[t.id] = 0
    BY <1>0, <1>1 DEF Untried
  <2> QED BY <2>1, <2>2, FS_EmptySet
<1>6. TriesAreDelivered'
  <2> SUFFICES ASSUME NEW n \in DOMAIN pending \cup {t.id}
               PROVE  tried[n] + Cardinality(Starters(n)') <= pending'[n].count
    BY <1>1 DEF TriesAreDelivered
  <2>1. CASE n = t.id
    BY <1>1, <1>3, <1>5, <2>1
  <2>2. CASE n \in DOMAIN pending
    <3>1. tried[n] + Cardinality(Starters(n)) <= pending[n].count
      BY <2>2 DEF TriesAreDelivered
    <3> QED BY <1>0, <1>2, <1>3, <2>2, <3>1
  <2> QED BY <2>1, <2>2
<1>7. ListingsAreFresh'
  <2> SUFFICES ASSUME NEW d \in Consumer, NEW k \in listed[d],
                      k.id \in DOMAIN pending \cup {t.id}
               PROVE  /\ k.delivered <= pending'[k.id].count
                      /\ pending'[k.id].count + IdleBit(k.id)' <= k.delivered + 1 + overruns
    BY <1>1 DEF ListingsAreFresh
  <2>1. k.id \in Entry /\ k.id <= cursor
    BY ListingsAreEntries DEF TasksAreDelivered, Known
  <2>2. k.id \in DOMAIN pending
    BY <1>0, <1>1, <2>1
  <2> QED BY <1>2, <2>2 DEF ListingsAreFresh
<1>8. AttemptsAreFresh' /\ StartsAreFew'
  <2> SUFFICES ASSUME NEW d \in Consumer, NEW u \in Waiting(d)'
               PROVE  /\ tried[u.id] + Cardinality(Starters(u.id)') <= u.attempt + overruns
                      /\ u.id \in DOMAIN pending \cup {t.id} =>
                           pending'[u.id].count + IdleBit(u.id)' <= u.attempt + overruns
    BY <1>1 DEF AttemptsAreFresh, StartsAreFew
  <2>1. CASE u = t
    BY <1>0, <1>1, <1>3, <1>5, <2>1
  <2>2. CASE u # t
    <3>1. u \in Waiting(d)
      BY <2>2
    <3>2. u.id # t.id /\ u.id \in Entry /\ u.attempt \in Nat
      BY <1>4, <3>1, WaitingAreTasks
    <3>3. tried[u.id] + Cardinality(Starters(u.id)) <= u.attempt + overruns
      BY <3>1 DEF StartsAreFew
    <3>4. tried[u.id] + Cardinality(Starters(u.id)') <= u.attempt + overruns
      BY <1>0, <1>3, <3>2, <3>3
    <3>5. ASSUME u.id \in DOMAIN pending
          PROVE  pending'[u.id].count + IdleBit(u.id)' <= u.attempt + overruns
      <4>1. pending[u.id].count + IdleBit(u.id) <= u.attempt + overruns
        BY <3>1, <3>5 DEF AttemptsAreFresh
      <4> QED BY <1>2, <3>5, <4>1
    <3> QED BY <3>2, <3>4, <3>5
  <2> QED BY <2>1, <2>2
<1>9. Untried' /\ TriesAreBounded'
  BY <1>0, <1>1 DEF Untried, TriesAreBounded
<1> QED BY <1>6, <1>7, <1>8, <1>9

LEMMA DeliveryStaysBelow ==
  ASSUME TypeOK, TypeOK', AtLeastTheLimit, XreadGroup,
         UNCHANGED <<tried, overruns, dead>>, faults <= faults',
         NEW c \in Consumer, NEW t, t = [id |-> cursor + 1, attempt |-> 1],
         Waiting(c)' \subseteq Waiting(c) \cup {t},
         \A d \in Consumer \ {c} : Waiting(d)' \subseteq Waiting(d),
         \/ faults' = faults + 1
         \/ /\ Keepers(t.id)' # {}
            /\ \A n \in DOMAIN pending : Keepers(n) \subseteq Keepers(n)',
         \A d \in Consumer : pc'[d] = "dlq" => pc[d] = "dlq" /\ task'[d] = task[d]
  PROVE  AtLeastTheLimit'
<1> USE DEF AtLeastTheLimit
<1>0. /\ faults \in Nat /\ faults' \in Nat /\ overruns \in Nat
      /\ MaxAttempts \in Nat /\ cursor \in Nat
      /\ \A n \in Entry : tried[n] \in Nat
      /\ \A n \in Entry : /\ Trouble(n) \in Nat /\ Trouble(n)' \in Nat
                          /\ Trouble(n) <= Trouble(n)'
  <2>1. overruns <= overruns' /\ \A n \in Entry : tried[n] <= tried'[n]
    BY CountsAreNumbers
  <2> QED BY <2>1, CountsGrow
<1>1. \A n \in Entry : faults' = faults + 1 => Trouble(n) + 1 <= Trouble(n)'
  BY <1>0 DEF Trouble
<1>2. /\ t.id = cursor + 1 /\ t.attempt = 1
      /\ t.id \in Entry
      /\ DOMAIN pending' = DOMAIN pending \cup {t.id}
      /\ t.id \notin DOMAIN pending
      /\ pending'[t.id].count = 1 /\ IdleBit(t.id)' = 0
  <2>1. t.id = cursor + 1 /\ t.attempt = 1
    OBVIOUS
  <2>2. t.id \in Entry
    BY <2>1, XreadGroupKeepsRedis, TypeOKInParts
  <2>3. t.id \notin DOMAIN pending
    BY <1>0, <2>1, TypeOKInParts DEF RedisTypeOK
  <2>4. /\ DOMAIN pending' = DOMAIN pending \cup {t.id}
        /\ pending'[t.id] = [count |-> 1, idle |-> FALSE]
    BY <2>1 DEF XreadGroup
  <2> QED BY <2>1, <2>2, <2>3, <2>4 DEF IdleBit
<1>3. \A n \in DOMAIN pending : /\ n \in Entry /\ pending[n].count \in Nat
                                /\ IdleBit(n) \in {0, 1}
                                /\ pending'[n] = pending[n] /\ IdleBit(n)' = IdleBit(n)
                                /\ n # t.id
  BY <1>2, CountsAreNumbers DEF XreadGroup, IdleBit
<1>4. DeliveriesAreTried'
  <2> SUFFICES ASSUME NEW n \in DOMAIN pending \cup {t.id}
               PROVE  /\ pending'[n].count + IdleBit(n)' <= Trouble(n)' + 1
                      /\ Keepers(n)' = {} => pending'[n].count <= Trouble(n)'
    BY <1>2 DEF DeliveriesAreTried
  <2>1. CASE n = t.id
    BY <1>0, <1>1, <1>2, <2>1
  <2>2. CASE n \in DOMAIN pending
    <3>1. /\ pending[n].count + IdleBit(n) <= Trouble(n) + 1
          /\ Keepers(n) = {} => pending[n].count <= Trouble(n)
      BY <2>2 DEF DeliveriesAreTried
    <3>2. Keepers(n)' = {} => Keepers(n) = {} \/ faults' = faults + 1
      BY <2>2
    <3> QED BY <1>0, <1>1, <1>3, <2>2, <3>1, <3>2
  <2> QED BY <2>1, <2>2
<1>5. AttemptsAreEarned'
  <2> SUFFICES ASSUME NEW d \in Consumer, NEW u \in Waiting(d)'
               PROVE  u.attempt <= Trouble(u.id)' + 1
    BY DEF AttemptsAreEarned
  <2>1. CASE u = t
    BY <1>0, <1>2, <2>1
  <2>2. CASE u \in Waiting(d)
    <3>1. u.id \in Entry /\ u.attempt \in Nat /\ u.attempt <= Trouble(u.id) + 1
      BY <2>2, WaitingAreTasks DEF AttemptsAreEarned
    <3> QED BY <1>0, <3>1
  <2> QED BY <2>1, <2>2
<1>6. DeadAreTried' /\ GivenUpAfterTrying'
  BY DeadStayTried
<1> QED BY <1>4, <1>5, <1>6

(* A task is begun: one start less, one try more.                          *)
LEMMA EnteringIsCounted ==
  ASSUME TypeOK, TypeOK', WorkersAreOrderly, TasksAreDelivered,
         AtMostTheLimit, AtLeastTheLimit, NEW c \in Consumer, Enter(c),
         NEW t, t = task[c]
  PROVE  AtMostTheLimit' /\ AtLeastTheLimit'
<1> USE DEF AtMostTheLimit, AtLeastTheLimit
<1>1. /\ UNCHANGED <<entries, lost, group, cursor, pending, dead, listed, batch, task,
                     faults, overruns>>
      /\ pc[c] = "begin" /\ ~(t.attempt > MaxAttempts)
      /\ tried' = [tried EXCEPT ![t.id] = @ + 1]
      /\ pc'[c] = "work" /\ \A d \in Consumer \ {c} : pc'[d] = pc[d]
  BY TypeOKInParts DEF Enter, Exhausted, redis, counters, LoopTypeOK
<1>2. t \in Task /\ t \in Waiting(c) /\ t \in Held(c) /\ t.id \in Entry /\ t.attempt \in Nat
      /\ t.id <= cursor
  <2>1. t \in Waiting(c)
    BY <1>1 DEF Waiting
  <2> QED BY <2>1, WaitingAreTasks DEF TasksAreDelivered, Known
<1>3. /\ tried'[t.id] = tried[t.id] + 1
      /\ \A n \in Entry : tried[n] \in Nat /\ (n # t.id => tried'[n] = tried[n])
  BY <1>1, <1>2, TypeOKInParts DEF CountersTypeOK
<1>4. /\ faults \in Nat /\ overruns \in Nat /\ cursor \in Nat /\ MaxAttempts \in Nat
      /\ \A n \in Entry : /\ n \in Nat /\ tried'[n] \in Nat
                          /\ Trouble(n) \in Nat /\ Trouble(n)' \in Nat
                          /\ Trouble(n) <= Trouble(n)'
  <2>1. /\ faults <= faults' /\ overruns <= overruns'
        /\ \A n \in Entry : tried[n] <= tried'[n]
    BY <1>1, <1>2, <1>3, CountsAreNumbers
  <2> QED BY <2>1, CountsGrow
<1>5. Trouble(t.id)' = Trouble(t.id) + 1
  BY <1>1, <1>2, <1>3, <1>4 DEF Trouble
<1>6. /\ Waiting(c)' = batch[c] /\ batch[c] \subseteq Waiting(c)
      /\ \A d \in Consumer \ {c} : Waiting(d)' = Waiting(d)
      /\ \A u \in Waiting(c)' : u.id # t.id
  <2>1. Waiting(c)' = batch[c] /\ batch[c] \subseteq Waiting(c)
    BY <1>1 DEF Waiting
  <2>2. \A d \in Consumer \ {c} : Waiting(d)' = Waiting(d)
    BY <1>1 DEF Waiting
  <2>3. \A u \in batch[c] : u.id # t.id
    BY <1>2, NoTaskIsNoTask DEF WorkersAreOrderly, Orderly
  <2> QED BY <2>1, <2>2, <2>3
<1>7. /\ \A n : Cardinality(Starters(n)') <= Cardinality(Starters(n))
      /\ \A n : Cardinality(Starters(n)') \in Nat /\ Cardinality(Starters(n)) \in Nat
      /\ Cardinality(Starters(t.id)') + 1 = Cardinality(Starters(t.id))
  <2>1. \A n : Starters(n)' \subseteq Starters(n)
    BY <1>6 DEF Starters
  <2>2. Starters(t.id)' = Starters(t.id) \ {c}
    BY <1>6 DEF Starters
  <2>3. c \in Starters(t.id) /\ IsFiniteSet(Starters(t.id))
    BY <1>2, StartersAreConsumers DEF Starters
  <2>4. Cardinality(Starters(t.id)') = Cardinality(Starters(t.id)) - 1
    BY <2>2, <2>3, FS_RemoveElement
  <2>5. \A n : /\ Cardinality(Starters(n)') <= Cardinality(Starters(n))
               /\ Cardinality(Starters(n)') \in Nat /\ Cardinality(Starters(n)) \in Nat
    BY <2>1, FewerStarters
  <2> QED BY <2>4, <2>5
<1>8. \A n \in Entry : tried'[n] + Cardinality(Starters(n)') <= tried[n] + Cardinality(Starters(n))
  <2> SUFFICES ASSUME NEW n \in Entry
               PROVE  tried'[n] + Cardinality(Starters(n)') <= tried[n] + Cardinality(Starters(n))
    OBVIOUS
  <2>1. CASE n = t.id
    BY <1>2, <1>3, <1>7, <2>1
  <2>2. CASE n # t.id
    BY <1>3, <1>7, <2>2
  <2> QED BY <2>1, <2>2
<1>9. \A n \in DOMAIN pending : /\ n \in Entry /\ pending[n].count \in Nat
                                /\ IdleBit(n) \in {0, 1} /\ IdleBit(n)' = IdleBit(n)
  BY <1>1, CountsAreNumbers DEF IdleBit
<1>10. \A d \in Consumer : \A u \in Waiting(d)' :
         u \in Waiting(d) /\ u.id \in Entry /\ u.attempt \in Nat
  BY <1>6, WaitingAreTasks
<1>11. Untried'
  BY <1>1, <1>2, <1>3, <1>4 DEF Untried
<1>12. TriesAreDelivered'
  <2> SUFFICES ASSUME NEW n \in DOMAIN pending
               PROVE  tried'[n] + Cardinality(Starters(n)') <= pending[n].count
    BY <1>1 DEF TriesAreDelivered
  <2>1. tried[n] + Cardinality(Starters(n)) <= pending[n].count
    BY DEF TriesAreDelivered
  <2> QED BY <1>3, <1>4, <1>7, <1>8, <1>9, <2>1
<1>13. ListingsAreFresh'
  BY <1>1, <1>9 DEF ListingsAreFresh
<1>14. AttemptsAreFresh'
  BY <1>1, <1>9, <1>10 DEF AttemptsAreFresh
<1>15. StartsAreFew'
  <2> SUFFICES ASSUME NEW d \in Consumer, NEW u \in Waiting(d)'
               PROVE  tried'[u.id] + Cardinality(Starters(u.id)') <= u.attempt + overruns
    BY <1>1 DEF StartsAreFew
  <2>1. /\ u.id \in Entry /\ u.attempt \in Nat
        /\ tried[u.id] + Cardinality(Starters(u.id)) <= u.attempt + overruns
    BY <1>10 DEF StartsAreFew
  <2> QED BY <1>3, <1>4, <1>7, <1>8, <2>1
<1>16. TriesAreBounded'
  <2>1. tried[t.id] + Cardinality(Starters(t.id)) <= t.attempt + overruns
    BY <1>2 DEF StartsAreFew
  <2>2. tried'[t.id] <= MaxAttempts + overruns
    BY <1>1, <1>2, <1>3, <1>4, <1>7, <2>1
  <2> QED BY <1>1, <1>3, <2>2 DEF TriesAreBounded
<1>17. DeliveriesAreTried'
  <2> SUFFICES ASSUME NEW n \in DOMAIN pending
               PROVE  /\ pending[n].count + IdleBit(n) <= Trouble(n)' + 1
                      /\ Keepers(n)' = {} => pending[n].count <= Trouble(n)'
    BY <1>1, <1>9 DEF DeliveriesAreTried
  <2>1. /\ pending[n].count + IdleBit(n) <= Trouble(n) + 1
        /\ Keepers(n) = {} => pending[n].count <= Trouble(n)
    BY DEF DeliveriesAreTried
  <2>2. CASE n = t.id
    BY <1>4, <1>5, <1>9, <2>1, <2>2
  <2>3. CASE n # t.id
    <3>1. Keepers(n) \subseteq Keepers(n)'
      BY <1>1, <2>3 DEF Keepers, Held
    <3> QED BY <1>4, <1>9, <2>1, <3>1
  <2> QED BY <2>2, <2>3
<1>18. AttemptsAreEarned'
  BY <1>4, <1>10 DEF AttemptsAreEarned
<1>19. DeadAreTried'
  <2> SUFFICES ASSUME NEW d \in Consumer, pc[d] = "dlq", NEW n, n = task[d].id
               PROVE  MaxAttempts <= Trouble(n)'
    BY <1>1 DEF DeadAreTried, Trouble
  <2>1. n \in Entry /\ MaxAttempts <= Trouble(n)
    BY TypeOKInParts DEF LoopTypeOK, NoTaskSteps, Task, DeadAreTried
  <2> QED BY <1>4, <2>1
<1>20. GivenUpAfterTrying'
  <2>1. \A n \in dead : n \in Entry /\ tried[n] <= tried'[n]
    <3>1. \A n \in Entry : tried[n] <= tried'[n]
      BY <1>2, <1>3
    <3>2. dead \subseteq Entry
      BY TypeOKInParts DEF RedisTypeOK
    <3> QED BY <3>1, <3>2
  <2> QED BY <1>1, <1>3, <1>4, <2>1 DEF GivenUpAfterTrying
<1> QED BY <1>11, <1>12, <1>13, <1>14, <1>15, <1>16, <1>17, <1>18, <1>19, <1>20

(* An entry passes the threshold: in nobody's hands, or at the price of an *)
(* overrun.                                                                *)
LEMMA IdlingIsCounted ==
  ASSUME TypeOK, TypeOK', AtMostTheLimit, AtLeastTheLimit,
         NEW n \in Entry, AbandonedIdles(n) \/ HeldIdles(n)
  PROVE  AtMostTheLimit' /\ AtLeastTheLimit'
<1> USE DEF AtMostTheLimit, AtLeastTheLimit
<1>1. /\ UNCHANGED <<entries, lost, group, cursor, dead, pc, listed, batch, task, tried, faults>>
      /\ n \in DOMAIN pending /\ ~pending[n].idle
      /\ pending' = [pending EXCEPT ![n].idle = TRUE]
  BY DEF AbandonedIdles, HeldIdles, PassThreshold, loop, counters
<1>2. \/ overruns' = overruns + 1
      \/ /\ overruns' = overruns
         /\ \A c \in Consumer : /\ \A t \in Held(c) : t.id # n
                               /\ \A l \in listed[c] : l.id # n
  BY DEF AbandonedIdles, HeldIdles, Users, Holders, counters
<1>3. /\ faults \in Nat /\ overruns \in Nat /\ overruns' \in Nat /\ MaxAttempts \in Nat
      /\ overruns <= overruns'
      /\ \A m \in Entry : /\ tried[m] \in Nat /\ Trouble(m) \in Nat /\ Trouble(m)' \in Nat
                          /\ Trouble(m) <= Trouble(m)'
                          /\ overruns' = overruns + 1 => Trouble(m)' = Trouble(m) + 1
  <2>1. /\ faults <= faults' /\ overruns <= overruns'
        /\ \A m \in Entry : tried[m] <= tried'[m]
    BY <1>1, <1>2, CountsAreNumbers
  <2> QED BY <1>1, <2>1, CountsGrow DEF Trouble
<1>4. /\ DOMAIN pending' = DOMAIN pending
      /\ IdleBit(n) = 0 /\ IdleBit(n)' = 1
      /\ \A m \in DOMAIN pending : /\ m \in Entry /\ pending[m].count \in Nat
                                   /\ pending'[m].count = pending[m].count
                                   /\ IdleBit(m) \in {0, 1}
                                   /\ m # n => IdleBit(m)' = IdleBit(m)
  <2>1. pending \in [DOMAIN pending -> [count : Nat, idle : BOOLEAN]]
    BY TypeOKInParts DEF RedisTypeOK
  <2>2. DOMAIN pending' = DOMAIN pending
    BY <1>1
  <2>3. pending'[n].idle /\ pending'[n].count = pending[n].count
    BY <1>1, <2>1
  <2>4. \A m \in DOMAIN pending : m # n => pending'[m] = pending[m]
    BY <1>1
  <2> QED BY <1>1, <2>2, <2>3, <2>4, CountsAreNumbers DEF IdleBit
<1>5. \A c \in Consumer : Waiting(c)' = Waiting(c) /\ Waiting(c) \subseteq Held(c)
  BY <1>1, WaitingAreTasks DEF Waiting
<1>6. \A m : Starters(m)' = Starters(m) /\ Keepers(m)' = Keepers(m)
  BY <1>1, <1>5 DEF Starters, Keepers, Held
<1>7. Untried' /\ TriesAreBounded'
  BY <1>1, <1>3, CountsAreNumbers DEF Untried, TriesAreBounded
<1>8. TriesAreDelivered'
  BY <1>1, <1>4, <1>6 DEF TriesAreDelivered
<1>9. ListingsAreFresh'
  <2> SUFFICES ASSUME NEW d \in Consumer, NEW k \in listed[d], k.id \in DOMAIN pending
               PROVE  /\ k.delivered <= pending'[k.id].count
                      /\ pending'[k.id].count + IdleBit(k.id)' <= k.delivered + 1 + overruns'
    BY <1>1, <1>4 DEF ListingsAreFresh
  <2>1. k.delivered \in Nat
    BY ListingsAreEntries
  <2>2. /\ k.delivered <= pending[k.id].count
        /\ pending[k.id].count + IdleBit(k.id) <= k.delivered + 1 + overruns
    BY DEF ListingsAreFresh
  <2> QED BY <1>2, <1>3, <1>4, <2>1, <2>2
<1>10. AttemptsAreFresh'
  <2> SUFFICES ASSUME NEW d \in Consumer, NEW u \in Waiting(d), u.id \in DOMAIN pending
               PROVE  pending'[u.id].count + IdleBit(u.id)' <= u.attempt + overruns'
    BY <1>4, <1>5 DEF AttemptsAreFresh
  <2>1. u \in Held(d) /\ u.attempt \in Nat
    BY WaitingAreTasks
  <2>2. pending[u.id].count + IdleBit(u.id) <= u.attempt + overruns
    BY DEF AttemptsAreFresh
  <2> QED BY <1>2, <1>3, <1>4, <2>1, <2>2
<1>11. StartsAreFew'
  <2> SUFFICES ASSUME NEW d \in Consumer, NEW u \in Waiting(d)
               PROVE  tried[u.id] + Cardinality(Starters(u.id)) <= u.attempt + overruns'
    BY <1>1, <1>5, <1>6 DEF StartsAreFew
  <2>1. u.attempt \in Nat /\ u.id \in Entry /\ Cardinality(Starters(u.id)) \in Nat
    BY WaitingAreTasks, StartersAreConsumers
  <2>2. tried[u.id] + Cardinality(Starters(u.id)) <= u.attempt + overruns
    BY DEF StartsAreFew
  <2> QED BY <1>3, <2>1, <2>2
<1>12. DeliveriesAreTried'
  <2> SUFFICES ASSUME NEW m \in DOMAIN pending
               PROVE  /\ pending'[m].count + IdleBit(m)' <= Trouble(m)' + 1
                      /\ Keepers(m) = {} => pending'[m].count <= Trouble(m)'
    BY <1>4, <1>6 DEF DeliveriesAreTried
  <2>1. /\ pending[m].count + IdleBit(m) <= Trouble(m) + 1
        /\ Keepers(m) = {} => pending[m].count <= Trouble(m)
    BY DEF DeliveriesAreTried
  <2>2. CASE overruns' = overruns + 1 \/ m # n
    BY <1>3, <1>4, <2>1, <2>2
  <2>3. CASE m = n /\ \A c \in Consumer : \A t \in Held(c) : t.id # n
    <3>1. Keepers(m) = {}
      BY <2>3 DEF Keepers
    <3> QED BY <1>3, <1>4, <2>1, <2>3, <3>1
  <2> QED BY <1>2, <2>2, <2>3
<1>13. AttemptsAreEarned'
  <2> SUFFICES ASSUME NEW d \in Consumer, NEW u \in Waiting(d)
               PROVE  u.attempt <= Trouble(u.id)' + 1
    BY <1>5 DEF AttemptsAreEarned
  <2>1. u.attempt \in Nat /\ u.id \in Entry /\ u.attempt <= Trouble(u.id) + 1
    BY WaitingAreTasks DEF AttemptsAreEarned
  <2> QED BY <1>3, <2>1
<1>14. DeadAreTried'
  <2> SUFFICES ASSUME NEW d \in Consumer, pc[d] = "dlq", NEW m, m = task[d].id
               PROVE  MaxAttempts <= Trouble(m)'
    BY <1>1 DEF DeadAreTried, Trouble
  <2>1. m \in Entry /\ MaxAttempts <= Trouble(m)
    BY TypeOKInParts DEF LoopTypeOK, NoTaskSteps, Task, DeadAreTried
  <2> QED BY <1>3, <2>1
<1>15. GivenUpAfterTrying'
  <2>1. \A m \in dead : m \in Entry
    BY TypeOKInParts DEF RedisTypeOK
  <2> QED BY <1>1, <1>3, <2>1 DEF GivenUpAfterTrying
<1> QED BY <1>7, <1>8, <1>9, <1>10, <1>11, <1>12, <1>13, <1>14, <1>15

-----------------------------------------------------------------------------
(* What a step of one worker does to what waits and what is kept.          *)

LEMMA OthersKeep ==
  ASSUME NEW c \in Consumer,
         \A d \in Consumer \ {c} : /\ pc'[d] = pc[d] /\ listed'[d] = listed[d]
                                  /\ batch'[d] = batch[d] /\ task'[d] = task[d]
  PROVE  /\ \A d \in Consumer \ {c} : Waiting(d)' = Waiting(d)
         /\ \A n : Keepers(n) \ {c} \subseteq Keepers(n)'
BY DEF Waiting, Keepers, Held

LEMMA DropForgets ==
  ASSUME TypeOK, NEW c \in Consumer, NEW next \in {"down", "poll"}, Drop(c, next)
  PROVE  /\ Waiting(c)' = {} /\ listed'[c] = {} /\ pc'[c] = next
         /\ \A d \in Consumer \ {c} : /\ pc'[d] = pc[d] /\ listed'[d] = listed[d]
                                     /\ batch'[d] = batch[d] /\ task'[d] = task[d]
BY TypeOKInParts DEF LoopTypeOK, Drop, Waiting

LEMMA WorkOnWaits ==
  ASSUME TypeOK, NEW c \in Consumer, NEW tasks \in SUBSET Task, WorkOn(c, tasks)
  PROVE  /\ Waiting(c)' = tasks /\ listed'[c] \subseteq listed[c]
         /\ pc'[c] \in {"poll", "begin"}
         /\ \A t \in tasks : c \in Keepers(t.id)'
         /\ \A d \in Consumer \ {c} : /\ pc'[d] = pc[d] /\ listed'[d] = listed[d]
                                     /\ batch'[d] = batch[d] /\ task'[d] = task[d]
<1>1. CASE tasks = {} /\ Drop(c, "poll")
  BY <1>1, DropForgets
<1>2. ASSUME NEW t \in tasks,
             /\ task' = [task EXCEPT ![c] = t]
             /\ batch' = [batch EXCEPT ![c] = tasks \ {t}]
             /\ pc' = [pc EXCEPT ![c] = "begin"]
             /\ UNCHANGED listed
      PROVE  /\ Waiting(c)' = tasks /\ listed'[c] \subseteq listed[c]
             /\ pc'[c] \in {"poll", "begin"}
             /\ \A u \in tasks : c \in Keepers(u.id)'
             /\ \A d \in Consumer \ {c} : /\ pc'[d] = pc[d] /\ listed'[d] = listed[d]
                                         /\ batch'[d] = batch[d] /\ task'[d] = task[d]
  <2>1. /\ task'[c] = t /\ batch'[c] = tasks \ {t} /\ pc'[c] = "begin"
        /\ \A d \in Consumer \ {c} : /\ pc'[d] = pc[d] /\ listed'[d] = listed[d]
                                    /\ batch'[d] = batch[d] /\ task'[d] = task[d]
    BY <1>2, TypeOKInParts DEF LoopTypeOK
  <2>2. Waiting(c)' = tasks
    BY <2>1 DEF Waiting
  <2>3. Held(c)' = tasks
    BY <2>1, NoTaskIsNoTask DEF Held
  <2>4. \A u \in tasks : c \in Keepers(u.id)'
    <3> SUFFICES ASSUME NEW u \in tasks PROVE c \in Keepers(u.id)'
      OBVIOUS
    <3> QED BY <2>1, <2>3 DEF Keepers
  <2> QED BY <1>2, <2>1, <2>2, <2>4
<1> QED BY <1>1, <1>2 DEF WorkOn

(* A step of one worker that forgets tasks only if it may.                 *)
LEMMA WorkerStepIsCounted ==
  ASSUME TriesInv, TypeOK', NEW c \in Consumer,
         UNCHANGED <<tried, overruns>>, faults <= faults', cursor <= cursor',
         \A n \in DOMAIN pending' : n \in DOMAIN pending /\ pending'[n] = pending[n],
         \A d \in Consumer \ {c} : /\ pc'[d] = pc[d] /\ listed'[d] = listed[d]
                                  /\ batch'[d] = batch[d] /\ task'[d] = task[d],
         Waiting(c)' \subseteq Waiting(c),
         \A l \in listed'[c] :
           \/ l \in listed[c]
           \/ l.id \in DOMAIN pending /\ l.delivered = pending[l.id].count,
         faults' = faults + 1 \/ \A n \in DOMAIN pending' : c \in Keepers(n) => c \in Keepers(n)',
         pc'[c] = "dlq" => MaxAttempts <= Trouble(task'[c].id),
         \A n \in dead' : n \in dead \/ MaxAttempts <= Trouble(n)
  PROVE  AtMostTheLimit' /\ AtLeastTheLimit'
<1> USE DEF TriesInv, GroupInv
<1>1. /\ \A d \in Consumer \ {c} : Waiting(d)' = Waiting(d)
      /\ \A n : Keepers(n) \ {c} \subseteq Keepers(n)'
  BY OthersKeep
<1>2. overruns <= overruns'
  BY CountsAreNumbers
<1>3. \A d \in Consumer : Waiting(d)' \subseteq Waiting(d)
  BY <1>1
<1>4. \A d \in Consumer : \A l \in listed'[d] :
        \/ l \in listed[d]
        \/ l.id \in DOMAIN pending /\ l.delivered = pending[l.id].count
  OBVIOUS
<1>5. AtMostTheLimit'
  BY <1>2, <1>3, <1>4, LimitStaysAbove
<1>6. faults' = faults + 1 \/ \A n \in DOMAIN pending' : Keepers(n) \subseteq Keepers(n)'
  BY <1>1
<1>7. \A d \in Consumer : pc'[d] = "dlq" => MaxAttempts <= Trouble(task'[d].id)
  BY DEF AtLeastTheLimit, DeadAreTried
<1>8. AtLeastTheLimit'
  BY <1>2, <1>3, <1>6, <1>7, LimitStaysBelow
<1> QED BY <1>5, <1>8

LEMMA FreeHandsKeepNothing ==
  ASSUME TypeOK, NEW c \in Consumer, batch[c] = {},
         pc[c] \in NoTaskSteps \cup {"work"}
  PROVE  \A n : c \notin Keepers(n)
BY TypeOKInParts DEF Keepers, Held, LoopTypeOK, NoTaskSteps

(* Drop by a worker that had nothing to lose, or with a fault.             *)
LEMMA DroppingIsCounted ==
  ASSUME TriesInv, TypeOK', NEW c \in Consumer, NEW next \in {"down", "poll"}, Drop(c, next),
         UNCHANGED <<tried, overruns, dead>>, faults <= faults', cursor <= cursor',
         \A n \in DOMAIN pending' : n \in DOMAIN pending /\ pending'[n] = pending[n],
         \/ faults' = faults + 1
         \/ DOMAIN pending' = {}
         \/ pc[c] \in {"down", "poll", "read"}
  PROVE  AtMostTheLimit' /\ AtLeastTheLimit'
<1> USE DEF TriesInv, GroupInv
<1>1. /\ Waiting(c)' = {} /\ listed'[c] = {} /\ pc'[c] = next
      /\ \A d \in Consumer \ {c} : /\ pc'[d] = pc[d] /\ listed'[d] = listed[d]
                                  /\ batch'[d] = batch[d] /\ task'[d] = task[d]
  BY DropForgets
<1>2. faults' = faults + 1 \/ \A n \in DOMAIN pending' : c \in Keepers(n) => c \in Keepers(n)'
  <2>1. CASE DOMAIN pending' = {}
    BY <2>1
  <2>2. CASE pc[c] \in {"down", "poll", "read"}
    <3>1. batch[c] = {}
      BY <2>2 DEF WorkersAreOrderly, Orderly
    <3> QED BY <2>2, <3>1, FreeHandsKeepNothing DEF NoTaskSteps
  <2> QED BY <2>1, <2>2
<1> QED BY <1>1, <1>2, WorkerStepIsCounted

(* The next of the batch: what is given up is not kept, or acknowledged.   *)
LEMMA NextOfBatchIsCounted ==
  ASSUME TriesInv, TypeOK', NEW c \in Consumer, WorkOn(c, batch[c]),
         UNCHANGED <<tried, overruns, dead, faults, cursor>>,
         \A n \in DOMAIN pending' : n \in DOMAIN pending /\ pending'[n] = pending[n],
         \/ pc[c] \in NoTaskSteps \cup {"work"}
         \/ task[c].id \notin DOMAIN pending'
  PROVE  AtMostTheLimit' /\ AtLeastTheLimit'
<1> USE DEF TriesInv, GroupInv
<1>1. batch[c] \in SUBSET Task
  BY TypeOKInParts DEF LoopTypeOK
<1>2. /\ Waiting(c)' = batch[c] /\ listed'[c] \subseteq listed[c]
      /\ pc'[c] \in {"poll", "begin"}
      /\ \A t \in batch[c] : c \in Keepers(t.id)'
      /\ \A d \in Consumer \ {c} : /\ pc'[d] = pc[d] /\ listed'[d] = listed[d]
                                  /\ batch'[d] = batch[d] /\ task'[d] = task[d]
  BY <1>1, WorkOnWaits
<1>3. ASSUME NEW n \in DOMAIN pending', c \in Keepers(n) PROVE c \in Keepers(n)'
  <2>1. PICK t \in Held(c) : t.id = n /\ (t \in batch[c] \/ pc[c] # "work")
    BY <1>3 DEF Keepers
  <2>2. t \in batch[c]
    <3>1. CASE t \notin batch[c]
      <4>1. t = task[c] /\ pc[c] # "work" /\ task[c] # NoTask
        BY <2>1, <3>1 DEF Held
      <4>2. pc[c] \notin NoTaskSteps
        BY <4>1, TypeOKInParts DEF LoopTypeOK
      <4> QED BY <2>1, <4>1, <4>2
    <3> QED BY <3>1
  <2> QED BY <1>2, <2>1, <2>2
<1>4. faults <= faults' /\ cursor <= cursor' /\ batch[c] \subseteq Waiting(c)
  BY CountsAreNumbers DEF Waiting
<1> QED BY <1>2, <1>3, <1>4, WorkerStepIsCounted

-----------------------------------------------------------------------------
(* Every step.                                                             *)

(* Publishing, and the loss of data: no worker notices.                    *)
LEMMA RemoteStepIsCounted ==
  ASSUME TriesInv, TypeOK',
         UNCHANGED <<loop, tried, overruns>>, faults <= faults', cursor <= cursor',
         \A n \in DOMAIN pending' : n \in DOMAIN pending /\ pending'[n] = pending[n],
         dead' \subseteq dead
  PROVE  AtMostTheLimit' /\ AtLeastTheLimit'
<1> USE DEF TriesInv, GroupInv
<1>1. UNCHANGED <<pc, listed, batch, task>> /\ overruns <= overruns'
  BY CountsAreNumbers DEF loop
<1>2. /\ \A c : Waiting(c)' = Waiting(c)
      /\ \A n : Keepers(n)' = Keepers(n)
  BY <1>1 DEF Waiting, Keepers, Held
<1>3. AtMostTheLimit'
  BY <1>1, <1>2, LimitStaysAbove
<1>4. \A d \in Consumer : pc'[d] = "dlq" => MaxAttempts <= Trouble(task'[d].id)
  BY <1>1 DEF AtLeastTheLimit, DeadAreTried
<1>5. AtLeastTheLimit'
  BY <1>1, <1>2, <1>4, LimitStaysBelow
<1> QED BY <1>3, <1>5

LEMMA ClaimingIsCounted ==
  ASSUME TriesInv, TypeOK', NEW c \in Consumer, ClaimNext(c)
  PROVE  AtMostTheLimit' /\ AtLeastTheLimit'
<1> USE DEF TriesInv, GroupInv
<1>1. PICK l \in listed[c] :
        /\ listed' = [listed EXCEPT ![c] = @ \ {l}]
        /\ IF Claimable(l.id)
           THEN Xclaim(l.id) /\ batch' = [batch EXCEPT ![c] = @ \cup {Claimed(l)}]
           ELSE UNCHANGED <<redis, batch>>
  BY DEF ClaimNext
<1>2. /\ pc[c] = "claim" /\ UNCHANGED <<pc, task, tried, faults, overruns, cursor, dead>>
      /\ faults <= faults' /\ cursor <= cursor'
  <2>1. pc[c] = "claim" /\ UNCHANGED <<pc, task, tried, faults, overruns>>
    BY DEF ClaimNext, counters
  <2>2. UNCHANGED <<cursor, dead>>
    BY <1>1 DEF redis, Xclaim
  <2> QED BY <2>1, <2>2, CountsAreNumbers
<1>3. /\ \A d \in Consumer : listed'[d] \subseteq listed[d]
      /\ \A d \in Consumer \ {c} : listed'[d] = listed[d]
      /\ batch[c] \subseteq batch'[c]
      /\ \A d \in Consumer \ {c} : batch'[d] = batch[d]
  BY <1>1, TypeOKInParts DEF LoopTypeOK
<1>4. /\ \A d \in Consumer \ {c} : Waiting(d)' = Waiting(d)
      /\ \A n : Keepers(n) \ {c} \subseteq Keepers(n)'
  BY <1>2, <1>3, OthersKeep
<1>5. \A n : c \in Keepers(n) => c \in Keepers(n)'
  BY <1>2, <1>3 DEF Keepers, Held
<1>6. CASE ~Claimable(l.id)
  <2>1. UNCHANGED <<pending, batch>>
    BY <1>1, <1>6 DEF redis
  <2>2. Waiting(c)' = Waiting(c)
    BY <1>2, <2>1 DEF Waiting
  <2> QED BY <1>2, <1>3, <1>5, <2>1, <2>2, WorkerStepIsCounted
<1>7. CASE Claimable(l.id)
  <2>1. Xclaim(l.id) /\ batch'[c] = batch[c] \cup {Claimed(l)}
    BY <1>1, <1>7, TypeOKInParts DEF LoopTypeOK
  <2>2. Waiting(c)' \subseteq Waiting(c) \cup {Claimed(l)}
    BY <1>2, <2>1 DEF Waiting
  <2>3. AtMostTheLimit'
    BY <1>2, <1>3, <1>4, <1>7, <2>1, <2>2, ClaimStaysAbove
  <2>4. c \in Keepers(l.id)'
    BY <2>1 DEF Keepers, Held, Claimed
  <2>5. \A n \in DOMAIN pending : Keepers(n) \subseteq Keepers(n)'
    BY <1>4, <1>5
  <2>6. AtLeastTheLimit'
    BY <1>2, <1>4, <1>7, <2>1, <2>2, <2>4, <2>5, ClaimStaysBelow
  <2> QED BY <2>3, <2>6
<1> QED BY <1>6, <1>7

LEMMA ReadingIsCounted ==
  ASSUME TriesInv, TypeOK', NEW c \in Consumer, Read(c)
  PROVE  AtMostTheLimit' /\ AtLeastTheLimit'
<1> USE DEF TriesInv, GroupInv
<1> DEFINE t == [id |-> cursor + 1, attempt |-> 1]
<1>1. /\ pc[c] = "read" /\ XreadGroup /\ WorkOn(c, {t})
      /\ UNCHANGED <<tried, faults, overruns, dead>> /\ faults <= faults'
  BY CountsAreNumbers DEF Read, counters, XreadGroup
<1>2. {t} \in SUBSET Task /\ t = [id |-> cursor + 1, attempt |-> 1]
  BY <1>1, XreadGroupKeepsRedis, TypeOKInParts DEF Task
<1> HIDE DEF t
<1>3. PICK u : u = t
  OBVIOUS
<1>4. /\ Waiting(c)' = {u} /\ listed'[c] \subseteq listed[c]
      /\ pc'[c] \in {"poll", "begin"}
      /\ \A v \in {u} : c \in Keepers(v.id)'
      /\ \A d \in Consumer \ {c} : /\ pc'[d] = pc[d] /\ listed'[d] = listed[d]
                                  /\ batch'[d] = batch[d] /\ task'[d] = task[d]
  BY <1>1, <1>2, <1>3, WorkOnWaits
<1>5. /\ \A d \in Consumer \ {c} : Waiting(d)' = Waiting(d)
      /\ \A n : Keepers(n) \ {c} \subseteq Keepers(n)'
  BY <1>4, OthersKeep
<1>6. AtMostTheLimit'
  BY <1>1, <1>2, <1>3, <1>4, <1>5, DeliveryStaysAbove
<1>7. \A n : c \notin Keepers(n)
  <2>1. batch[c] = {}
    BY <1>1 DEF WorkersAreOrderly, Orderly
  <2> QED BY <1>1, <2>1, FreeHandsKeepNothing DEF NoTaskSteps
<1>8. Keepers(u.id)' # {} /\ \A n \in DOMAIN pending : Keepers(n) \subseteq Keepers(n)'
  BY <1>4, <1>5, <1>7
<1>9. \A d \in Consumer : pc'[d] = "dlq" => pc[d] = "dlq" /\ task'[d] = task[d]
  BY <1>4
<1>10. AtLeastTheLimit'
  BY <1>1, <1>2, <1>3, <1>4, <1>5, <1>8, <1>9, DeliveryStaysBelow
<1> QED BY <1>6, <1>10

LEMMA FailingIsCounted ==
  ASSUME TriesInv, TypeOK', NEW c \in Consumer, CommandFails(c)
  PROVE  AtMostTheLimit' /\ AtLeastTheLimit'
<1> USE DEF TriesInv, GroupInv
<1>1. /\ Drop(c, "poll") /\ UNCHANGED <<tried, overruns>>
      /\ faults' = faults + 1 /\ faults <= faults'
  BY CountsAreNumbers DEF CommandFails
<1>2. /\ Waiting(c)' = {} /\ listed'[c] = {} /\ pc'[c] = "poll"
      /\ \A d \in Consumer \ {c} : /\ pc'[d] = pc[d] /\ listed'[d] = listed[d]
                                  /\ batch'[d] = batch[d] /\ task'[d] = task[d]
  BY <1>1, DropForgets
<1>3. /\ \A d \in Consumer \ {c} : Waiting(d)' = Waiting(d)
      /\ \A d \in Consumer : listed'[d] \subseteq listed[d]
      /\ \A d \in Consumer : pc'[d] = "dlq" => pc[d] = "dlq" /\ task'[d] = task[d]
  BY <1>2, OthersKeep
<1>4. CASE UNCHANGED redis
  <2>1. UNCHANGED <<dead, cursor, pending>> /\ cursor <= cursor'
    BY <1>4, CountsAreNumbers DEF redis
  <2> QED BY <1>1, <2>1, DroppingIsCounted
<1>5. CASE XreadGroup
  <2>1. PICK u : u = [id |-> cursor + 1, attempt |-> 1]
    OBVIOUS
  <2>2. UNCHANGED dead
    BY <1>5 DEF XreadGroup
  <2>3. AtMostTheLimit'
    BY <1>1, <1>2, <1>3, <1>5, <2>1, DeliveryStaysAbove
  <2>4. AtLeastTheLimit'
    BY <1>1, <1>2, <1>3, <1>5, <2>1, <2>2, DeliveryStaysBelow
  <2> QED BY <2>3, <2>4
<1>6. ASSUME NEW l \in listed[c], Claimable(l.id), Xclaim(l.id)
      PROVE  AtMostTheLimit' /\ AtLeastTheLimit'
  <2>1. UNCHANGED <<dead, cursor>>
    BY <1>6 DEF Xclaim
  <2>2. AtMostTheLimit'
    BY <1>1, <1>2, <1>3, <1>6, <2>1, ClaimStaysAbove
  <2>3. AtLeastTheLimit'
    BY <1>1, <1>2, <1>3, <1>6, <2>1, ClaimStaysBelow
  <2> QED BY <2>2, <2>3
<1> QED BY <1>4, <1>5, <1>6 DEF CommandFails

LEMMA ProgressIsCounted ==
  ASSUME TriesInv, TypeOK', NEW c \in Consumer,
         GiveUp(c) \/ Skip(c) \/ Succeed(c) \/ DeadLetter(c)
  PROVE  AtMostTheLimit' /\ AtLeastTheLimit'
<1> USE DEF TriesInv, GroupInv
<1>1. /\ UNCHANGED <<cursor, pending, listed, batch, task, tried, faults, overruns>>
      /\ faults <= faults' /\ cursor <= cursor'
  BY CountsAreNumbers DEF GiveUp, Skip, Succeed, DeadLetter, redis, counters
<1>2. /\ \A d \in Consumer \ {c} : pc'[d] = pc[d]
      /\ pc'[c] \in {"dlq", "ack"}
      /\ pc'[c] = "dlq" => GiveUp(c)
  BY TypeOKInParts DEF GiveUp, Skip, Succeed, DeadLetter, LoopTypeOK
<1>3. Waiting(c)' \subseteq Waiting(c)
  BY <1>1, <1>2 DEF Waiting
<1>4. \A n : c \in Keepers(n) => c \in Keepers(n)'
  BY <1>1, <1>2 DEF Keepers, Held
<1>5. pc[c] \in TaskSteps
  BY DEF GiveUp, Skip, Succeed, DeadLetter, TaskSteps
<1>6. task[c] \in Task /\ task[c].id \in Entry /\ task[c].attempt \in Nat
      /\ Trouble(task[c].id) \in Nat /\ MaxAttempts \in Nat
  BY <1>5, TaskIsHeld, CountsAreNumbers, ConsumerGroupAssumption DEF Task
<1>7. pc'[c] = "dlq" => MaxAttempts <= Trouble(task'[c].id)
  <2> SUFFICES ASSUME GiveUp(c) PROVE MaxAttempts <= Trouble(task[c].id)
    BY <1>1, <1>2
  <2>1. task[c] \in Waiting(c) /\ task[c].attempt > MaxAttempts
    BY DEF GiveUp, Exhausted, Waiting
  <2>2. task[c].attempt <= Trouble(task[c].id) + 1
    BY <2>1 DEF AtLeastTheLimit, AttemptsAreEarned
  <2> QED BY <1>6, <2>1, <2>2
<1>8. \A n \in dead' : n \in dead \/ MaxAttempts <= Trouble(n)
  <2>1. UNCHANGED dead \/ (pc[c] = "dlq" /\ dead' = dead \cup {task[c].id})
    BY DEF GiveUp, Skip, Succeed, DeadLetter, redis
  <2> QED BY <2>1 DEF AtLeastTheLimit, DeadAreTried
<1> QED BY <1>1, <1>2, <1>3, <1>4, <1>7, <1>8, WorkerStepIsCounted

LEMMA QuietStepsAreCounted ==
  ASSUME TriesInv, TypeOK', NEW c \in Consumer,
         \/ Start(c) \/ ListPending(c) \/ Reclaimed(c) \/ ReadTimesOut(c) \/ NoGroup(c)
         \/ HandleRaises(c) \/ Acknowledge(c) \/ Crash(c)
  PROVE  AtMostTheLimit' /\ AtLeastTheLimit'
<1> USE DEF TriesInv, GroupInv
<1>1. /\ UNCHANGED <<tried, overruns, dead>> /\ faults <= faults'
      /\ cursor' = cursor /\ cursor <= cursor'
  <2>1. /\ UNCHANGED <<tried, overruns, dead>>
        /\ faults' = faults \/ faults' = faults + 1
    BY DEF Start, ListPending, Reclaimed, ReadTimesOut, NoGroup, HandleRaises, Acknowledge,
           Crash, redis, counters, Xack
  <2>2. cursor' = cursor
    BY DEF Start, ListPending, Reclaimed, ReadTimesOut, NoGroup, HandleRaises, Acknowledge,
           Crash, redis, Xack, XgroupCreate, GroupStartsAfresh
  <2> QED BY <2>1, <2>2, CountsAreNumbers
<1>2. \A n \in DOMAIN pending' : n \in DOMAIN pending /\ pending'[n] = pending[n]
  BY DEF Start, ListPending, Reclaimed, ReadTimesOut, NoGroup, HandleRaises, Acknowledge,
         Crash, redis, Xack
<1>3. CASE Start(c) \/ ReadTimesOut(c) \/ NoGroup(c) \/ Crash(c)
  <2>1. \E next \in {"down", "poll"} : Drop(c, next)
    BY <1>3 DEF Start, ReadTimesOut, NoGroup, Crash
  <2>2. \/ faults' = faults + 1
        \/ DOMAIN pending' = {}
        \/ pc[c] \in {"down", "poll", "read"}
    <3>1. CASE NoGroup(c)
      <4>1. cursor = lost /\ lost \in Int /\ DOMAIN pending \subseteq lost + 1 .. cursor
        BY <3>1, TypeOKInParts DEF NoGroup, GroupStartsAfresh, RedisTypeOK
      <4>2. lost + 1 .. lost = {}
        BY <4>1
      <4> QED BY <1>2, <4>1, <4>2
    <3> QED BY <1>3, <3>1 DEF Start, ReadTimesOut, Crash
  <2> QED BY <1>1, <1>2, <2>1, <2>2, DroppingIsCounted
<1>4. CASE HandleRaises(c) \/ Acknowledge(c) \/ (Reclaimed(c) /\ batch[c] # {})
  <2>1. WorkOn(c, batch[c]) /\ UNCHANGED faults
    BY <1>4 DEF HandleRaises, Acknowledge, Reclaimed, counters
  <2>2. \/ pc[c] \in NoTaskSteps \cup {"work"}
        \/ task[c].id \notin DOMAIN pending'
    BY <1>4 DEF HandleRaises, Acknowledge, Reclaimed, Xack, NoTaskSteps
  <2> QED BY <1>1, <1>2, <2>1, <2>2, NextOfBatchIsCounted
<1>5. CASE ListPending(c) \/ (Reclaimed(c) /\ batch[c] = {})
  <2>1. /\ UNCHANGED <<batch, task>> /\ pc[c] \in {"poll", "claim"} /\ batch[c] = {}
        /\ pc'[c] \in {"read", "claim"}
        /\ \A d \in Consumer \ {c} : pc'[d] = pc[d] /\ listed'[d] = listed[d]
    BY <1>5, TypeOKInParts DEF ListPending, Reclaimed, LoopTypeOK, WorkersAreOrderly, Orderly
  <2>2. Waiting(c)' = {}
    BY <2>1 DEF Waiting
  <2>3. \A n : c \notin Keepers(n)
    BY <2>1, FreeHandsKeepNothing DEF NoTaskSteps
  <2>4. \A l \in listed'[c] :
           \/ l \in listed[c]
           \/ l.id \in DOMAIN pending /\ l.delivered = pending[l.id].count
    <3>1. CASE Reclaimed(c) /\ batch[c] = {}
      BY <3>1 DEF Reclaimed
    <3>2. CASE ListPending(c)
      <4>1. listed'[c] = {[id |-> n, delivered |-> pending[n].count] : n \in Stalled}
        BY <3>2, TypeOKInParts DEF ListPending, LoopTypeOK
      <4>2. Stalled \subseteq DOMAIN pending
        BY DEF Stalled, Idle
      <4> QED BY <4>1, <4>2
    <3> QED BY <1>5, <3>1, <3>2
  <2> QED BY <1>1, <1>2, <2>1, <2>2, <2>3, <2>4, WorkerStepIsCounted
<1> QED BY <1>3, <1>4, <1>5

LEMMA TriesStart == Init => TriesInv
<1> SUFFICES ASSUME Init PROVE TriesInv
  OBVIOUS
<1>1. /\ \A c \in Consumer : Waiting(c) = {} /\ listed[c] = {} /\ batch[c] = {} /\ pc[c] = "down"
      /\ DOMAIN pending = {} /\ dead = {} /\ faults = 0 /\ overruns = 0
      /\ \A n \in Entry : tried[n] = 0
      /\ \A c \in Consumer : task[c] = NoTask
  BY DEF Init, Waiting, NothingPending
<1>2. WorkersAreOrderly
  BY <1>1 DEF WorkersAreOrderly, Orderly
<1>3. AtMostTheLimit
  BY <1>1, ConsumerGroupAssumption DEF AtMostTheLimit, Untried, TriesAreDelivered, ListingsAreFresh,
     AttemptsAreFresh, StartsAreFew, TriesAreBounded
<1>4. AtLeastTheLimit
  BY <1>1 DEF AtLeastTheLimit, DeliveriesAreTried, AttemptsAreEarned, DeadAreTried, GivenUpAfterTrying
<1> QED BY <1>2, <1>3, <1>4, GroupStarts DEF TriesInv

LEMMA TriesStay ==
  ASSUME TriesInv, [Next]_vars
  PROVE  TriesInv'
<1>1. GroupInv' /\ TypeOK' /\ WorkersAreOrderly'
  BY GroupStays, OrderStays DEF TriesInv, GroupInv
<1> SUFFICES AtMostTheLimit' /\ AtLeastTheLimit'
  BY <1>1 DEF TriesInv
<1>2. ASSUME NEW c \in Consumer, Step(c) PROVE AtMostTheLimit' /\ AtLeastTheLimit'
  <2>1. CASE Enter(c)
    BY <1>1, <2>1, EnteringIsCounted DEF TriesInv, GroupInv
  <2> QED BY <1>1, <1>2, <2>1, QuietStepsAreCounted, ClaimingIsCounted, ReadingIsCounted,
             ProgressIsCounted DEF Step
<1>3. ASSUME NEW c \in Consumer, CommandFails(c) \/ Crash(c)
      PROVE  AtMostTheLimit' /\ AtLeastTheLimit'
  BY <1>1, <1>3, FailingIsCounted, QuietStepsAreCounted
<1>4. ASSUME NEW n \in Entry, AbandonedIdles(n) \/ HeldIdles(n)
      PROVE  AtMostTheLimit' /\ AtLeastTheLimit'
  BY <1>1, <1>4, IdlingIsCounted DEF TriesInv, GroupInv
<1>5. CASE \/ UNCHANGED vars
           \/ LoseData
           \/ \E j \in Job : Publish(j) \/ Republish(j)
  <2>1. UNCHANGED <<loop, tried, overruns>> /\ faults <= faults' /\ dead' \subseteq dead
    <3>1. /\ UNCHANGED <<loop, tried, overruns>> /\ dead' \subseteq dead
          /\ faults' = faults \/ faults' = faults + 1
      BY <1>5 DEF vars, redis, LoseData, Publish, Republish, Xadd, counters
    <3> QED BY <3>1, CountsAreNumbers DEF TriesInv, GroupInv
  <2>2. \A n \in DOMAIN pending' : n \in DOMAIN pending /\ pending'[n] = pending[n]
    BY <1>5 DEF vars, redis, LoseData, NothingPending, Publish, Republish, Xadd
  <2>3. cursor <= cursor'
    <3>1. cursor' = cursor \/ cursor' = Len(entries)
      BY <1>5 DEF vars, redis, LoseData, Publish, Republish, Xadd
    <3> QED BY <3>1, TypeOKInParts DEF TriesInv, GroupInv, RedisTypeOK
  <2> QED BY <1>1, <2>1, <2>2, <2>3, RemoteStepIsCounted
<1> QED BY <1>2, <1>3, <1>4, <1>5 DEF Next

THEOREM TriesAreKept == Spec => []TriesInv
BY TriesStart, TriesStay, PTL DEF Spec

(* base.py, attempt > max_attempts: an entry is worked on MAX_ATTEMPTS     *)
(* times at most, but for overruns.                                        *)
THEOREM AttemptsAreLimited == Spec => []TriesAreBounded
<1>1. TriesInv => TriesAreBounded
  BY DEF TriesInv, AtMostTheLimit
<1> QED BY <1>1, TriesAreKept, PTL

(* _process: "failed after MAX_ATTEMPTS attempts" is true of what is dead- *)
(* lettered, but for faults and overruns.                                  *)
THEOREM DeadLettersWereTried == Spec => []GivenUpAfterTrying
<1>1. TriesInv => GivenUpAfterTrying
  BY DEF TriesInv, AtLeastTheLimit
<1> QED BY <1>1, TriesAreKept, PTL
=============================================================================
