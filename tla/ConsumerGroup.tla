---------------------------- MODULE ConsumerGroup ----------------------------
(***************************************************************************)
(* One stage's stream and the workers that consume it, one Redis command a *)
(* step: what core/streams.py promises the loop of workers/base.py.  Where *)
(* the pipeline takes a reclaim as one step, here the XPENDING that lists  *)
(* stalled entries and the XCLAIM of each are apart, other workers act in  *)
(* between, a command may fail or lose its reply, a worker may die, and    *)
(* Redis may come back empty.  _process is coarse: a job is settled when   *)
(* its next task is published or its investigation has ended.              *)
(***************************************************************************)
EXTENDS Integers, Sequences, FiniteSets

CONSTANTS
  Job,          \* the investigations that reach this stage
  Consumer,     \* the workers of the stage
  MaxAttempts,  \* MAX_ATTEMPTS
  ListCount,    \* count of reclaim(): how many entries XPENDING lists
  MaxEntries,   \* bound: entries ever added to the stream
  MaxFaults,    \* bound: failed commands, deaths of workers, losses of data
  MaxOverruns,  \* bound: entries that pass the threshold while in use
  NoTask        \* a worker between two tasks

ASSUME ConsumerGroupAssumption ==
  /\ Job # {} /\ Consumer # {}
  /\ {MaxAttempts, ListCount} \subseteq Nat \ {0}
  /\ {MaxEntries, MaxFaults, MaxOverruns} \subseteq Nat

ASSUME ConsumersAreFinite == IsFiniteSet(Consumer)

ASSUME NoTaskIsNone == NoTask \notin [id : Int, attempt : Int]

VARIABLES
  entries,    \* every entry ever added, as the job it names
  lost,       \* Redis lost the entries 1 .. lost
  group,      \* whether the consumer group exists
  cursor,     \* the entry the group has been delivered up to
  pending,    \* pending[n]: delivery count and idleness of unacknowledged n
  dead,       \* the entries copied to the dead-letter stream
  settled,    \* the jobs that need no task of this stage any more
  pc,         \* pc[c]: the next step of worker c
  listed,     \* listed[c]: what XPENDING showed it and it has yet to claim
  batch,      \* batch[c]: the tasks it holds and has not begun
  task,       \* task[c]: the task it is working on
  tried,      \* history: tried[n] counts the handle() calls entry n led to
  faults, overruns

redis == <<entries, lost, group, cursor, pending, dead>>

loop == <<pc, listed, batch, task>>

counters == <<faults, overruns>>

vars == <<redis, settled, loop, tried, counters>>

Entry == 1 .. MaxEntries

Task == [id : Entry, attempt : Nat]

Listing == [id : Entry, delivered : Nat]

TypeOK ==
  /\ entries \in Seq(Job) /\ Len(entries) <= MaxEntries
  /\ lost \in 0 .. Len(entries)
  /\ group \in BOOLEAN
  /\ cursor \in lost .. Len(entries)
  /\ DOMAIN pending \subseteq lost + 1 .. cursor
  /\ pending \in [DOMAIN pending -> [count : Nat, idle : BOOLEAN]]
  /\ dead \subseteq Entry
  /\ settled \subseteq Job
  /\ pc \in [Consumer -> {"down", "poll", "claim", "read", "begin", "work", "dlq", "ack"}]
  /\ listed \in [Consumer -> SUBSET Listing]
  /\ batch \in [Consumer -> SUBSET Task]
  /\ task \in [Consumer -> Task \cup {NoTask}]
  /\ \A c \in Consumer : task[c] = NoTask <=> pc[c] \in {"down", "poll", "claim", "read"}
  /\ tried \in [Entry -> Nat]
  /\ faults \in 0 .. MaxFaults
  /\ overruns \in 0 .. MaxOverruns

NothingPending == [n \in {} |-> [count |-> 0, idle |-> FALSE]]

(* Some process has started and created the group; the workers follow.     *)
Init ==
  /\ entries = <<>>
  /\ lost = 0 /\ cursor = 0
  /\ group = TRUE
  /\ pending = NothingPending
  /\ dead = {} /\ settled = {}
  /\ pc = [c \in Consumer |-> "down"]
  /\ listed = [c \in Consumer |-> {}]
  /\ batch = [c \in Consumer |-> {}]
  /\ task = [c \in Consumer |-> NoTask]
  /\ tried = [n \in Entry |-> 0]
  /\ faults = 0 /\ overruns = 0

-----------------------------------------------------------------------------
(* The stream.                                                             *)

Undelivered == cursor + 1 .. Len(entries)

(* The tasks a worker has in its hands.                                    *)
Held(c) == batch[c] \cup ({task[c]} \ {NoTask})

Holders(n) == {c \in Consumer : \E t \in Held(c) : t.id = n}

(* The workers that have n in their hands or are about to claim it.        *)
Users(n) == Holders(n) \cup {c \in Consumer : \E l \in listed[c] : l.id = n}

(* Mutant of XgroupCreate: the group starts behind what is there already.  *)
XgroupCreateAtEnd ==
  /\ group' = TRUE
  /\ cursor' = IF group THEN cursor ELSE Len(entries)

(* XGROUP CREATE with id 0, or BUSYGROUP: whatever was added before the    *)
(* group existed is still to be delivered.                                 *)
XgroupCreate ==
  /\ group' = TRUE
  /\ cursor' = IF group THEN cursor ELSE lost

Xadd(j) ==
  /\ Len(entries) < MaxEntries
  /\ entries' = Append(entries, j)
  /\ UNCHANGED <<lost, group, cursor, pending, dead>>

XreadGroup ==
  /\ Undelivered # {}
  /\ cursor' = cursor + 1
  /\ pending' = [n \in DOMAIN pending \cup {cursor + 1} |->
       IF n = cursor + 1 THEN [count |-> 1, idle |-> FALSE] ELSE pending[n]]
  /\ UNCHANGED <<entries, lost, group, dead>>

(* Mutant of Claimable: XCLAIM without its own idle threshold.             *)
ClaimableAnyway(n) == n \in DOMAIN pending

(* XCLAIM hands over an entry only if it is still pending and still idle.  *)
Claimable(n) == n \in DOMAIN pending /\ pending[n].idle

Xclaim(n) ==
  /\ pending' = [pending EXCEPT ![n] = [count |-> @.count + 1, idle |-> FALSE]]
  /\ UNCHANGED <<entries, lost, group, cursor, dead>>

Xack(n) ==
  /\ pending' = [m \in DOMAIN pending \ {n} |-> pending[m]]
  /\ UNCHANGED <<entries, lost, group, cursor, dead>>

-----------------------------------------------------------------------------
(* Those who publish.                                                      *)

(* The stage before this one, or the API.                                  *)
Publish(j) ==
  /\ \A n \in DOMAIN entries : entries[n] # j
  /\ Xadd(j)
  /\ UNCHANGED <<settled, loop, tried, counters>>

(* Entries that will still lead some worker to their job.                  *)
InFlight == DOMAIN pending \cup Undelivered \cup {n \in Entry : Holders(n) # {}}

(* The sweeper finds an investigation that no task will advance.           *)
Republish(j) ==
  /\ j \notin settled
  /\ \E n \in DOMAIN entries : entries[n] = j
  /\ \A n \in InFlight : entries[n] # j
  /\ Xadd(j)
  /\ UNCHANGED <<settled, loop, tried, counters>>

-----------------------------------------------------------------------------
(* Taking tasks.                                                           *)

(* Everything the worker had read is forgotten.                            *)
Drop(c, next) ==
  /\ pc' = [pc EXCEPT ![c] = next]
  /\ listed' = [listed EXCEPT ![c] = {}]
  /\ batch' = [batch EXCEPT ![c] = {}]
  /\ task' = [task EXCEPT ![c] = NoTask]

(* The for loop of run(): the oldest of the tasks, or back to the stream.  *)
WorkOn(c, tasks) ==
  \/ tasks = {} /\ Drop(c, "poll")
  \/ \E t \in tasks :
       /\ \A u \in tasks : t.id <= u.id
       /\ task' = [task EXCEPT ![c] = t]
       /\ batch' = [batch EXCEPT ![c] = tasks \ {t}]
       /\ pc' = [pc EXCEPT ![c] = "begin"]
       /\ UNCHANGED listed

(* run_worker(): ensure_groups, then the loop.                             *)
Start(c) ==
  /\ pc[c] = "down"
  /\ XgroupCreate
  /\ Drop(c, "poll")
  /\ UNCHANGED <<entries, lost, pending, dead, settled, tried, counters>>

Idle == {n \in DOMAIN pending : pending[n].idle}

(* Mutant of Stalled: entries that used their attempts are not listed.     *)
StalledWithinLimit == {n \in Idle : pending[n].count < MaxAttempts}

Stalled == {n \in Idle : Cardinality({m \in Idle : m < n}) < ListCount}

(* XPENDING with the idle threshold.                                       *)
ListPending(c) ==
  /\ pc[c] = "poll" /\ group
  /\ listed' = [listed EXCEPT ![c] =
       {[id |-> n, delivered |-> pending[n].count] : n \in Stalled}]
  /\ pc' = [pc EXCEPT ![c] = IF Stalled = {} THEN "read" ELSE "claim"]
  /\ UNCHANGED <<redis, settled, batch, task, tried, counters>>

(* Mutant of Claimed: the attempt is the count XPENDING listed.            *)
ClaimedUncounted(l) == [id |-> l.id, attempt |-> l.delivered]

(* The task reclaim() makes of an entry it listed.                         *)
Claimed(l) == [id |-> l.id, attempt |-> l.delivered + 1]

(* One XCLAIM, of the first entry listed; nothing comes back for an entry  *)
(* that was acknowledged or claimed in the meantime.                       *)
ClaimNext(c) ==
  /\ pc[c] = "claim" /\ group
  /\ \E l \in listed[c] :
       /\ \A k \in listed[c] : l.id <= k.id
       /\ listed' = [listed EXCEPT ![c] = @ \ {l}]
       /\ IF Claimable(l.id)
          THEN Xclaim(l.id) /\ batch' = [batch EXCEPT ![c] = @ \cup {Claimed(l)}]
          ELSE UNCHANGED <<redis, batch>>
  /\ UNCHANGED <<settled, pc, task, tried, counters>>

(* reclaim() returns: its tasks are worked on, or else new ones are read.  *)
Reclaimed(c) ==
  /\ pc[c] = "claim" /\ listed[c] = {}
  /\ IF batch[c] = {}
     THEN pc' = [pc EXCEPT ![c] = "read"] /\ UNCHANGED <<listed, batch, task>>
     ELSE WorkOn(c, batch[c])
  /\ UNCHANGED <<redis, settled, tried, counters>>

Read(c) ==
  /\ pc[c] = "read" /\ group
  /\ XreadGroup
  /\ WorkOn(c, {[id |-> cursor + 1, attempt |-> 1]})
  /\ UNCHANGED <<settled, tried, counters>>

ReadTimesOut(c) ==
  /\ pc[c] = "read" /\ group
  /\ Undelivered = {}
  /\ Drop(c, "poll")
  /\ UNCHANGED <<redis, settled, tried, counters>>

(* NOGROUP: "consume failed, backing off".                                 *)
NoGroup(c) ==
  /\ pc[c] \in {"poll", "read"} \/ listed[c] # {}
  /\ ~group
  /\ Drop(c, "poll")
  /\ UNCHANGED <<redis, settled, tried, counters>>

(* XCLAIM or XREADGROUP raises, executed or not: the loop backs off, and   *)
(* what this reclaim has claimed so far is forgotten.                      *)
CommandFails(c) ==
  /\ pc[c] \in {"claim", "read"} /\ group
  /\ faults < MaxFaults /\ faults' = faults + 1
  /\ \/ UNCHANGED redis
     \/ pc[c] = "read" /\ XreadGroup
     \/ \E l \in listed[c] :
          /\ \A k \in listed[c] : l.id <= k.id
          /\ Claimable(l.id) /\ Xclaim(l.id)
  /\ Drop(c, "poll")
  /\ UNCHANGED <<settled, tried, overruns>>

-----------------------------------------------------------------------------
(* _process.                                                               *)

JobOf(c) == entries[task[c].id]

(* Mutant of Exhausted: the last attempt is not granted.                   *)
ExhaustedEarly(c) == task[c].attempt >= MaxAttempts

Exhausted(c) == task[c].attempt > MaxAttempts

(* Out of attempts: the investigation fails, unless it has ended already.  *)
GiveUp(c) ==
  /\ pc[c] = "begin" /\ Exhausted(c)
  /\ settled' = settled \cup {JobOf(c)}
  /\ pc' = [pc EXCEPT ![c] = "dlq"]
  /\ UNCHANGED <<redis, listed, batch, task, tried, counters>>

(* Cancelled, or past this stage.                                          *)
Skip(c) ==
  /\ pc[c] = "begin" /\ ~Exhausted(c)
  /\ JobOf(c) \in settled
  /\ pc' = [pc EXCEPT ![c] = "ack"]
  /\ UNCHANGED <<redis, settled, listed, batch, task, tried, counters>>

(* The stage is entered or resumed; a published successor does not prevent *)
(* it until the next stage has begun.                                      *)
Enter(c) ==
  /\ pc[c] = "begin" /\ ~Exhausted(c)
  /\ tried' = [tried EXCEPT ![task[c].id] = @ + 1]
  /\ pc' = [pc EXCEPT ![c] = "work"]
  /\ UNCHANGED <<redis, settled, listed, batch, task, counters>>

(* handle() succeeds and the next task is published; or it fails for good. *)
Succeed(c) ==
  /\ pc[c] = "work"
  /\ settled' = settled \cup {JobOf(c)}
  /\ pc' = [pc EXCEPT ![c] = "ack"]
  /\ UNCHANGED <<redis, listed, batch, task, tried, counters>>

(* Mutant of HandleRaises: the message is acknowledged all the same.       *)
HandleRaisesAcknowledged(c) ==
  /\ pc[c] = "work"
  /\ Xack(task[c].id)
  /\ WorkOn(c, batch[c])
  /\ UNCHANGED <<settled, tried, counters>>

(* handle() raises: the message is left for a retry.                       *)
HandleRaises(c) ==
  /\ pc[c] = "work"
  /\ WorkOn(c, batch[c])
  /\ UNCHANGED <<redis, settled, tried, counters>>

(* send_to_dlq(): the copy, and in the next step the acknowledgement.      *)
DeadLetter(c) ==
  /\ pc[c] = "dlq"
  /\ dead' = dead \cup {task[c].id}
  /\ pc' = [pc EXCEPT ![c] = "ack"]
  /\ UNCHANGED <<entries, lost, group, cursor, pending, settled,
                 listed, batch, task, tried, counters>>

Acknowledge(c) ==
  /\ pc[c] = "ack"
  /\ Xack(task[c].id)
  /\ WorkOn(c, batch[c])
  /\ UNCHANGED <<settled, tried, counters>>

-----------------------------------------------------------------------------
(* Time and faults.                                                        *)

PassThreshold(n) ==
  /\ n \in DOMAIN pending /\ ~pending[n].idle
  /\ pending' = [pending EXCEPT ![n].idle = TRUE]
  /\ UNCHANGED <<entries, lost, group, cursor, dead, settled, loop, tried>>

AbandonedIdles(n) ==
  /\ Users(n) = {}
  /\ PassThreshold(n)
  /\ UNCHANGED counters

(* A task takes longer than the threshold, or waits that long in a batch;  *)
(* or a worker stalls that long between a listing and the claim.           *)
HeldIdles(n) ==
  /\ Users(n) # {}
  /\ overruns < MaxOverruns /\ overruns' = overruns + 1
  /\ PassThreshold(n)
  /\ UNCHANGED faults

(* The worker is stopped or dies, or an exception outside handle() ends it. *)
Crash(c) ==
  /\ pc[c] # "down"
  /\ faults < MaxFaults /\ faults' = faults + 1
  /\ Drop(c, "down")
  /\ UNCHANGED <<redis, settled, tried, overruns>>

(* Redis comes back without stream and group; it has no volume of its own. *)
LoseData ==
  /\ faults < MaxFaults /\ faults' = faults + 1
  /\ lost' = Len(entries) /\ cursor' = Len(entries)
  /\ group' = FALSE
  /\ pending' = NothingPending
  /\ dead' = {}
  /\ UNCHANGED <<entries, settled, loop, tried, overruns>>

-----------------------------------------------------------------------------

Step(c) ==
  \/ Start(c)
  \/ ListPending(c) \/ ClaimNext(c) \/ Reclaimed(c)
  \/ Read(c) \/ ReadTimesOut(c) \/ NoGroup(c)
  \/ GiveUp(c) \/ Skip(c) \/ Enter(c)
  \/ Succeed(c) \/ HandleRaises(c)
  \/ DeadLetter(c) \/ Acknowledge(c)

Next ==
  \/ \E j \in Job : Publish(j) \/ Republish(j)
  \/ \E c \in Consumer : Step(c) \/ CommandFails(c) \/ Crash(c)
  \/ \E n \in Entry : AbandonedIdles(n) \/ HeldIdles(n)
  \/ LoseData

Spec == Init /\ [][Next]_vars

(* Workers are restarted and keep running, time passes, and the sweeper    *)
(* does not stop; nothing is assumed of faults or of publishing.           *)
FairSpec ==
  /\ Spec
  /\ \A c \in Consumer : WF_vars(Step(c))
  /\ \A n \in Entry : WF_vars(AbandonedIdles(n))
  /\ \A j \in Job : WF_vars(Republish(j))

-----------------------------------------------------------------------------
(* Properties.                                                             *)

(* reclaim(): "Only one worker can win."  However the listings and claims  *)
(* of several workers interleave, an entry gets a second holder only by    *)
(* outliving the threshold in the hands of the first.                      *)
OnlyOneWins == \A n \in Entry : Cardinality(Holders(n)) <= 1 + overruns

(* An entry of the stream stops being pending only once its job needs it   *)
(* no more: commands that fail halfway, deaths and a group that has to be  *)
(* created anew leave none behind.                                         *)
NoneLeftBehind ==
  \A n \in lost + 1 .. cursor : n \notin DOMAIN pending => entries[n] \in settled

(* The reason _process gives: "failed after MAX_ATTEMPTS attempts".  A     *)
(* dead-lettered entry was worked on that often, short of one attempt for  *)
(* each fault and each overrun.                                            *)
GivenUpAfterTrying ==
  \A n \in dead : tried[n] + faults + overruns >= MaxAttempts

(* The attempt a worker counts is taken from a listing made earlier; even  *)
(* so no entry is worked on more often than MAX_ATTEMPTS, but for one more *)
(* time for each overrun.  Faults never add to the tries.                  *)
TriesAreBounded == \A n \in Entry : tried[n] <= MaxAttempts + overruns

(* As long as the group exists, every job with an entry in the stream gets *)
(* settled, even one that raises in every attempt.                         *)
GroupSettlesJobs ==
  \A n \in Entry :
    (group /\ n \in lost + 1 .. Len(entries))
      ~> (~group \/ (n \in DOMAIN entries /\ entries[n] \in settled))

(* sweeper.py: "Recovers investigations that stopped advancing with no     *)
(* task in flight", also when it was Redis that lost the task: the sweeper *)
(* publishes it again, and a worker has to find it.                        *)
LostWorkIsRecovered ==
  \A j \in Job :
    (j \notin settled /\ \E n \in 1 .. lost : entries[n] = j) ~> j \in settled

=============================================================================
