---------------------------- MODULE StageMetrics ----------------------------
(***************************************************************************)
(* The duration histogram of core/metrics.py for one stage: workers add to *)
(* it command by command, because their pipeline is not a transaction, and *)
(* a connection may break between two commands.  A scrape reads the whole  *)
(* hash at once, at any moment.                                            *)
(***************************************************************************)
EXTENDS Integers, Sequences, FiniteSets

CONSTANTS
  Observer,       \* the workers of the stage
  Bounds,         \* BUCKETS, upper bounds in ascending order
  Duration,       \* durations a stage may take
  MaxDurations    \* stages completed

ASSUME BoundsAscend ==
  /\ Bounds \in Seq(Int) /\ Duration \subseteq Int
  /\ \A m, n \in DOMAIN Bounds : m < n => Bounds[m] < Bounds[n]

ASSUME ObserversAreFinite == IsFiniteSet(Observer)

VARIABLES
  bucket,     \* bucket[n]: the field of the n-th bound
  total,      \* the count field
  adding,     \* adding[w]: the commands of w still to run, bounds or Total
  measured,   \* history: the durations whose recording was begun
  cut         \* history: how many were recorded in part only

metricsVars == <<bucket, total, adding, measured, cut>>

Total == Len(Bounds) + 1

MetricsInit ==
  /\ bucket = [n \in DOMAIN Bounds |-> 0]
  /\ total = 0
  /\ adding = [w \in Observer |-> {}]
  /\ measured = <<>>
  /\ cut = 0

(* Mutant of Commands: a duration does not count for a bound it equals.    *)
CommandsBelow(seconds) == {n \in 1 .. Total : n = Total \/ seconds < Bounds[n]}

(* Every bucket the duration falls within, then the count.  The sum is     *)
(* incremented last and compared with nothing.                             *)
Commands(seconds) == {n \in 1 .. Total : n = Total \/ seconds <= Bounds[n]}

(* A stage succeeded and its duration is queued in a pipeline.             *)
StageDone(w) ==
  /\ adding[w] = {} /\ Len(measured) < MaxDurations
  /\ \E seconds \in Duration :
       /\ measured' = Append(measured, seconds)
       /\ adding' = [adding EXCEPT ![w] = Commands(seconds)]
  /\ UNCHANGED <<bucket, total, cut>>

(* Commands run in the order they were queued in, by their bounds.         *)
IsNext(w, n) == n \in adding[w] /\ \A m \in adding[w] : n <= m

(* Mutant of Hincrby: the commands of a pipeline reach Redis twice.        *)
HincrbyRetried(w) ==
  /\ \E n \in 1 .. Total :
       /\ IsNext(w, n)
       /\ IF n = Total THEN total' = total + 1 /\ UNCHANGED bucket
          ELSE bucket' = [bucket EXCEPT ![n] = @ + 2] /\ UNCHANGED total
       /\ adding' = [adding EXCEPT ![w] = @ \ {n}]
  /\ UNCHANGED <<measured, cut>>

Hincrby(w) ==
  /\ \E n \in 1 .. Total :
       /\ IsNext(w, n)
       /\ IF n = Total THEN total' = total + 1 /\ UNCHANGED bucket
          ELSE bucket' = [bucket EXCEPT ![n] = @ + 1] /\ UNCHANGED total
       /\ adding' = [adding EXCEPT ![w] = @ \ {n}]
  /\ UNCHANGED <<measured, cut>>

(* An exception, which is swallowed, or the death of the worker.           *)
PipelineBreaks(w) ==
  /\ adding[w] # {}
  /\ adding' = [adding EXCEPT ![w] = {}]
  /\ cut' = cut + 1
  /\ UNCHANGED <<bucket, total, measured>>

MetricsNext == \E w \in Observer : StageDone(w) \/ Hincrby(w) \/ PipelineBreaks(w)

-----------------------------------------------------------------------------
(* render(): a field that is absent takes the value of the bucket before.  *)

Rendered[n \in 0 .. Len(Bounds)] ==
  IF n = 0 THEN 0
  ELSE IF bucket[n] = 0 THEN Rendered[n - 1] ELSE bucket[n]

-----------------------------------------------------------------------------
(* Properties.                                                             *)

Under(bound) == Cardinality({m \in DOMAIN measured : measured[m] <= bound})

UnderWay == Cardinality({w \in Observer : adding[w] # {}})

(* "Cumulative buckets, as Prometheus expects": when no recording is under *)
(* way and none was cut off, a scrape shows the distribution of all the    *)
(* durations measured.                                                     *)
ScrapeIsExact ==
  UnderWay = 0 /\ cut = 0 =>
    /\ \A n \in DOMAIN Bounds : Rendered[n] = Under(Bounds[n])
    /\ total = Len(measured)

(* A scrape at any other moment disagrees with itself by no more than the  *)
(* recordings under way or cut off: a bucket exceeds a later one or the    *)
(* count by that much at most.                                             *)
ScrapeIsClose ==
  LET shown == Append([n \in DOMAIN Bounds |-> Rendered[n]], total)
  IN  \A m, n \in DOMAIN shown : m < n => shown[m] - shown[n] <= UnderWay + cut
=============================================================================
