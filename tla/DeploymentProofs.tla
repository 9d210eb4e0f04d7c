-------------------------- MODULE DeploymentProofs --------------------------
(***************************************************************************)
(* For every instance of Deployment: any migrations, any number of runs    *)
(* that overlap, die and are started again, any number of API replicas and *)
(* any window, limit and delay that a key outlives.                        *)
(***************************************************************************)
EXTENDS Deployment, FiniteSetTheorems, SequenceTheorems, WellFoundedInduction, TLAPS

-----------------------------------------------------------------------------
(* The migration.                                                          *)

(* The schema is a prefix of the files, and the ledger says so.            *)
PrefixApplied ==
  /\ Len(applied) <= shipped
  /\ \A n \in 1 .. Len(applied) : applied[n] = Files[n]
  /\ ledger = {Files[n] : n \in 1 .. Len(applied)}

(* What a run has still to apply ends with the last file of the image and  *)
(* may reach back into what another run has applied since.                 *)
RunsAreSuffixes ==
  \A r \in Runner : rstep[r] = "apply" =>
    \E k \in 0 .. Len(applied) : pending[r] = k + 1 .. shipped

SuccessIsCurrent == \A r \in Runner : rstep[r] = "succeeded" => Len(applied) = shipped

ServedIsApplied == serving <= Len(applied)

SchemaInv ==
  /\ SchemaTypeOK
  /\ PrefixApplied
  /\ RunsAreSuffixes
  /\ SuccessIsCurrent
  /\ ServedIsApplied

LEMMA FilesAreASequence ==
  /\ Len(Files) \in Nat \ {0}
  /\ DOMAIN Files = 1 .. Len(Files)
  /\ \A n \in 1 .. Len(Files) : Files[n] \in STRING
BY FilesAreDistinct, EmptySeq

LEMMA SchemaStarts == SchemaInit => SchemaInv
BY FilesAreASequence DEF SchemaInit, SchemaInv, SchemaTypeOK, PrefixApplied,
   RunsAreSuffixes, SuccessIsCurrent, ServedIsApplied, Ended

(* A run that ends, as failed, touches nothing but itself.                 *)
LEMMA FailureIsHarmless ==
  ASSUME SchemaInv, NEW r \in Runner, RunFails(r)
  PROVE  SchemaInv'
BY DEF SchemaInv, SchemaTypeOK, PrefixApplied, RunsAreSuffixes, SuccessIsCurrent,
   ServedIsApplied, RunFails, Ended

(* The file in turn, unless it is recorded, is the next of the schema.     *)
LEMMA TurnIsNext ==
  ASSUME SchemaInv, NEW r \in Runner, rstep[r] = "apply",
         NEW n \in pending[r], InTurn(r, n), Files[n] \notin ledger
  PROVE  n = Len(applied) + 1 /\ pending[r] = n .. shipped
<1>1. PICK k \in 0 .. Len(applied) : pending[r] = k + 1 .. shipped
  BY DEF SchemaInv, RunsAreSuffixes
<1>2. Len(applied) \in Nat /\ shipped \in Nat
  BY DEF SchemaInv, SchemaTypeOK
<1>3. n = k + 1
  <2>1. k \in Int /\ n \in k + 1 .. shipped
    BY <1>1, <1>2
  <2>2. k + 1 \in pending[r]
    BY <1>1, <1>2, <2>1
  <2>3. n <= k + 1
    BY <2>2 DEF InTurn
  <2> QED BY <1>2, <2>1, <2>3
<1>4. n \notin 1 .. Len(applied)
  BY DEF SchemaInv, PrefixApplied
<1> QED BY <1>1, <1>2, <1>3, <1>4

LEMMA FileIsApplied ==
  ASSUME SchemaInv, NEW r \in Runner, ApplyNext(r)
  PROVE  SchemaInv'
<1>1. PICK n \in pending[r] :
        /\ InTurn(r, n)
        /\ IF Files[n] \in ledger
           THEN RunFails(r)
           ELSE /\ applied' = Append(applied, Files[n])
                /\ ledger' = ledger \cup {Files[n]}
                /\ pending' = [pending EXCEPT ![r] = @ \ {n}]
                /\ UNCHANGED <<shipped, rstep, serving>>
  BY DEF ApplyNext
<1>2. CASE Files[n] \in ledger
  BY <1>1, <1>2, FailureIsHarmless
<1>3. CASE Files[n] \notin ledger
  <2>1. n = Len(applied) + 1 /\ pending[r] = n .. shipped
    BY <1>1, <1>3, TurnIsNext DEF ApplyNext
  <2>2. /\ applied \in Seq(STRING) /\ shipped \in 1 .. Len(Files)
        /\ rstep \in [Runner -> Ended \cup {"list", "apply"}]
        /\ pending \in [Runner -> SUBSET DOMAIN Files]
        /\ serving \in 0 .. Len(Files)
        /\ ledger \subseteq {Files[m] : m \in DOMAIN Files}
    BY DEF SchemaInv, SchemaTypeOK
  <2>3. n \in 1 .. shipped /\ n \in 1 .. Len(Files)
    BY <2>1, <2>2, FilesAreASequence
  <2>4. /\ applied' \in Seq(STRING)
        /\ Len(applied') = n
        /\ \A m \in 1 .. n : applied'[m] = Files[m]
    <3>1. \A m \in 1 .. Len(applied) : applied[m] = Files[m]
      BY DEF SchemaInv, PrefixApplied
    <3>2. applied' = Append(applied, Files[n]) /\ Files[n] \in STRING
      BY <1>1, <1>3, <2>3, FilesAreASequence
    <3>3. /\ applied' \in Seq(STRING)
          /\ Len(applied') = Len(applied) + 1
          /\ \A m \in 1 .. Len(applied) : applied'[m] = applied[m]
          /\ applied'[Len(applied) + 1] = Files[n]
      BY <2>2, <3>2, AppendProperties
    <3>4. 1 .. n = (1 .. Len(applied)) \cup {n}
      BY <2>1, <2>2
    <3> QED BY <2>1, <3>1, <3>3, <3>4
  <2>5. ledger' = {Files[m] : m \in 1 .. n}
    <3>1. ledger' = {Files[m] : m \in 1 .. Len(applied)} \cup {Files[n]}
      BY <1>1, <1>3 DEF SchemaInv, PrefixApplied
    <3>2. 1 .. n = (1 .. Len(applied)) \cup {n}
      BY <2>1, <2>2
    <3> QED BY <3>1, <3>2
  <2>6. SchemaTypeOK'
    BY <1>1, <1>3, <2>2, <2>3, <2>4, FilesAreASequence DEF SchemaTypeOK
  <2>7. PrefixApplied'
    BY <1>1, <1>3, <2>3, <2>4, <2>5 DEF PrefixApplied
  <2>8. RunsAreSuffixes'
    <3> SUFFICES ASSUME NEW q \in Runner, rstep'[q] = "apply"
                 PROVE  \E k \in 0 .. n : pending'[q] = k + 1 .. shipped
      BY <1>1, <1>3, <2>4 DEF RunsAreSuffixes
    <3>1. CASE q = r
      <4>1. pending'[r] = pending[r] \ {n}
        BY <1>1, <1>3, <2>2
      <4>2. (n .. shipped) \ {n} = n + 1 .. shipped
        BY <2>2, <2>3
      <4> QED BY <2>1, <2>3, <3>1, <4>1, <4>2
    <3>2. CASE q # r
      <4>1. pending'[q] = pending[q] /\ rstep[q] = "apply"
        BY <1>1, <1>3, <2>2, <3>2
      <4>2. PICK k \in 0 .. Len(applied) : pending[q] = k + 1 .. shipped
        BY <4>1 DEF SchemaInv, RunsAreSuffixes
      <4> QED BY <4>1, <4>2, <2>1, <2>2
    <3> QED BY <3>1, <3>2
  <2>9. SuccessIsCurrent'
    BY <1>1, <1>3, <2>1, <2>2, <2>3 DEF SchemaInv, SuccessIsCurrent
  <2>10. ServedIsApplied'
    BY <1>1, <1>3, <2>1, <2>2, <2>4 DEF SchemaInv, ServedIsApplied
  <2> QED BY <2>6, <2>7, <2>8, <2>9, <2>10 DEF SchemaInv
<1> QED BY <1>2, <1>3

(* What is unrecorded when a run looks is the rest of the image.           *)
LEMMA RestIsListed ==
  ASSUME SchemaInv, NEW r \in Runner, ListPending(r)
  PROVE  SchemaInv'
<1>1. {n \in 1 .. shipped : Files[n] \notin ledger} = Len(applied) + 1 .. shipped
  <2>1. /\ Len(applied) \in Nat /\ shipped \in 1 .. Len(Files)
        /\ Len(applied) <= shipped
        /\ ledger = {Files[n] : n \in 1 .. Len(applied)}
    BY DEF SchemaInv, SchemaTypeOK, PrefixApplied
  <2>2. \A n \in 1 .. shipped : Files[n] \in ledger <=> n \in 1 .. Len(applied)
    <3> SUFFICES ASSUME NEW n \in 1 .. shipped, Files[n] \in ledger
                 PROVE  n \in 1 .. Len(applied)
      BY <2>1
    <3>1. PICK m \in 1 .. Len(applied) : Files[n] = Files[m]
      BY <2>1
    <3>2. n \in DOMAIN Files /\ m \in DOMAIN Files
      BY <2>1, FilesAreASequence
    <3> QED BY <3>1, <3>2, FilesAreDistinct
  <2> QED BY <2>1, <2>2
<1>2. /\ pending' = [pending EXCEPT ![r] = Len(applied) + 1 .. shipped]
      /\ rstep' = [rstep EXCEPT ![r] = "apply"]
      /\ UNCHANGED <<ledger, applied, shipped, serving>>
  BY <1>1 DEF ListPending
<1>3. SchemaTypeOK'
  <2>1. Len(applied) \in Nat /\ shipped \in 1 .. Len(Files)
    BY DEF SchemaInv, SchemaTypeOK
  <2>2. (Len(applied) + 1 .. shipped) \subseteq DOMAIN Files
    BY <2>1, FilesAreASequence
  <2> QED BY <1>2, <2>2 DEF SchemaInv, SchemaTypeOK, Ended
<1>4. PrefixApplied' /\ ServedIsApplied'
  BY <1>2 DEF SchemaInv, PrefixApplied, ServedIsApplied
<1>5. RunsAreSuffixes'
  <2> SUFFICES ASSUME NEW q \in Runner, rstep'[q] = "apply"
               PROVE  \E k \in 0 .. Len(applied) : pending'[q] = k + 1 .. shipped
    BY <1>2 DEF RunsAreSuffixes
  <2>1. Len(applied) \in 0 .. Len(applied)
    BY DEF SchemaInv, SchemaTypeOK
  <2>2. CASE q = r
    BY <1>2, <2>1, <2>2 DEF SchemaInv, SchemaTypeOK
  <2>3. CASE q # r
    BY <1>2, <2>3 DEF SchemaInv, SchemaTypeOK, RunsAreSuffixes
  <2> QED BY <2>2, <2>3
<1>6. SuccessIsCurrent'
  BY <1>2 DEF SchemaInv, SchemaTypeOK, SuccessIsCurrent
<1> QED BY <1>3, <1>4, <1>5, <1>6 DEF SchemaInv

LEMMA SchemaStepsKeep ==
  ASSUME SchemaInv, SchemaNext
  PROVE  SchemaInv'
<1> USE DEF SchemaInv, SchemaTypeOK, PrefixApplied, RunsAreSuffixes, SuccessIsCurrent,
            ServedIsApplied, Ended
<1>1. ASSUME NEW r \in Runner, StartRun(r) PROVE SchemaInv'
  BY <1>1 DEF StartRun
<1>2. ASSUME NEW r \in Runner, FinishRun(r) PROVE SchemaInv'
  <2>1. PICK k \in 0 .. Len(applied) : {} = k + 1 .. shipped
    BY <1>2 DEF FinishRun
  <2>2. Len(applied) = shipped
    <3>1. k + 1 > shipped
      BY <2>1
    <3> QED BY <2>1, <3>1
  <2> QED BY <1>2, <2>2 DEF FinishRun
<1>3. CASE StartServices
  BY <1>3 DEF StartServices
<1>4. CASE Upgrade
  BY <1>4 DEF Upgrade
<1>5. ASSUME NEW r \in Runner, AbortRun(r) PROVE SchemaInv'
  BY <1>5, FailureIsHarmless DEF AbortRun
<1> HIDE DEF SchemaInv
<1> QED BY <1>1, <1>2, <1>3, <1>4, <1>5, RestIsListed, FileIsApplied DEF SchemaNext, RunStep

LEMMA SchemaStays ==
  ASSUME SchemaInv, [Next]_vars
  PROVE  SchemaInv'
<1>1. CASE SchemaNext
  BY <1>1, SchemaStepsKeep
<1>2. CASE UNCHANGED schemaVars
  BY <1>2 DEF schemaVars, SchemaInv, SchemaTypeOK, PrefixApplied, RunsAreSuffixes,
     SuccessIsCurrent, ServedIsApplied
<1> QED BY <1>1, <1>2 DEF Next, Migrate, Admit, Measure, vars

THEOREM SchemaIsKept == Spec => []SchemaInv
<1>1. Init => SchemaInv
  BY SchemaStarts DEF Init
<1> QED BY <1>1, SchemaStays, PTL DEF Spec

(* run.py:1: however many runs overlap and wherever they die, files are    *)
(* applied in filename order, each once, and the ledger says which.        *)
THEOREM MigrationsApplyOnceInOrder == Spec => []AppliedOnceInOrder
<1>1. SchemaInv => AppliedOnceInOrder
  <2> SUFFICES ASSUME SchemaInv PROVE AppliedOnceInOrder
    OBVIOUS
  <2>1. /\ applied \in Seq(STRING) /\ Len(applied) <= Len(Files)
        /\ DOMAIN applied = 1 .. Len(applied)
        /\ \A n \in 1 .. Len(applied) : applied[n] = Files[n]
        /\ ledger = {Files[n] : n \in 1 .. Len(applied)}
    BY FilesAreASequence DEF SchemaInv, SchemaTypeOK, PrefixApplied
  <2>2. applied = SubSeq(Files, 1, Len(applied))
    <3>1. /\ SubSeq(Files, 1, Len(applied)) \in Seq(STRING)
          /\ Len(SubSeq(Files, 1, Len(applied))) = Len(applied)
          /\ \A n \in 1 .. Len(applied) : SubSeq(Files, 1, Len(applied))[n] = Files[n]
      <4>1. Len(applied) \in Nat /\ \A n \in 1 .. Len(applied) : Files[n] \in STRING
        BY <2>1, FilesAreASequence
      <4>2. /\ SubSeq(Files, 1, Len(applied)) \in Seq(STRING)
            /\ Len(SubSeq(Files, 1, Len(applied))) =
                 IF 1 <= Len(applied) THEN Len(applied) - 1 + 1 ELSE 0
            /\ \A n \in 1 .. Len(applied) - 1 + 1 :
                 SubSeq(Files, 1, Len(applied))[n] = Files[1 + n - 1]
        BY <4>1, SubSeqProperties
      <4> QED BY <4>1, <4>2
    <3> QED BY <2>1, <3>1, SeqEqual
  <2>3. ledger = Recorded
    BY <2>1 DEF Recorded
  <2> QED BY <2>2, <2>3 DEF AppliedOnceInOrder
<1> QED BY <1>1, SchemaIsKept, PTL

(* docker-compose.yml: no service, of this image or a later one, finds a   *)
(* schema that lacks a file it was shipped with.                           *)
THEOREM ServicesStartOnTheirSchema == Spec => []ServicesFindSchema
<1>1. SchemaInv => ServicesFindSchema
  <2> SUFFICES ASSUME SchemaInv, NEW n \in 1 .. serving PROVE Files[n] \in ledger
    BY DEF ServicesFindSchema
  <2>1. n \in 1 .. Len(applied)
    BY DEF SchemaInv, SchemaTypeOK, ServedIsApplied
  <2> QED BY <2>1 DEF SchemaInv, PrefixApplied
<1> QED BY <1>1, SchemaIsKept, PTL

-----------------------------------------------------------------------------
(* The rate limit.                                                         *)

(* When a window begins and when it is over.                               *)
Opens(w) == w * WindowLength

Closes(w) == (w + 1) * WindowLength

LimitTypeOK ==
  /\ now \in 0 .. MaxTime
  /\ counter \in [Window -> Nat]
  /\ expires \in [Window -> Int]
  /\ asked \in [Replica -> {Idle} \cup 0 .. now]
  /\ admitted \in [Window -> Nat]

RequestsAreFresh == \A r \in Replica : asked[r] # Idle => now - asked[r] <= MaxLag

(* A key stays until the last request of its window can have been counted, *)
(* and for no longer than its life after that.                             *)
KeysLast ==
  \A w \in Window :
    counter[w] > 0 =>
      /\ expires[w] > now
      /\ expires[w] >= Opens(w) + KeyLife
      /\ expires[w] < Closes(w) + MaxLag + KeyLife

(* The counter of a window knows of every submission it let through, or is *)
(* gone, and then so are all requests of the window.                       *)
AdmittedAreCounted ==
  \A w \in Window :
    \/ admitted[w] <= counter[w] /\ admitted[w] <= Limit
    \/ /\ counter[w] = 0 /\ admitted[w] <= Limit
       /\ now >= Closes(w) + MaxLag

LimitInv == LimitTypeOK /\ RequestsAreFresh /\ KeysLast /\ AdmittedAreCounted

(* The window of an instant contains it.                                   *)
LEMMA WindowContains ==
  ASSUME NEW t \in 0 .. MaxTime
  PROVE  /\ WindowAt(t) \in Window
         /\ Opens(WindowAt(t)) <= t
         /\ t < Closes(WindowAt(t))
BY LimitsAreNumbers DEF WindowAt, Window, Opens, Closes

LEMMA WindowsAreLong ==
  ASSUME NEW w \in Window
  PROVE  Opens(w) \in Int /\ Closes(w) \in Int /\ Closes(w) = Opens(w) + WindowLength
BY LimitsAreNumbers DEF Window, Opens, Closes

LEMMA LimitsAreIntegers ==
  /\ Limit \in Nat /\ MaxTime \in Nat /\ KeyLife \in Nat /\ WindowLength \in Nat
  /\ MaxLag \in Nat /\ MaxLag + WindowLength <= KeyLife
BY LimitsAreNumbers, KeyOutlivesLag

LEMMA LimitStarts == LimitInit => LimitInv
BY LimitsAreIntegers, WindowsAreLong DEF LimitInit, LimitInv, LimitTypeOK, RequestsAreFresh,
   KeysLast, AdmittedAreCounted, Idle

LEMMA TimeKeepsLimit ==
  ASSUME LimitInv, Tick
  PROVE  LimitInv'
<1> USE LimitsAreIntegers, WindowsAreLong
<1>1. now' = now + 1 /\ now' \in 0 .. MaxTime /\ now \in 0 .. MaxTime
  BY DEF Tick, LimitInv, LimitTypeOK
<1>2. \A w \in Window :
        \/ /\ expires[w] <= now'
           /\ counter'[w] = 0 /\ expires'[w] = 0
        \/ /\ expires[w] > now'
           /\ counter'[w] = counter[w] /\ expires'[w] = expires[w]
  BY <1>1 DEF Tick, LimitInv, LimitTypeOK
<1>3. LimitTypeOK'
  BY <1>1 DEF Tick, LimitInv, LimitTypeOK
<1>4. RequestsAreFresh'
  BY <1>1 DEF Tick, LimitInv, LimitTypeOK, RequestsAreFresh, Idle
<1>5. KeysLast'
  BY <1>1, <1>2 DEF LimitInv, LimitTypeOK, KeysLast
<1>6. AdmittedAreCounted'
  <2> SUFFICES ASSUME NEW w \in Window
               PROVE  \/ admitted'[w] <= counter'[w] /\ admitted'[w] <= Limit
                      \/ /\ counter'[w] = 0 /\ admitted'[w] <= Limit
                         /\ now' >= Closes(w) + MaxLag
    BY DEF AdmittedAreCounted
  <2>1. admitted' = admitted /\ admitted[w] <= Limit /\ admitted[w] \in Nat
    BY DEF Tick, LimitInv, LimitTypeOK, AdmittedAreCounted
  <2>2. /\ counter[w] \in Nat /\ expires[w] \in Int
        /\ Opens(w) \in Int /\ Closes(w) = Opens(w) + WindowLength
    BY DEF LimitInv, LimitTypeOK
  <2>3. CASE expires[w] > now'
    <3>1. counter'[w] = counter[w]
      BY <1>1, <1>2, <2>2, <2>3
    <3> QED BY <1>1, <2>1, <2>2, <3>1 DEF LimitInv, AdmittedAreCounted
  <2>4. CASE expires[w] <= now' /\ counter[w] > 0
    <3>1. now' >= Opens(w) + KeyLife
      BY <1>1, <2>2, <2>4 DEF LimitInv, KeysLast
    <3>2. counter'[w] = 0
      BY <1>1, <1>2, <2>2, <2>4
    <3> QED BY <1>1, <2>1, <2>2, <3>1, <3>2
  <2>5. CASE expires[w] <= now' /\ counter[w] = 0
    <3>1. counter'[w] = 0
      BY <1>1, <1>2, <2>2, <2>5
    <3> QED BY <1>1, <2>1, <2>2, <2>5, <3>1 DEF LimitInv, AdmittedAreCounted
  <2> QED BY <1>1, <2>2, <2>3, <2>4, <2>5
<1> QED BY <1>3, <1>4, <1>5, <1>6 DEF LimitInv

LEMMA RequestKeepsLimit ==
  ASSUME LimitInv, NEW r \in Replica, Request(r)
  PROVE  LimitInv'
BY LimitsAreIntegers, WindowsAreLong
   DEF Request, LimitInv, LimitTypeOK, RequestsAreFresh, KeysLast, AdmittedAreCounted, Idle

LEMMA CountKeepsLimit ==
  ASSUME LimitInv, NEW r \in Replica, Count(r)
  PROVE  LimitInv'
<1> USE LimitsAreIntegers, WindowsAreLong
<1> DEFINE w == WindowAt(asked[r])
<1>1. /\ asked[r] \in 0 .. now /\ now \in 0 .. MaxTime
      /\ now - asked[r] <= MaxLag
  BY DEF Count, LimitInv, LimitTypeOK, RequestsAreFresh
<1>2. /\ w \in Window
      /\ Opens(w) <= now
      /\ now < Closes(w) + MaxLag
  <2>1. asked[r] \in 0 .. MaxTime
    BY <1>1
  <2> QED BY <1>1, <2>1, WindowContains
<1>3. /\ admitted[w] <= counter[w] /\ admitted[w] <= Limit
      /\ counter[w] \in Nat /\ admitted[w] \in Nat
  BY <1>1, <1>2 DEF LimitInv, LimitTypeOK, AdmittedAreCounted
<1>4. /\ counter' \in [Window -> Nat]
      /\ counter'[w] \in Nat /\ counter'[w] > 0
      /\ counter'[w] = IF counter[w] > Limit THEN counter[w] ELSE counter[w] + 1
      /\ expires' = [expires EXCEPT ![w] = now + KeyLife]
      /\ \A v \in Window \ {w} : counter'[v] = counter[v]
  BY <1>2, <1>3 DEF Count, CountUp, LimitInv, LimitTypeOK
<1>5. /\ admitted' = [admitted EXCEPT ![w] = IF counter'[w] > Limit THEN @ ELSE @ + 1]
      /\ asked' = [asked EXCEPT ![r] = Idle]
      /\ now' = now
  BY DEF Count
<1> HIDE DEF w
<1>6. LimitTypeOK'
  BY <1>2, <1>3, <1>4, <1>5 DEF LimitInv, LimitTypeOK
<1>7. RequestsAreFresh'
  BY <1>5 DEF LimitInv, LimitTypeOK, RequestsAreFresh
<1>8. KeysLast'
  <2>1. /\ now + KeyLife > now /\ now + KeyLife >= Opens(w) + KeyLife
        /\ now + KeyLife < Closes(w) + MaxLag + KeyLife
    BY <1>1, <1>2
  <2>2. expires'[w] = now + KeyLife /\ \A v \in Window \ {w} : expires'[v] = expires[v]
    BY <1>2, <1>4 DEF LimitInv, LimitTypeOK
  <2> QED BY <1>2, <1>4, <1>5, <2>1, <2>2 DEF LimitInv, KeysLast
<1>9. AdmittedAreCounted'
  <2>1. admitted'[w] <= counter'[w] /\ admitted'[w] <= Limit
    BY <1>2, <1>3, <1>4, <1>5 DEF LimitInv, LimitTypeOK
  <2>2. \A v \in Window \ {w} : admitted'[v] = admitted[v]
    BY <1>5 DEF LimitInv, LimitTypeOK
  <2> QED BY <1>4, <1>5, <2>1, <2>2 DEF LimitInv, AdmittedAreCounted
<1> QED BY <1>6, <1>7, <1>8, <1>9 DEF LimitInv

LEMMA LimitStays ==
  ASSUME LimitInv, [Next]_vars
  PROVE  LimitInv'
<1>1. CASE UNCHANGED limitVars
  BY <1>1 DEF limitVars, LimitInv, LimitTypeOK, RequestsAreFresh, KeysLast, AdmittedAreCounted
<1>2. CASE LimitNext
  BY <1>2, TimeKeepsLimit, RequestKeepsLimit, CountKeepsLimit DEF LimitNext
<1> QED BY <1>1, <1>2 DEF Next, Migrate, Admit, Measure, vars

THEOREM LimitIsKept == Spec => []LimitInv
<1>1. Init => LimitInv
  BY LimitStarts DEF Init
<1> QED BY <1>1, LimitStays, PTL DEF Spec

(* enforce_rate_limit(): whatever the number of replicas and however late  *)
(* a request is counted, a window admits no more than the limit.           *)
THEOREM AdmissionsStayLimited == Spec => []WindowsAreLimited
<1>1. LimitInv => WindowsAreLimited
  BY DEF LimitInv, AdmittedAreCounted, WindowsAreLimited
<1> QED BY <1>1, LimitIsKept, PTL

(* EXPIRE: Redis keeps a counter no longer than a key's life after the     *)
(* last request that can have been of its window.                          *)
THEOREM CountersExpire == Spec => []KeysExpire
<1>1. LimitInv => KeysExpire
  <2> SUFFICES ASSUME LimitInv, NEW w \in Window, counter[w] > 0
               PROVE  now < (w + 1) * WindowLength - 1 + MaxLag + KeyLife
    BY DEF KeysExpire
  <2>1. /\ expires[w] > now /\ expires[w] < Closes(w) + MaxLag + KeyLife
        /\ expires[w] \in Int /\ now \in Int
    BY DEF LimitInv, LimitTypeOK, KeysLast
  <2> QED BY <2>1, LimitsAreIntegers, WindowsAreLong DEF Closes, Window
<1> QED BY <1>1, LimitIsKept, PTL

-----------------------------------------------------------------------------
(* The histogram.  A field lags behind what it counts by the recordings    *)
(* that have yet to increment it and by those that were cut off.           *)

Field(n) == IF n = Total THEN total ELSE bucket[n]

Counted(n) == {m \in DOMAIN measured : n = Total \/ measured[m] <= Bounds[n]}

Adders(n) == {w \in Observer : n \in adding[w]}

MetricsTypeOK ==
  /\ bucket \in [DOMAIN Bounds -> Nat] /\ total \in Nat
  /\ adding \in [Observer -> SUBSET (1 .. Total)]
  /\ measured \in Seq(Int)
  /\ cut \in Nat

FieldsLag ==
  \A n \in 1 .. Total :
    /\ Field(n) + Cardinality(Adders(n)) <= Cardinality(Counted(n))
    /\ Cardinality(Counted(n)) <= Field(n) + Cardinality(Adders(n)) + cut

MetricsInv == MetricsTypeOK /\ FieldsLag

LEMMA BoundsAreNumbered ==
  /\ Len(Bounds) \in Nat /\ Total \in Nat /\ Total > 0
  /\ DOMAIN Bounds = 1 .. Len(Bounds)
  /\ DOMAIN Bounds = (1 .. Total) \ {Total}
  /\ \A n \in DOMAIN Bounds : n # Total /\ Bounds[n] \in Int
<1>1. Len(Bounds) \in Nat /\ DOMAIN Bounds = 1 .. Len(Bounds)
  BY BoundsAscend
<1>2. Total = Len(Bounds) + 1
  BY DEF Total
<1>3. \A n : n \in 1 .. Len(Bounds) <=> n \in (1 .. Total) \ {Total}
  BY <1>1, <1>2
<1>4. \A n \in DOMAIN Bounds : n # Total /\ Bounds[n] \in Int
  BY <1>1, <1>2, BoundsAscend
<1>. QED
  BY <1>1, <1>2, <1>3, <1>4

LEMMA CardinalitiesAreNat ==
  ASSUME MetricsTypeOK, NEW n
  PROVE  /\ IsFiniteSet(Adders(n)) /\ Cardinality(Adders(n)) \in Nat
         /\ IsFiniteSet(Counted(n)) /\ Cardinality(Counted(n)) \in Nat
<1>1. IsFiniteSet(Adders(n))
  BY ObserversAreFinite, FS_Subset DEF Adders
<1>2. DOMAIN measured = 1 .. Len(measured) /\ Len(measured) \in Nat
  BY DEF MetricsTypeOK
<1>3. IsFiniteSet(DOMAIN measured)
  BY <1>2, FS_Interval
<1>4. IsFiniteSet(Counted(n))
  BY <1>3, FS_Subset DEF Counted
<1>. QED
  BY <1>1, <1>4, FS_CardinalityType

LEMMA MetricsStart == MetricsInit => MetricsInv
<1> SUFFICES ASSUME MetricsInit PROVE MetricsInv
  OBVIOUS
<1>1. MetricsTypeOK
  BY DEF MetricsInit, MetricsTypeOK
<1>2. \A n \in 1 .. Total : Field(n) = 0
  BY BoundsAreNumbered DEF MetricsInit, Field
<1>3. \A n : Adders(n) = {} /\ Counted(n) = {}
  BY DEF MetricsInit, Adders, Counted
<1>4. \A n : Cardinality(Adders(n)) = 0 /\ Cardinality(Counted(n)) = 0
  BY <1>3, FS_EmptySet
<1>. QED
  BY <1>1, <1>2, <1>4 DEF MetricsInv, FieldsLag, MetricsInit

(* A recording begins: it is counted by, and will be added to, the same    *)
(* fields.                                                                 *)
LEMMA BeginningIsCounted ==
  ASSUME MetricsInv, NEW w \in Observer, StageDone(w)
  PROVE  MetricsInv'
<1>. USE DEF MetricsInv
<1>1. PICK seconds \in Duration :
        /\ measured' = Append(measured, seconds)
        /\ adding' = [adding EXCEPT ![w] = Commands(seconds)]
  BY DEF StageDone
<1>2. seconds \in Int /\ Commands(seconds) \subseteq 1 .. Total
  BY BoundsAscend DEF Commands
<1>3. /\ measured' \in Seq(Int) /\ DOMAIN measured' = DOMAIN measured \cup {Len(measured) + 1}
      /\ Len(measured) + 1 \notin DOMAIN measured
      /\ measured'[Len(measured) + 1] = seconds
      /\ \A m \in DOMAIN measured : measured'[m] = measured[m]
  BY <1>1, <1>2 DEF MetricsTypeOK
<1>4. UNCHANGED <<bucket, total, cut>> /\ adding[w] = {}
  BY DEF StageDone
<1>5. MetricsTypeOK'
  BY <1>1, <1>2, <1>3, <1>4 DEF MetricsTypeOK
<1>6. ASSUME NEW n \in 1 .. Total, n \in Commands(seconds)
      PROVE  /\ Adders(n)' = Adders(n) \cup {w} /\ w \notin Adders(n)
             /\ Counted(n)' = Counted(n) \cup {Len(measured) + 1}
             /\ Len(measured) + 1 \notin Counted(n)
  BY <1>1, <1>3, <1>4, <1>6 DEF Adders, Counted, Commands, MetricsTypeOK
<1>7. ASSUME NEW n \in 1 .. Total, n \notin Commands(seconds)
      PROVE  Adders(n)' = Adders(n) /\ Counted(n)' = Counted(n)
  BY <1>1, <1>3, <1>4, <1>7 DEF Adders, Counted, Commands, MetricsTypeOK
<1>8. ASSUME NEW n \in 1 .. Total
      PROVE  \E d \in {0, 1} :
               /\ Cardinality(Adders(n)') = Cardinality(Adders(n)) + d
               /\ Cardinality(Counted(n)') = Cardinality(Counted(n)) + d
  <2>1. CASE n \in Commands(seconds)
    <3>1. Cardinality(Adders(n)') = Cardinality(Adders(n)) + 1
      BY <1>6, <2>1, CardinalitiesAreNat, FS_AddElement
    <3>2. Cardinality(Counted(n)') = Cardinality(Counted(n)) + 1
      BY <1>6, <2>1, CardinalitiesAreNat, FS_AddElement
    <3>. QED
      BY <3>1, <3>2
  <2>2. CASE n \notin Commands(seconds)
    BY <1>7, <2>2, CardinalitiesAreNat
  <2>. QED
    BY <2>1, <2>2
<1>9. \A n \in 1 .. Total : Field(n)' = Field(n) /\ Field(n) \in Nat
  BY <1>4, BoundsAreNumbered DEF Field, MetricsTypeOK
<1>10. ASSUME NEW n \in 1 .. Total
       PROVE  /\ Field(n)' + Cardinality(Adders(n)') <= Cardinality(Counted(n)')
              /\ Cardinality(Counted(n)') <= Field(n)' + Cardinality(Adders(n)') + cut'
  <2>1. /\ Field(n) + Cardinality(Adders(n)) <= Cardinality(Counted(n))
        /\ Cardinality(Counted(n)) <= Field(n) + Cardinality(Adders(n)) + cut
    BY DEF FieldsLag
  <2>2. Cardinality(Adders(n)) \in Nat /\ Cardinality(Counted(n)) \in Nat /\ cut \in Nat
    BY CardinalitiesAreNat DEF MetricsTypeOK
  <2>3. PICK d \in {0, 1} :
          /\ Cardinality(Adders(n)') = Cardinality(Adders(n)) + d
          /\ Cardinality(Counted(n)') = Cardinality(Counted(n)) + d
    BY <1>8
  <2>4. Field(n)' = Field(n) /\ Field(n) \in Nat /\ cut' = cut
    BY <1>4, <1>9
  <2>. QED
    BY <2>1, <2>2, <2>3, <2>4
<1>. QED
  BY <1>5, <1>10 DEF FieldsLag

(* One command: a field catches up by one recording.                       *)
LEMMA CommandIsCounted ==
  ASSUME MetricsInv, NEW w \in Observer, Hincrby(w)
  PROVE  MetricsInv'
<1>. USE DEF MetricsInv
<1>1. PICK k \in 1 .. Total :
        /\ IsNext(w, k)
        /\ IF k = Total THEN total' = total + 1 /\ UNCHANGED bucket
           ELSE bucket' = [bucket EXCEPT ![k] = bucket[k] + 1] /\ UNCHANGED total
        /\ adding' = [adding EXCEPT ![w] = adding[w] \ {k}]
  BY DEF Hincrby
<1>2. UNCHANGED <<measured, cut>> /\ k \in adding[w]
  BY <1>1 DEF Hincrby, IsNext
<1>3. MetricsTypeOK'
  <2>1. adding' \in [Observer -> SUBSET (1 .. Total)]
    BY <1>1 DEF MetricsTypeOK
  <2>2. bucket' \in [DOMAIN Bounds -> Nat] /\ total' \in Nat
    BY <1>1, BoundsAreNumbered DEF MetricsTypeOK
  <2>. QED
    BY <1>2, <2>1, <2>2 DEF MetricsTypeOK
<1>4. \A n \in 1 .. Total :
        /\ Field(n)' = IF n = k THEN Field(n) + 1 ELSE Field(n)
        /\ Field(n) \in Nat
  BY <1>1, BoundsAreNumbered DEF Field, MetricsTypeOK
<1>5. Adders(k)' = Adders(k) \ {w} /\ w \in Adders(k)
  BY <1>1, <1>2 DEF Adders, MetricsTypeOK
<1>6. \A n \in (1 .. Total) \ {k} : Adders(n)' = Adders(n)
  BY <1>1 DEF Adders, MetricsTypeOK
<1>7. \A n : Counted(n)' = Counted(n)
  BY <1>2 DEF Counted
<1>8. Cardinality(Adders(k)') = Cardinality(Adders(k)) - 1
  BY <1>5, CardinalitiesAreNat, FS_RemoveElement
<1>9. ASSUME NEW n \in 1 .. Total
      PROVE  /\ Field(n)' + Cardinality(Adders(n)') <= Cardinality(Counted(n)')
             /\ Cardinality(Counted(n)') <= Field(n)' + Cardinality(Adders(n)') + cut'
  <2>1. /\ Field(n) + Cardinality(Adders(n)) <= Cardinality(Counted(n))
        /\ Cardinality(Counted(n)) <= Field(n) + Cardinality(Adders(n)) + cut
    BY DEF FieldsLag
  <2>2. Cardinality(Adders(n)) \in Nat /\ Cardinality(Counted(n)) \in Nat /\ cut \in Nat
    BY CardinalitiesAreNat DEF MetricsTypeOK
  <2>3. CASE n = k
    BY <1>2, <1>4, <1>7, <1>8, <2>1, <2>2, <2>3
  <2>4. CASE n # k
    BY <1>2, <1>4, <1>6, <1>7, <2>1, <2>2, <2>4
  <2>. QED
    BY <2>3, <2>4
<1>. QED
  BY <1>3, <1>9 DEF FieldsLag

(* A recording is cut off: no field is further behind than before by more  *)
(* than this one.                                                          *)
LEMMA CutIsCounted ==
  ASSUME MetricsInv, NEW w \in Observer, PipelineBreaks(w)
  PROVE  MetricsInv'
<1>. USE DEF MetricsInv
<1>1. adding' = [adding EXCEPT ![w] = {}] /\ cut' = cut + 1 /\ UNCHANGED <<bucket, total, measured>>
  BY DEF PipelineBreaks
<1>2. MetricsTypeOK'
  BY <1>1 DEF MetricsTypeOK
<1>3. \A n : Adders(n)' = Adders(n) \ {w} /\ Counted(n)' = Counted(n) /\ Field(n)' = Field(n)
  BY <1>1 DEF Adders, Counted, Field, MetricsTypeOK
<1>4. ASSUME NEW n \in 1 .. Total
      PROVE  /\ Field(n)' + Cardinality(Adders(n)') <= Cardinality(Counted(n)')
             /\ Cardinality(Counted(n)') <= Field(n)' + Cardinality(Adders(n)') + cut'
  <2>1. /\ Field(n) + Cardinality(Adders(n)) <= Cardinality(Counted(n))
        /\ Cardinality(Counted(n)) <= Field(n) + Cardinality(Adders(n)) + cut
    BY DEF FieldsLag
  <2>2. /\ Cardinality(Adders(n)) \in Nat /\ Cardinality(Counted(n)) \in Nat /\ cut \in Nat
        /\ Field(n) \in Nat
    BY CardinalitiesAreNat, BoundsAreNumbered DEF MetricsTypeOK, Field
  <2>3. \/ Cardinality(Adders(n) \ {w}) = Cardinality(Adders(n)) - 1
        \/ Cardinality(Adders(n) \ {w}) = Cardinality(Adders(n))
    BY CardinalitiesAreNat, FS_RemoveElement
  <2>4. \/ Cardinality(Adders(n)') = Cardinality(Adders(n)) - 1
        \/ Cardinality(Adders(n)') = Cardinality(Adders(n))
    BY <1>3, <2>3
  <2>5. Counted(n)' = Counted(n) /\ Field(n)' = Field(n) /\ cut' = cut + 1
    BY <1>1, <1>3
  <2>. QED
    BY <2>1, <2>2, <2>4, <2>5
<1>. QED
  BY <1>2, <1>4 DEF FieldsLag

LEMMA MetricsStay == ASSUME MetricsInv, [Next]_vars PROVE MetricsInv'
<1>1. CASE UNCHANGED metricsVars
  BY <1>1 DEF metricsVars, MetricsInv, MetricsTypeOK, FieldsLag, Field, Counted, Adders
<1>2. CASE MetricsNext
  BY <1>2, BeginningIsCounted, CommandIsCounted, CutIsCounted DEF MetricsNext
<1>. QED
  BY <1>1, <1>2 DEF Next, Migrate, Admit, Measure, vars

THEOREM MetricsAreKept == Spec => []MetricsInv
<1>1. Init => MetricsInv
  BY MetricsStart DEF Init
<1>. QED
  BY <1>1, MetricsStay, PTL DEF Spec

-----------------------------------------------------------------------------
(* render().  What it shows of a bucket is the last field up to it that is *)
(* not zero.  The function is recursive; that it is defined, and what its  *)
(* values are, follows by least counterexamples.                           *)

LEMMA LeastElement ==
  ASSUME NEW T, T \subseteq Nat, T # {}
  PROVE  \E x \in T : \A y \in T : x <= y
<1>1. PICK x \in T : \A y \in T : <<y, x>> \notin OpToRel(<, Nat)
  BY NatLessThanWellFounded, WFMin
<1>2. ASSUME NEW y \in T PROVE x <= y
  <2>1. <<y, x>> \in Nat \X Nat
    OBVIOUS
  <2>2. ~(y < x)
    BY <1>1, <2>1 DEF OpToRel
  <2>. QED
    BY <2>2
<1>. QED
  BY <1>2

LastUpTo(n, v) ==
  \/ v = 0 /\ \A m \in 1 .. n : bucket[m] = 0
  \/ \E m \in 1 .. n : v = bucket[m] /\ v # 0 /\ \A k \in m + 1 .. n : bucket[k] = 0

LEMMA LastOfNone == \A v : LastUpTo(0, v) <=> v = 0
BY DEF LastUpTo

LEMMA LastIsUnique ==
  ASSUME NEW n \in Nat, NEW v, NEW u, LastUpTo(n, v), LastUpTo(n, u)
  PROVE  v = u
<1>1. CASE v = 0 \/ u = 0
  BY <1>1 DEF LastUpTo
<1>2. CASE v # 0 /\ u # 0
  <2>1. PICK m \in 1 .. n : v = bucket[m] /\ \A k \in m + 1 .. n : bucket[k] = 0
    BY <1>2 DEF LastUpTo
  <2>2. PICK l \in 1 .. n : u = bucket[l] /\ \A k \in l + 1 .. n : bucket[k] = 0
    BY <1>2 DEF LastUpTo
  <2>3. ~(m < l) /\ ~(l < m)
    BY <1>2, <2>1, <2>2
  <2>. QED
    BY <2>1, <2>2, <2>3
<1>. QED
  BY <1>1, <1>2

LEMMA LastFollows ==
  ASSUME NEW n \in Nat \ {0}, NEW v, LastUpTo(n - 1, v)
  PROVE  LastUpTo(n, IF bucket[n] = 0 THEN v ELSE bucket[n])
<1>1. CASE bucket[n] # 0
  <2>1. n \in 1 .. n /\ n + 1 .. n = {}
    OBVIOUS
  <2>. QED
    BY <1>1, <2>1 DEF LastUpTo
<1>2. CASE bucket[n] = 0
  <2>1. \A k \in 1 .. n : k = n \/ k \in 1 .. n - 1
    OBVIOUS
  <2>2. CASE v = 0 /\ \A m \in 1 .. n - 1 : bucket[m] = 0
    BY <1>2, <2>1, <2>2 DEF LastUpTo
  <2>3. CASE \E m \in 1 .. n - 1 : v = bucket[m] /\ v # 0 /\ \A k \in m + 1 .. n - 1 : bucket[k] = 0
    <3>1. PICK m \in 1 .. n - 1 : v = bucket[m] /\ v # 0 /\ \A k \in m + 1 .. n - 1 : bucket[k] = 0
      BY <2>3
    <3>2. \A k \in m + 1 .. n : bucket[k] = 0
      BY <1>2, <3>1
    <3>. QED
      BY <1>2, <3>1, <3>2 DEF LastUpTo
  <2>. QED
    BY <2>2, <2>3 DEF LastUpTo
<1>. QED
  BY <1>1, <1>2

LEMMA LastExists == ASSUME NEW n \in Nat PROVE \E v : LastUpTo(n, v)
<1>. DEFINE T == {k \in Nat : ~\E v : LastUpTo(k, v)}
<1> SUFFICES ASSUME T # {} PROVE FALSE
  OBVIOUS
<1>1. PICK k \in T : \A l \in T : k <= l
  BY LeastElement
<1>2. k # 0
  BY LastOfNone
<1>3. k - 1 \in Nat /\ k - 1 \notin T
  BY <1>1, <1>2
<1>4. PICK v : LastUpTo(k - 1, v)
  BY <1>3
<1>. QED
  BY <1>2, <1>4, LastFollows

LEMMA RenderedIsDefined ==
  Rendered = [n \in 0 .. Len(Bounds) |->
                IF n = 0 THEN 0 ELSE IF bucket[n] = 0 THEN Rendered[n - 1] ELSE bucket[n]]
<1>. DEFINE f == [n \in 0 .. Len(Bounds) |-> CHOOSE v : LastUpTo(n, v)]
            Renders(g) == g = [n \in 0 .. Len(Bounds) |->
                IF n = 0 THEN 0 ELSE IF bucket[n] = 0 THEN g[n - 1] ELSE bucket[n]]
<1>0. Len(Bounds) \in Nat
  BY BoundsAreNumbered
<1>1. \A n \in 0 .. Len(Bounds) : LastUpTo(n, f[n])
  BY <1>0, LastExists
<1>2. ASSUME NEW n \in 0 .. Len(Bounds)
      PROVE  f[n] = IF n = 0 THEN 0 ELSE IF bucket[n] = 0 THEN f[n - 1] ELSE bucket[n]
  <2>1. CASE n = 0
    BY <1>1, <2>1, LastOfNone
  <2>2. CASE n # 0
    <3>1. n \in Nat \ {0} /\ n - 1 \in 0 .. Len(Bounds)
      BY <1>0, <2>2
    <3>. HIDE DEF f
    <3>2. LastUpTo(n, IF bucket[n] = 0 THEN f[n - 1] ELSE bucket[n])
      BY <1>1, <3>1, LastFollows
    <3>. QED
      BY <1>1, <2>2, <3>1, <3>2, LastIsUnique
  <2>. QED
    BY <2>1, <2>2
<1>3. f = [n \in 0 .. Len(Bounds) |-> f[n]]
  OBVIOUS
<1>. HIDE DEF f
<1>4. \E g : Renders(g)
  <2>1. Renders(f)
    BY <1>2, <1>3
  <2>. QED
    BY <2>1
<1>5. Rendered = CHOOSE g : Renders(g)
  BY DEF Rendered
<1>. QED
  BY <1>4, <1>5

LEMMA RenderedIsLast == \A n \in 0 .. Len(Bounds) : LastUpTo(n, Rendered[n])
<1>. DEFINE T == {k \in 0 .. Len(Bounds) : ~LastUpTo(k, Rendered[k])}
<1>0. Len(Bounds) \in Nat
  BY BoundsAreNumbered
<1> SUFFICES ASSUME T # {} PROVE FALSE
  OBVIOUS
<1>1. T \subseteq Nat
  BY <1>0
<1>2. PICK k \in T : \A l \in T : k <= l
  BY <1>1, LeastElement
<1>3. CASE k = 0
  BY <1>0, <1>3, RenderedIsDefined, LastOfNone
<1>4. CASE k # 0
  <2>1. k \in Nat \ {0} /\ k - 1 \in 0 .. Len(Bounds) /\ k - 1 \notin T
    BY <1>0, <1>2, <1>4
  <2>2. LastUpTo(k - 1, Rendered[k - 1])
    BY <2>1
  <2>3. Rendered[k] = IF bucket[k] = 0 THEN Rendered[k - 1] ELSE bucket[k]
    BY <1>4, RenderedIsDefined
  <2>4. LastUpTo(k, Rendered[k])
    BY <2>1, <2>2, <2>3, LastFollows
  <2>. QED
    BY <2>4
<1>. QED
  BY <1>3, <1>4

-----------------------------------------------------------------------------
(* What a scrape shows.                                                    *)

LEMMA FieldsShown ==
  ASSUME MetricsInv, NEW n \in DOMAIN Bounds
  PROVE  /\ n \in 1 .. Total /\ n \in 0 .. Len(Bounds)
         /\ Field(n) = bucket[n] /\ bucket[n] \in Nat
         /\ Counted(n) = {m \in DOMAIN measured : measured[m] <= Bounds[n]}
<1>1. n \in 1 .. Total /\ n # Total
  BY BoundsAreNumbered
<1>2. n \in 1 .. Len(Bounds) /\ Len(Bounds) \in Nat
  BY BoundsAreNumbered
<1>3. n \in 0 .. Len(Bounds)
  BY <1>2
<1>. QED
  BY <1>1, <1>3 DEF MetricsInv, MetricsTypeOK, Field, Counted

LEMMA AllAreCounted ==
  ASSUME MetricsInv
  PROVE  /\ Total \in 1 .. Total /\ Field(Total) = total
         /\ Cardinality(Counted(Total)) = Len(measured)
<1>1. Counted(Total) = 1 .. Len(measured) /\ Len(measured) \in Nat
  BY DEF Counted, MetricsInv, MetricsTypeOK
<1>2. \A n \in Nat : Cardinality(1 .. n) = n
  BY FS_Interval
<1>. QED
  BY <1>1, <1>2, BoundsAreNumbered DEF Field

(* Buckets are cumulative.                                                 *)
LEMMA CountsAscend ==
  ASSUME MetricsInv, NEW m \in 1 .. Total, NEW n \in m .. Total
  PROVE  Cardinality(Counted(m)) <= Cardinality(Counted(n))
<1>1. n \in 1 .. Total
  BY BoundsAreNumbered
<1>2. Counted(m) \subseteq Counted(n)
  <2>1. CASE n = Total
    BY <2>1 DEF Counted
  <2>2. CASE n # Total
    <3>1. m \in DOMAIN Bounds /\ n \in DOMAIN Bounds
      <4>1. m # Total
        BY <1>1, <2>2, BoundsAreNumbered
      <4>. QED
        BY <1>1, <2>2, <4>1, BoundsAreNumbered
    <3>2. Bounds[m] \in Int /\ Bounds[n] \in Int /\ Bounds[m] <= Bounds[n]
      BY <3>1, BoundsAscend, BoundsAreNumbered
    <3>3. \A l \in DOMAIN measured : measured[l] \in Int
      BY DEF MetricsInv, MetricsTypeOK
    <3>. QED
      BY <2>2, <3>1, <3>2, <3>3, BoundsAreNumbered DEF Counted
  <2>. QED
    BY <2>1, <2>2
<1>. QED
  BY <1>2, CardinalitiesAreNat, FS_Subset DEF MetricsInv

LEMMA AddersAreUnderWay ==
  ASSUME MetricsInv, NEW n
  PROVE  UnderWay \in Nat /\ Cardinality(Adders(n)) <= UnderWay
<1>. DEFINE W == {w \in Observer : adding[w] # {}}
<1>1. IsFiniteSet(W) /\ Adders(n) \subseteq W
  BY ObserversAreFinite, FS_Subset DEF Adders
<1>. QED
  BY <1>1, FS_Subset, FS_CardinalityType DEF UnderWay

(* A scrape while nothing is under way and nothing was ever cut off shows  *)
(* the distribution of the durations, however their recording interleaved  *)
(* and although absent fields are filled in from the bucket before.        *)
THEOREM ScrapesAreExact == Spec => []ScrapeIsExact
<1>1. MetricsInv => ScrapeIsExact
  <2> SUFFICES ASSUME MetricsInv, UnderWay = 0, cut = 0
               PROVE  /\ \A n \in DOMAIN Bounds : Rendered[n] = Under(Bounds[n])
                      /\ total = Len(measured)
    BY DEF ScrapeIsExact
  <2>1. ASSUME NEW n \in 1 .. Total PROVE Field(n) = Cardinality(Counted(n))
    <3>1. Cardinality(Adders(n)) = 0
      BY AddersAreUnderWay, CardinalitiesAreNat DEF MetricsInv
    <3>2. Field(n) \in Nat /\ Cardinality(Counted(n)) \in Nat
      BY CardinalitiesAreNat, BoundsAreNumbered DEF MetricsInv, MetricsTypeOK, Field
    <3>3. /\ Field(n) + Cardinality(Adders(n)) <= Cardinality(Counted(n))
          /\ Cardinality(Counted(n)) <= Field(n) + Cardinality(Adders(n)) + cut
      BY DEF MetricsInv, FieldsLag
    <3>. QED
      BY <3>1, <3>2, <3>3
  <2>2. ASSUME NEW n \in DOMAIN Bounds PROVE Rendered[n] = Under(Bounds[n])
    <3>1. /\ n \in 1 .. Total /\ n \in 0 .. Len(Bounds) /\ bucket[n] \in Nat
          /\ bucket[n] = Under(Bounds[n])
      BY <2>1, FieldsShown DEF Under
    <3>2. LastUpTo(n, Rendered[n])
      BY <3>1, RenderedIsLast
    <3>3. \A k \in 1 .. n : k \in DOMAIN Bounds /\ bucket[k] \in Nat /\ bucket[k] <= bucket[n]
      <4> SUFFICES ASSUME NEW k \in 1 .. n
                   PROVE  k \in DOMAIN Bounds /\ bucket[k] \in Nat /\ bucket[k] <= bucket[n]
        OBVIOUS
      <4>1. k \in DOMAIN Bounds /\ k \in 1 .. Total /\ n \in k .. Total
        BY <3>1, BoundsAreNumbered
      <4>2. Field(k) = bucket[k] /\ Field(n) = bucket[n] /\ bucket[k] \in Nat
        BY <4>1, FieldsShown
      <4>. QED
        BY <2>1, <3>1, <4>1, <4>2, CountsAscend
    <3>4. Rendered[n] = bucket[n]
      <4>1. CASE bucket[n] # 0
        <5>1. n \in 1 .. n /\ n \in Nat
          BY <3>1
        <5>. QED
          BY <3>2, <4>1, <5>1 DEF LastUpTo
      <4>2. CASE bucket[n] = 0
        BY <3>2, <3>3, <4>2 DEF LastUpTo
      <4>. QED
        BY <4>1, <4>2
    <3>. QED
      BY <3>1, <3>4
  <2>. QED
    BY <2>1, <2>2, AllAreCounted
<1>. QED
  BY <1>1, MetricsAreKept, PTL

(* What is shown of a field is behind what it counts by no more than the   *)
(* recordings under way and cut off, and not ahead of it.                  *)
LEMMA ShownIsClose ==
  ASSUME MetricsInv, NEW n \in 1 .. Total
  PROVE  /\ Field(n) \in Nat
         /\ Field(n) <= Cardinality(Counted(n))
         /\ Cardinality(Counted(n)) <= Field(n) + UnderWay + cut
<1>1. Field(n) \in Nat /\ cut \in Nat
  BY BoundsAreNumbered DEF MetricsInv, MetricsTypeOK, Field
<1>2. /\ Cardinality(Adders(n)) \in Nat /\ Cardinality(Counted(n)) \in Nat
      /\ UnderWay \in Nat /\ Cardinality(Adders(n)) <= UnderWay
  BY CardinalitiesAreNat, AddersAreUnderWay DEF MetricsInv
<1>3. /\ Field(n) + Cardinality(Adders(n)) <= Cardinality(Counted(n))
      /\ Cardinality(Counted(n)) <= Field(n) + Cardinality(Adders(n)) + cut
  BY DEF MetricsInv, FieldsLag
<1>. QED
  BY <1>1, <1>2, <1>3

(* A bucket that is shown is one that was counted, at or before it.        *)
LEMMA RenderedIsAField ==
  ASSUME MetricsInv, NEW n \in DOMAIN Bounds
  PROVE  \/ Rendered[n] = 0 /\ \A k \in 1 .. n : bucket[k] = 0
         \/ \E k \in 1 .. n :
              /\ k \in DOMAIN Bounds /\ Rendered[n] = bucket[k] /\ bucket[k] # 0
              /\ \A l \in k + 1 .. n : bucket[l] = 0
<1>1. n \in 0 .. Len(Bounds) /\ DOMAIN Bounds = 1 .. Len(Bounds) /\ Len(Bounds) \in Nat
  BY BoundsAreNumbered
<1>2. LastUpTo(n, Rendered[n])
  BY <1>1, RenderedIsLast
<1>3. \A k \in 1 .. n : k \in DOMAIN Bounds
  BY <1>1
<1>. QED
  BY <1>2, <1>3 DEF LastUpTo

(* The metric is never corrupted: at any moment, whatever is under way or  *)
(* was cut off, a bucket exceeds a later one or the count by no more.      *)
THEOREM ScrapesAreClose == Spec => []ScrapeIsClose
<1>1. MetricsInv => ScrapeIsClose
  <2> SUFFICES ASSUME MetricsInv PROVE ScrapeIsClose
    OBVIOUS
  <2>. DEFINE rendered == [n \in DOMAIN Bounds |-> Rendered[n]]
              shown == Append(rendered, total)
              gap == UnderWay + cut
  <2>1. /\ Len(Bounds) \in Nat /\ Total = Len(Bounds) + 1
        /\ DOMAIN Bounds = 1 .. Len(Bounds)
    BY BoundsAreNumbered DEF Total
  <2>2. gap \in Nat /\ total \in Nat
    BY AddersAreUnderWay DEF MetricsInv, MetricsTypeOK
  <2>3. ASSUME NEW n \in DOMAIN Bounds
        PROVE  Rendered[n] \in Nat
    BY <2>3, RenderedIsAField, FieldsShown
  <2>4. /\ DOMAIN shown = 1 .. Total
        /\ \A n \in DOMAIN Bounds : shown[n] = Rendered[n]
        /\ shown[Total] = total
    <3>1. rendered \in Seq(Nat) /\ Len(rendered) = Len(Bounds)
      BY <2>1, <2>3
    <3>2. \A n \in 1 .. Len(Bounds) : rendered[n] = Rendered[n]
      BY <2>1
    <3>. HIDE DEF rendered
    <3>. QED
      BY <2>1, <2>2, <3>1, <3>2, AppendProperties
  <2>5. ASSUME NEW m \in DOMAIN Bounds, NEW n \in 1 .. Total, m < n
        PROVE  shown[m] - shown[n] <= gap
    <3>. HIDE DEF shown, gap
    <3>1. shown[n] \in Nat /\ shown[m] = Rendered[m]
      <4>1. n \in DOMAIN Bounds \/ n = Total
        BY <2>1
      <4>. QED
        BY <2>2, <2>3, <2>4, <4>1
    <3>2. CASE Rendered[m] = 0
      BY <2>2, <3>1, <3>2
    <3>3. CASE Rendered[m] # 0
      <4>1. PICK k \in 1 .. m : k \in DOMAIN Bounds /\ Rendered[m] = bucket[k] /\ bucket[k] # 0
        BY <3>3, RenderedIsAField
      <4>2. k \in 1 .. Total /\ Rendered[m] = Field(k) /\ Field(k) \in Nat
        BY <4>1, FieldsShown
      <4>3. \E l \in k .. Total : shown[n] = Field(l)
        <5>1. CASE n = Total
          BY <2>1, <2>4, <4>2, <5>1, AllAreCounted
        <5>2. CASE n # Total
          <6>1. n \in DOMAIN Bounds /\ k \in 1 .. n
            BY <2>1, <2>5, <4>1, <5>2
          <6>2. PICK l \in 1 .. n : /\ l \in DOMAIN Bounds /\ Rendered[n] = bucket[l]
                                    /\ \A j \in l + 1 .. n : bucket[j] = 0
            BY <4>1, <6>1, RenderedIsAField
          <6>3. k <= l
            BY <4>1, <6>1, <6>2, <2>1
          <6>4. Field(l) = bucket[l] /\ l \in k .. Total
            BY <2>1, <4>1, <6>2, <6>3, FieldsShown
          <6>. QED
            BY <2>4, <6>1, <6>2, <6>4
        <5>. QED
          BY <5>1, <5>2
      <4>4. PICK l \in k .. Total : shown[n] = Field(l)
        BY <4>3
      <4>5. l \in 1 .. Total
        BY <2>1, <4>1
      <4>6. Cardinality(Counted(k)) <= Cardinality(Counted(l))
        BY <4>2, CountsAscend
      <4>7. /\ Field(k) <= Cardinality(Counted(k))
            /\ Cardinality(Counted(l)) <= Field(l) + gap
            /\ Field(l) \in Nat
        <5>1. UnderWay \in Nat /\ cut \in Nat
          BY AddersAreUnderWay DEF MetricsInv, MetricsTypeOK
        <5>. QED
          BY <4>2, <4>5, <5>1, ShownIsClose DEF gap
      <4>8. Cardinality(Counted(k)) \in Nat /\ Cardinality(Counted(l)) \in Nat
        BY CardinalitiesAreNat DEF MetricsInv
      <4>. QED
        BY <2>2, <3>1, <4>2, <4>4, <4>6, <4>7, <4>8
    <3>. QED
      BY <3>2, <3>3
  <2>6. ASSUME NEW m \in DOMAIN shown, NEW n \in DOMAIN shown, m < n
        PROVE  shown[m] - shown[n] <= gap
    <3>1. m \in DOMAIN Bounds /\ n \in 1 .. Total
      BY <2>1, <2>4, <2>6
    <3>. QED
      BY <2>5, <2>6, <3>1
  <2>. QED
    BY <2>6 DEF ScrapeIsClose
<1>. QED
  BY <1>1, MetricsAreKept, PTL
=============================================================================
