------------------------------ MODULE RateLimit ------------------------------
(***************************************************************************)
(* enforce_rate_limit() of api/ratelimit.py, for one client whose          *)
(* submissions several API replicas receive.  A replica reads its clock,   *)
(* then counts in Redis; time passes in between.                           *)
(***************************************************************************)
EXTENDS Integers, FiniteSets

CONSTANTS
  Replica,        \* the API processes
  Limit,          \* rate_limit_per_minute
  WindowLength,   \* 60 seconds, in ticks of the clock
  KeyLife,        \* the 120 seconds of EXPIRE, in ticks
  MaxLag,         \* ticks from reading the clock to the commands in Redis
  MaxTime         \* ticks the clock takes

ASSUME LimitsAreNumbers ==
  {Limit, MaxTime, KeyLife} \subseteq Nat /\ WindowLength \in Nat \ {0}

ASSUME KeyOutlivesLag == MaxLag \in 0 .. KeyLife - WindowLength

VARIABLES
  now,          \* the clock
  counter,      \* counter[w]: the key of window w, 0 when there is none
  expires,      \* expires[w]: when Redis drops it
  asked,        \* asked[r]: when r read the clock for the request it counts
  admitted      \* admitted[w]: history, the submissions window w let through

limitVars == <<now, counter, expires, asked, admitted>>

Idle == -1

Window == 0 .. MaxTime \div WindowLength

WindowAt(t) == t \div WindowLength

LimitInit ==
  /\ now = 0
  /\ counter = [w \in Window |-> 0]
  /\ expires = [w \in Window |-> 0]
  /\ asked = [r \in Replica |-> Idle]
  /\ admitted = [w \in Window |-> 0]

(* Redis drops what has expired; no request takes longer than MaxLag.      *)
Tick ==
  /\ now < MaxTime
  /\ \A r \in Replica : asked[r] = Idle \/ now - asked[r] < MaxLag
  /\ now' = now + 1
  /\ counter' = [w \in Window |-> IF expires[w] <= now' THEN 0 ELSE counter[w]]
  /\ expires' = [w \in Window |-> IF expires[w] <= now' THEN 0 ELSE expires[w]]
  /\ UNCHANGED <<asked, admitted>>

Request(r) ==
  /\ asked[r] = Idle
  /\ asked' = [asked EXCEPT ![r] = now]
  /\ UNCHANGED <<now, counter, expires, admitted>>

(* Mutant of CountUp: the key lives as long as the window.                 *)
CountUpBriefly(w) ==
  /\ counter' = [counter EXCEPT ![w] = @ + 1]
  /\ expires' = [expires EXCEPT ![w] = now + WindowLength]

(* Mutant of CountUp: the key is not given an end.                         *)
CountUpForever(w) ==
  /\ counter' = [counter EXCEPT ![w] = @ + 1]
  /\ expires' = [expires EXCEPT ![w] = MaxTime + 1]

(* MULTI: INCR, EXPIRE                                                     *)
CountUp(w) ==
  /\ counter' = [counter EXCEPT ![w] = @ + 1]
  /\ expires' = [expires EXCEPT ![w] = now + KeyLife]

(* The submission goes on, or is answered with 429.  A counter above the   *)
(* limit is told apart by nothing, so that it stays at Limit + 1.          *)
Count(r) ==
  /\ asked[r] # Idle
  /\ LET w == WindowAt(asked[r])
     IN  /\ IF counter[w] > Limit
            THEN counter' = counter /\ expires' = [expires EXCEPT ![w] = now + KeyLife]
            ELSE CountUp(w)
         /\ admitted' = [admitted EXCEPT ![w] = IF counter'[w] > Limit THEN @ ELSE @ + 1]
  /\ asked' = [asked EXCEPT ![r] = Idle]
  /\ UNCHANGED now

LimitNext == Tick \/ \E r \in Replica : Request(r) \/ Count(r)

-----------------------------------------------------------------------------
(* Properties.                                                             *)

(* One limit for all replicas: a window lets no more than Limit through,   *)
(* also for requests that are counted after it is over.                    *)
WindowsAreLimited == \A w \in Window : admitted[w] <= Limit

(* The keys of past windows go away: those left are of the windows that a  *)
(* key's life and a request's delay can reach back to.                     *)
KeysExpire ==
  \A w \in Window : counter[w] > 0 => now < (w + 1) * WindowLength - 1 + MaxLag + KeyLife
=============================================================================
