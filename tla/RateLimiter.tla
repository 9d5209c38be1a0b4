----------------------------- MODULE RateLimiter -----------------------------
(***************************************************************************)
(* TokenBucketLimiter of core/src/rate-limit.ts: one bucket per key, made  *)
(* full at its first use, refilled by the time that has passed whenever it *)
(* is used again.  The clock is Date.now(), which an operator or NTP may   *)
(* set back at any moment.                                                 *)
(*                                                                         *)
(* The code counts tokens in floating point.  Here they are counted in     *)
(* units small enough to be whole: a tick of the clock is worth Rate       *)
(* units, a token Cost units.  Platform x of rate-limit-policy.ts (30      *)
(* tokens, one in two seconds) is Capacity = 60, Rate = 1, Cost = 2.       *)
(***************************************************************************)
EXTENDS Integers

CONSTANTS
  Keys,       \* one for each platform: `publish:<platform>'
  Capacity,   \* of a bucket
  Rate,       \* refilled by a tick of the clock; 0 is a fixed budget
  Cost,       \* of one call of tryAcquire
  MaxClock,   \* bound: the largest value of the clock
  NoBucket    \* what the map holds for a key it does not have

Buckets == [tokens : 0 .. Capacity, lastRefill : 0 .. MaxClock]

ASSUME LimiterAssumption ==
  /\ Capacity \in Nat /\ Rate \in Nat /\ Cost \in Nat /\ MaxClock \in Nat
  /\ NoBucket \notin Buckets

VARIABLES
  clock,    \* what Date.now() says
  buckets,  \* the map of the limiter
  made,     \* history: the clock when the bucket of a key was made
  high,     \* history: the latest clock since then
  spent     \* history: what was acquired since then

limiter == <<buckets, made, high, spent>>

LimiterTypeOK ==
  /\ clock \in 0 .. MaxClock
  /\ buckets \in [Keys -> Buckets \cup {NoBucket}]
  /\ made \in [Keys -> 0 .. MaxClock]
  /\ high \in [Keys -> 0 .. MaxClock]
  /\ spent \in [Keys -> Nat]

LimiterInit ==
  /\ clock = 0
  /\ buckets = [k \in Keys |-> NoBucket]
  /\ made = [k \in Keys |-> 0]
  /\ high = [k \in Keys |-> 0]
  /\ spent = [k \in Keys |-> 0]

-----------------------------------------------------------------------------
Least(a, b) == IF a <= b THEN a ELSE b
Most(a, b)  == IF a <= b THEN b ELSE a

(* mutant: the time of the last refill moves even when nothing is refilled *)
(* because the clock was set back.                                         *)
getBucket_moves(k) ==
  IF buckets[k] = NoBucket
  THEN [tokens |-> Capacity, lastRefill |-> clock]
  ELSE [tokens |-> Least(Capacity, buckets[k].tokens
                                     + Rate * Most(0, clock - buckets[k].lastRefill)),
        lastRefill |-> clock]

(* The bucket of a key as it is once it has been refilled.                 *)
getBucket(k) ==
  IF buckets[k] = NoBucket
  THEN [tokens |-> Capacity, lastRefill |-> clock]
  ELSE LET refill == Rate * Most(0, clock - buckets[k].lastRefill)
       IN  IF refill > 0
           THEN [tokens |-> Least(Capacity, buckets[k].tokens + refill), lastRefill |-> clock]
           ELSE buckets[k]

(* getBucket puts the bucket it makes, or refills, back into the map.      *)
Refilled(k) ==
  /\ buckets' = [buckets EXCEPT ![k] = getBucket(k)]
  /\ IF buckets[k] = NoBucket
     THEN /\ made'  = [made EXCEPT ![k] = clock]
          /\ high'  = [high EXCEPT ![k] = clock]
          /\ spent' = [spent EXCEPT ![k] = 0]
     ELSE UNCHANGED <<made, high, spent>>

(* tryAcquire returns false.                                               *)
Refuse(k) ==
  /\ getBucket(k).tokens < Cost
  /\ Refilled(k)

(* tryAcquire returns true.                                                *)
Acquire(k) ==
  /\ getBucket(k).tokens >= Cost
  /\ buckets' = [buckets EXCEPT ![k] = [getBucket(k) EXCEPT !.tokens = @ - Cost]]
  /\ IF buckets[k] = NoBucket
     THEN /\ made'  = [made EXCEPT ![k] = clock]
          /\ high'  = [high EXCEPT ![k] = clock]
          /\ spent' = [spent EXCEPT ![k] = Cost]
     ELSE /\ spent' = [spent EXCEPT ![k] = @ + Cost]
          /\ UNCHANGED <<made, high>>

(* getStats refills the bucket too.                                        *)
getStats(k) == Refilled(k) /\ UNCHANGED clock

(* reset(key): the next use makes a full bucket.                           *)
reset(k) ==
  /\ buckets' = [buckets EXCEPT ![k] = NoBucket]
  /\ UNCHANGED <<clock, made, high, spent>>

(* Time passes, or the clock is set: forth or back.                        *)
SetClock ==
  /\ \E t \in 0 .. MaxClock : clock' = t
  /\ high' = [k \in Keys |-> Most(high[k], clock')]
  /\ UNCHANGED <<buckets, made, spent>>

LimiterStep ==
  \/ SetClock
  \/ \E k \in Keys : getStats(k) \/ reset(k)

(* What a program that only acquires may do with the limiter.              *)
LimiterNext == LimiterStep \/ \E k \in Keys : (Acquire(k) \/ Refuse(k)) /\ UNCHANGED clock

LimiterSpec == LimiterInit /\ [][LimiterNext]_<<clock, limiter>>

-----------------------------------------------------------------------------
(* Since its bucket was made, no more was acquired for a key than a full   *)
(* bucket and what the time in between is worth, whatever became of the    *)
(* clock meanwhile.  Time that passes twice, because the clock was set     *)
(* back, is worth nothing the second time.                                 *)
AcquiredWithinRate ==
  \A k \in Keys : buckets[k] # NoBucket =>
    spent[k] <= Capacity + Rate * (high[k] - made[k])
=============================================================================
