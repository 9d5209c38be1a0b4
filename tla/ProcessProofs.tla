---------------------------- MODULE ProcessProofs ----------------------------
(***************************************************************************)
(* A process of ima and its parts, for every number of retries, platforms, *)
(* posts, variants, comments and drafts, every policy and budget, and a    *)
(* clock that jumps as it likes.                                           *)
(*                                                                         *)
(* Calls: the limiter never gives more than its policy allows; what the    *)
(* caller of the model is told is what its requests came to; and no        *)
(* platform is asked but in the mode and with the credential for it.       *)
(* Texts: the invariant says of a draft what it has to keep until it is    *)
(* handed over (each part a text, one entry for each locale, and the last  *)
(* show of it adapted from it).  Numbers: of replies the invariant says    *)
(* that copies share their status and that what waits was never sent; the  *)
(* verdicts need no more than types, and the arithmetic of fractions.      *)
(*                                                                         *)
(* The parts share no variable: the process implements each of them, and   *)
(* so what is proved of a part holds of it.  A process that publishes is   *)
(* also one that only acquires from its rate limiter: OutboundCalls        *)
(* implements RateLimiter, and inherits its bound.                         *)
(***************************************************************************)
EXTENDS Process, OperationsProofs

-----------------------------------------------------------------------------
(* The limiter.  AcquiredWithinRate speaks of the latest clock; a bucket   *)
(* only knows the time of its last refill.  The invariant below is the     *)
(* account at that time: what was spent and what is left is at most a full *)
(* bucket and what was refilled, and a refill moves the time by what it is *)
(* worth.                                                                  *)

(* The account of a bucket at its last refill.                             *)
Account(k) ==
  buckets[k] # NoBucket =>
    /\ made[k] <= buckets[k].lastRefill
    /\ buckets[k].lastRefill <= high[k]
    /\ clock <= high[k]
    /\ spent[k] + buckets[k].tokens <= Capacity + Rate * (buckets[k].lastRefill - made[k])

LimiterInv == LimiterTypeOK /\ \A k \in Keys : Account(k)

LEMMA RateIsMonotonic ==
  ASSUME NEW a \in Int, NEW b \in Int, NEW c \in Int, a <= b
  PROVE  /\ Rate * (b - c) = Rate * (a - c) + Rate * (b - a)
         /\ Rate * (b - a) \in Nat
         /\ Rate * (a - c) \in Int
<1>1. Rate \in Nat
  BY LimiterAssumption
<1>2. b - a \in Nat
  OBVIOUS
<1>3. Rate * (b - a) \in Nat
  BY <1>1, <1>2
<1>4. Rate * (b - c) = Rate * (a - c) + Rate * (b - a)
  BY <1>1
<1> QED
  BY <1>1, <1>3, <1>4

(* What getBucket makes of a bucket: at most full, and refilled by no more *)
(* than the time it moved is worth.                                        *)
LEMMA GetBucket ==
  ASSUME LimiterInv, NEW k \in Keys
  PROVE  LET b == getBucket(k) IN
         /\ b \in Buckets
         /\ buckets[k] = NoBucket => b = [tokens |-> Capacity, lastRefill |-> clock]
         /\ buckets[k] # NoBucket =>
              /\ made[k] <= b.lastRefill
              /\ b.lastRefill <= high[k]
              /\ spent[k] + b.tokens <= Capacity + Rate * (b.lastRefill - made[k])
<1> DEFINE b == getBucket(k)
           old == buckets[k]
<1>1. Capacity \in Nat /\ Rate \in Nat /\ MaxClock \in Nat /\ clock \in 0 .. MaxClock
  BY LimiterAssumption DEF LimiterInv, LimiterTypeOK
<1>2. CASE old = NoBucket
  <2>1. b = [tokens |-> Capacity, lastRefill |-> clock]
    BY <1>2 DEF getBucket
  <2> QED
    BY <2>1, <1>1, <1>2 DEF Buckets
<1>3. CASE old # NoBucket
  <2> DEFINE refill == Rate * Most(0, clock - old.lastRefill)
  <2>1. /\ old \in Buckets
        /\ old.tokens \in 0 .. Capacity /\ old.lastRefill \in 0 .. MaxClock
        /\ made[k] \in 0 .. MaxClock /\ high[k] \in 0 .. MaxClock /\ spent[k] \in Nat
    BY <1>3 DEF LimiterInv, LimiterTypeOK, Buckets
  <2>2. Account(k)
    BY DEF LimiterInv
  <2>3. CASE ~ (refill > 0)
    <3>1. b = old
      BY <1>3, <2>3 DEF getBucket
    <3> QED
      BY <3>1, <1>3, <2>1, <2>2 DEF Account
  <2>4. CASE refill > 0
    <3>1. b = [tokens |-> Least(Capacity, old.tokens + refill), lastRefill |-> clock]
      BY <1>3, <2>4 DEF getBucket
    <3>2. old.lastRefill <= clock
      <4>1. SUFFICES ASSUME clock < old.lastRefill PROVE FALSE
        BY <1>1, <2>1
      <4>2. Most(0, clock - old.lastRefill) = 0
        BY <4>1, <1>1, <2>1 DEF Most
      <4>3. refill = 0
        BY <4>2, <1>1
      <4> QED
        BY <4>3, <2>4
    <3>3. refill = Rate * (clock - old.lastRefill)
      BY <3>2, <1>1, <2>1 DEF Most
    <3>4. /\ Rate * (clock - made[k]) = Rate * (old.lastRefill - made[k]) + refill
          /\ refill \in Nat
          /\ Rate * (old.lastRefill - made[k]) \in Int
      BY <3>2, <3>3, <1>1, <2>1, RateIsMonotonic
    <3>5. /\ Least(Capacity, old.tokens + refill) \in 0 .. Capacity
          /\ Least(Capacity, old.tokens + refill) <= old.tokens + refill
      BY <3>4, <1>1, <2>1 DEF Least
    <3>6. b \in Buckets
      BY <3>1, <3>5, <1>1 DEF Buckets
    <3>7. spent[k] + b.tokens <= Capacity + Rate * (b.lastRefill - made[k])
      <4>1. b.tokens <= old.tokens + refill /\ b.tokens \in Int /\ b.lastRefill = clock
        BY <3>1, <3>5
      <4>2. spent[k] + old.tokens <= Capacity + Rate * (old.lastRefill - made[k])
        BY <2>2, <1>3 DEF Account
      <4> HIDE DEF refill, b, old
      <4>3. old.tokens \in Int
        BY <2>1
      <4> QED
        BY <4>1, <4>2, <4>3, <3>4, <1>1, <2>1
    <3>8. made[k] <= b.lastRefill /\ b.lastRefill <= high[k]
      BY <3>1, <3>2, <2>2, <1>3, <1>1, <2>1 DEF Account
    <3> QED
      BY <3>6, <3>7, <3>8, <1>3
  <2> QED
    BY <2>3, <2>4
<1> QED
  BY <1>2, <1>3

LEMMA LimiterInvInitially == LimiterInit => LimiterInv
  BY LimiterAssumption DEF LimiterInit, LimiterInv, LimiterTypeOK, Account

LEMMA RefilledKeeps ==
  ASSUME LimiterInv, NEW k \in Keys, Refilled(k), UNCHANGED clock
  PROVE  LimiterInv'
<1> DEFINE b == getBucket(k)
<1>1. Capacity \in Nat /\ Rate \in Nat /\ MaxClock \in Nat /\ NoBucket \notin Buckets
  BY LimiterAssumption
<1>2. b \in Buckets /\ buckets' = [buckets EXCEPT ![k] = b]
  BY GetBucket DEF Refilled
<1>3. LimiterTypeOK'
  BY <1>1, <1>2 DEF LimiterInv, LimiterTypeOK, Refilled
<1>4. ASSUME NEW j \in Keys PROVE Account(j)'
  <2>1. CASE j # k
    <3>1. buckets'[j] = buckets[j] /\ made'[j] = made[j] /\ high'[j] = high[j] /\ spent'[j] = spent[j]
      BY <2>1 DEF Refilled, LimiterInv, LimiterTypeOK
    <3>2. Account(j)
      BY DEF LimiterInv
    <3> QED
      BY <3>1, <3>2 DEF Account
  <2>2. CASE j = k /\ buckets[k] = NoBucket
    <3>1. b = [tokens |-> Capacity, lastRefill |-> clock]
      BY <2>2, GetBucket
    <3>2. buckets'[k] = b /\ made'[k] = clock /\ high'[k] = clock /\ spent'[k] = 0
      BY <2>2, <1>2 DEF Refilled, LimiterInv, LimiterTypeOK
    <3>3. clock \in Int
      BY DEF LimiterInv, LimiterTypeOK
    <3> QED
      BY <3>1, <3>2, <3>3, <2>2, <1>1 DEF Account
  <2>3. CASE j = k /\ buckets[k] # NoBucket
    <3>1. buckets'[k] = b /\ made' = made /\ high' = high /\ spent' = spent
      BY <2>3, <1>2 DEF Refilled, LimiterInv, LimiterTypeOK
    <3>2. Account(k)
      BY DEF LimiterInv
    <3> QED
      BY <3>1, <3>2, <2>3, GetBucket DEF Account
  <2> QED
    BY <2>1, <2>2, <2>3
<1> QED
  BY <1>3, <1>4 DEF LimiterInv

LEMMA AcquireKeeps ==
  ASSUME LimiterInv, NEW k \in Keys, Acquire(k), UNCHANGED clock
  PROVE  LimiterInv'
<1> DEFINE b == getBucket(k)
           c == [b EXCEPT !.tokens = @ - Cost]
<1>1. /\ Capacity \in Nat /\ Rate \in Nat /\ MaxClock \in Nat /\ Cost \in Nat
      /\ NoBucket \notin Buckets
  BY LimiterAssumption
<1>2. b \in Buckets /\ b.tokens >= Cost /\ buckets' = [buckets EXCEPT ![k] = c]
  BY GetBucket DEF Acquire
<1>3. c \in Buckets /\ c.tokens = b.tokens - Cost /\ c.lastRefill = b.lastRefill
  BY <1>1, <1>2 DEF Buckets
<1>4. LimiterTypeOK'
  BY <1>1, <1>2, <1>3 DEF LimiterInv, LimiterTypeOK, Acquire
<1>5. ASSUME NEW j \in Keys PROVE Account(j)'
  <2>1. CASE j # k
    <3>1. buckets'[j] = buckets[j] /\ made'[j] = made[j] /\ high'[j] = high[j] /\ spent'[j] = spent[j]
      BY <2>1 DEF Acquire, LimiterInv, LimiterTypeOK
    <3>2. Account(j)
      BY DEF LimiterInv
    <3> QED
      BY <3>1, <3>2 DEF Account
  <2>2. CASE j = k /\ buckets[k] = NoBucket
    <3>1. b = [tokens |-> Capacity, lastRefill |-> clock]
      BY <2>2, GetBucket
    <3>2. buckets'[k] = c /\ made'[k] = clock /\ high'[k] = clock /\ spent'[k] = Cost
      BY <2>2, <1>2 DEF Acquire, LimiterInv, LimiterTypeOK
    <3>3. clock \in Int
      BY DEF LimiterInv, LimiterTypeOK
    <3>4. c.tokens = Capacity - Cost /\ c.lastRefill = clock
      BY <3>1, <1>3
    <3> HIDE DEF c, b
    <3> QED
      BY <3>2, <3>3, <3>4, <2>2, <1>1 DEF Account
  <2>3. CASE j = k /\ buckets[k] # NoBucket
    <3>1. buckets'[k] = c /\ made' = made /\ high' = high /\ spent'[k] = spent[k] + Cost
      BY <2>3, <1>2 DEF Acquire, LimiterInv, LimiterTypeOK
    <3>2. Account(k)
      BY DEF LimiterInv
    <3>3. /\ made[k] <= b.lastRefill
          /\ b.lastRefill <= high[k]
          /\ spent[k] + b.tokens <= Capacity + Rate * (b.lastRefill - made[k])
      BY <2>3, GetBucket
    <3>4. spent[k] \in Nat /\ b.tokens \in Nat
      BY <1>2, <1>1 DEF LimiterInv, LimiterTypeOK, Buckets
    <3>5. spent'[k] + c.tokens = spent[k] + b.tokens
      BY <3>1, <3>4, <1>3, <1>1
    <3> HIDE DEF c, b
    <3> QED
      BY <3>1, <3>2, <3>3, <3>5, <1>3, <2>3 DEF Account
  <2> QED
    BY <2>1, <2>2, <2>3
<1> QED
  BY <1>4, <1>5 DEF LimiterInv

LEMMA LimiterStepKeeps ==
  ASSUME LimiterInv, LimiterStep
  PROVE  LimiterInv'
<1>1. CASE SetClock
  <2>1. LimiterTypeOK' /\ \A k \in Keys : high[k] <= high'[k] /\ clock' <= high'[k]
    BY <1>1, LimiterAssumption DEF SetClock, LimiterInv, LimiterTypeOK, Most
  <2>2. ASSUME NEW k \in Keys, buckets[k] # NoBucket
        PROVE  buckets[k].lastRefill <= high'[k]
    <3>1. buckets[k].lastRefill \in Int /\ high[k] \in Int /\ high'[k] \in Int
      BY <2>1, <2>2 DEF LimiterInv, LimiterTypeOK, Buckets
    <3> QED
      BY <3>1, <2>1, <2>2 DEF LimiterInv, Account
  <2> QED
    BY <1>1, <2>1, <2>2 DEF SetClock, LimiterInv, Account
<1>2. ASSUME NEW k \in Keys, getStats(k) PROVE LimiterInv'
  BY <1>2, RefilledKeeps DEF getStats
<1>3. ASSUME NEW k \in Keys, reset(k) PROVE LimiterInv'
  <2>1. LimiterTypeOK'
    BY <1>3 DEF reset, LimiterInv, LimiterTypeOK
  <2>2. ASSUME NEW j \in Keys PROVE Account(j)'
    <3>1. CASE j = k
      BY <1>3, <3>1 DEF reset, Account, LimiterInv, LimiterTypeOK
    <3>2. CASE j # k
      BY <1>3, <3>2 DEF reset, Account, LimiterInv, LimiterTypeOK
    <3> QED
      BY <3>1, <3>2
  <2> QED
    BY <2>1, <2>2 DEF LimiterInv
<1> QED
  BY <1>1, <1>2, <1>3 DEF LimiterStep

LEMMA LimiterInvStep ==
  LimiterInv /\ [LimiterNext]_<<clock, limiter>> => LimiterInv'
<1> SUFFICES ASSUME LimiterInv, [LimiterNext]_<<clock, limiter>> PROVE LimiterInv'
  OBVIOUS
<1>1. CASE LimiterStep
  BY <1>1, LimiterStepKeeps
<1>2. ASSUME NEW k \in Keys, Acquire(k), UNCHANGED clock PROVE LimiterInv'
  BY <1>2, AcquireKeeps
<1>3. ASSUME NEW k \in Keys, Refuse(k), UNCHANGED clock PROVE LimiterInv'
  BY <1>3, RefilledKeeps DEF Refuse
<1>4. CASE UNCHANGED <<clock, limiter>>
  BY <1>4 DEF limiter, LimiterInv, LimiterTypeOK, Account
<1> QED
  BY <1>1, <1>2, <1>3, <1>4 DEF LimiterNext

LEMMA AccountBalances == LimiterInv => AcquiredWithinRate
<1> SUFFICES ASSUME LimiterInv, NEW k \in Keys, buckets[k] # NoBucket
             PROVE  spent[k] <= Capacity + Rate * (high[k] - made[k])
  BY DEF AcquiredWithinRate
<1> DEFINE last == buckets[k].lastRefill
<1>1. /\ Account(k)
      /\ last \in Int /\ buckets[k].tokens \in Nat
      /\ made[k] \in Int /\ high[k] \in Int /\ spent[k] \in Nat
  BY LimiterAssumption DEF LimiterInv, LimiterTypeOK, Buckets
<1>2. last <= high[k] /\ spent[k] + buckets[k].tokens <= Capacity + Rate * (last - made[k])
  BY <1>1 DEF Account
<1>3. /\ Rate * (high[k] - made[k]) = Rate * (last - made[k]) + Rate * (high[k] - last)
      /\ Rate * (high[k] - last) \in Nat
      /\ Rate * (last - made[k]) \in Int
  BY <1>1, <1>2, RateIsMonotonic
<1> HIDE DEF last
<1> QED
  BY <1>1, <1>2, <1>3, LimiterAssumption

(* The limiter's state is well typed: no bucket is ever fuller than its    *)
(* capacity or overdrawn.                                                  *)
THEOREM LimiterTypeCorrect == LimiterSpec => []LimiterTypeOK
<1>1. LimiterInv => LimiterTypeOK
  BY DEF LimiterInv
<1> QED
  BY <1>1, LimiterInvInitially, LimiterInvStep, PTL DEF LimiterSpec

(* No more is acquired than a full bucket and what the time since it was   *)
(* made is worth, for any policy and a clock that is set at will.          *)
THEOREM LimiterHolds == LimiterSpec => []AcquiredWithinRate
  BY LimiterInvInitially, LimiterInvStep, AccountBalances, PTL DEF LimiterSpec

-----------------------------------------------------------------------------
(* The calls.  The invariant ties the attempt, the errors that were met    *)
(* and the requests that were sent together, phase by phase.               *)

(* The model client.                                                       *)
ClientInv ==
  IF command \in {"complete", "probe"}
  THEN /\ result = None <=> phase # "settled"
       /\ \A i \in 1 .. Len(errors) :
            ~ isRetryable(errors[i]) => i = Len(errors) /\ phase = "settled" /\ result # "ok"
       /\ phase = "idle" => attempt = 0 /\ Len(errors) = 0 /\ requests = 0
       /\ phase \in {"sent", "answering"} => Len(errors) = attempt /\ requests = attempt + 1
       /\ phase = "backoff" =>
            attempt < MaxRetries /\ Len(errors) = attempt + 1 /\ requests = attempt + 1
       /\ phase = "settled" =>
            /\ requests = attempt + 1
            /\ result = "ok" => Len(errors) = attempt
            /\ result # "ok" => Len(errors) = attempt + 1 /\ result = errors[Len(errors)]
            /\ isRetryable(result) => attempt = MaxRetries
  ELSE phase # "backoff"

(* The crawler has a backend left until it settles.                        *)
CrawlInv == command = "crawl" /\ phase # "settled" => chain # <<>>

TestInv ==
  command = "test" =>
    /\ phase = "idle" => requests = 0
    /\ phase \in {"sent", "answering"} => requests = 1
    /\ phase = "settled" =>
         /\ result = "auth" <=> requests = 0
         /\ result \notin {"auth", "network"} => requests = 1 /\ result = status
         /\ result # None

(* No timer guards a post, or a test.                                      *)
TimerInv == timer => command \in {"complete", "probe", "crawl"}

(* More than is asked for: in the mode `mixed' no platform is asked at all.*)
AskedOnlyIfReal ==
  \A p \in Platforms : wire[p] > 0 => p \in creds /\ (mode = "real" \/ command = "test")

CallsInv == CallsTypeOK /\ ClientInv /\ CrawlInv /\ TestInv /\ TimerInv /\ AskedOnlyIfReal

-----------------------------------------------------------------------------

LEMMA InitCallsInv == CallsInit => CallsInv
<1> SUFFICES ASSUME CallsInit PROVE CallsInv
  OBVIOUS
<1> USE CallsAssumption DEF CallsInit
<1>1. mode \in Modes /\ creds \subseteq Platforms
  BY DEF Modes
<1>2. chain \in Seq(Backends) /\ (command = "crawl" => chain # <<>>)
  <2>1. ASSUME NEW c \in Chains PROVE c \in Seq(Backends) /\ c # <<>>
    <3>1. \/ c = <<"HttpCrawler", "PlaywrightCrawler", "Crawl4aiCrawler">>
          \/ c = <<"PlaywrightCrawler", "HttpCrawler", "Crawl4aiCrawler">>
          \/ c = <<"Crawl4aiCrawler", "PlaywrightCrawler", "HttpCrawler">>
          \/ c = <<"MockCrawler">>
      BY DEF Chains
    <3>2. /\ "HttpCrawler" \in Backends /\ "PlaywrightCrawler" \in Backends
          /\ "Crawl4aiCrawler" \in Backends /\ "MockCrawler" \in Backends
      BY DEF Backends
    <3> HIDE DEF CallsInit
    <3>3. CASE c = <<"HttpCrawler", "PlaywrightCrawler", "Crawl4aiCrawler">>
      BY <3>2, <3>3
    <3>4. CASE c = <<"PlaywrightCrawler", "HttpCrawler", "Crawl4aiCrawler">>
      BY <3>2, <3>4
    <3>5. CASE c = <<"Crawl4aiCrawler", "PlaywrightCrawler", "HttpCrawler">>
      BY <3>2, <3>5
    <3>6. CASE c = <<"MockCrawler">>
      BY <3>2, <3>6
    <3> QED
      BY <3>1, <3>3, <3>4, <3>5, <3>6
  <2>2. chain \in (IF command = "crawl" THEN Chains ELSE {<<>>})
    OBVIOUS
  <2>3. <<>> \in Seq(Backends)
    OBVIOUS
  <2> QED
    BY <2>1, <2>2, <2>3
<1>3. errors \in Seq(Errors) /\ throttled \in BOOLEAN
  <2>1. throttled \in (IF command = "publish" /\ mode = "real" /\ creds = Platforms
                       THEN BOOLEAN ELSE {FALSE})
    OBVIOUS
  <2>2. errors = <<>>
    OBVIOUS
  <2> HIDE DEF CallsInit
  <2>3. <<>> \in Seq(Errors)
    OBVIOUS
  <2> QED
    BY <2>1, <2>2, <2>3
<1>4. CallsTypeOK
  <2>1. /\ phase = "idle" /\ status = "ok" /\ timer = FALSE /\ attempt = 0 /\ requests = 0
        /\ todo = {} /\ calling = None /\ rounds = 0 /\ result = None /\ command \in Commands
        /\ records = [p \in Platforms |-> None] /\ wire = [p \in Platforms |-> 0]
    OBVIOUS
  <2>2. attempt \in 0 .. MaxRetries /\ rounds \in 0 .. MaxRounds
    BY <2>1
  <2>3. /\ records \in [Platforms -> {None, "posted", "noId", "failed"}]
        /\ wire \in [Platforms -> Nat]
    BY <2>1
  <2> HIDE DEF CallsInit
  <2> QED
    BY <1>1, <1>2, <1>3, <2>1, <2>2, <2>3 DEF CallsTypeOK, Statuses
<1>5. ClientInv /\ TestInv /\ TimerInv
  BY DEF ClientInv, TestInv, TimerInv, None
<1>6. AskedOnlyIfReal
  BY DEF AskedOnlyIfReal
<1> QED
  BY <1>2, <1>4, <1>5, <1>6 DEF CallsInv, CrawlInv

-----------------------------------------------------------------------------
(* The model client                                                        *)

LEMMA CompleteKeeps == ASSUME CallsInv, Complete PROVE CallsInv'
<1> USE CallsAssumption DEF Complete, callOnce, Send
<1>1. CallsTypeOK'
  BY DEF CallsInv, CallsTypeOK, setting, posts
<1>2. ClientInv'
  BY DEF CallsInv, ClientInv, CallsTypeOK, setting
<1>3. CrawlInv' /\ TestInv' /\ TimerInv' /\ AskedOnlyIfReal'
  BY DEF CallsInv, CrawlInv, TestInv, TimerInv, AskedOnlyIfReal, setting, posts
<1> QED
  BY <1>1, <1>2, <1>3 DEF CallsInv

LEMMA RetryKeeps == ASSUME CallsInv, Retry PROVE CallsInv'
<1> USE CallsAssumption DEF Retry, callOnce, Send
<1>1. command \in {"complete", "probe"} /\ attempt < MaxRetries
  BY DEF CallsInv, ClientInv
<1>2. CallsTypeOK'
  BY <1>1 DEF CallsInv, CallsTypeOK, setting, posts
<1>3. ClientInv'
  BY <1>1 DEF CallsInv, ClientInv, CallsTypeOK, setting
<1>4. CrawlInv' /\ TestInv' /\ TimerInv' /\ AskedOnlyIfReal'
  BY <1>1 DEF CallsInv, CrawlInv, TestInv, TimerInv, AskedOnlyIfReal, setting, posts
<1> QED
  BY <1>2, <1>3, <1>4 DEF CallsInv

LEMMA AnswerKeeps == ASSUME CallsInv, Answer PROVE CallsInv'
<1>1. CallsTypeOK'
  BY DEF Answer, CallsInv, CallsTypeOK, setting, posts
<1>2. ClientInv' /\ CrawlInv' /\ TestInv' /\ TimerInv' /\ AskedOnlyIfReal'
  BY DEF Answer, CallsInv, ClientInv, CrawlInv, TestInv, TimerInv, AskedOnlyIfReal, setting, posts
<1> QED
  BY <1>1, <1>2 DEF CallsInv

LEMMA CompletedKeeps ==
  ASSUME CallsInv, NEW e \in Errors \cup {"ok"}, Completed(e) PROVE CallsInv'
<1> USE CallsAssumption
<1>1. phase \in {"sent", "answering"} /\ command \in {"complete", "probe"}
  BY DEF Completed, Ends
<1>2. errors \in Seq(Errors) /\ attempt \in 0 .. MaxRetries /\ requests \in Nat
  BY DEF CallsInv, CallsTypeOK
<1>3. /\ Len(errors) = attempt /\ requests = attempt + 1 /\ result = None
      /\ \A i \in 1 .. Len(errors) : isRetryable(errors[i])
  BY <1>1 DEF CallsInv, ClientInv
<1>4. /\ e # "ok" => /\ errors' \in Seq(Errors) /\ Len(errors') = attempt + 1
                     /\ errors'[attempt + 1] = e
                     /\ \A i \in 1 .. attempt : errors'[i] = errors[i]
      /\ e = "ok" => errors' = errors
  BY <1>2, <1>3 DEF Completed
<1>5. /\ UNCHANGED <<setting, status, requests, attempt, chain, posts>> /\ timer' = FALSE
      /\ \/ phase' = "settled" /\ result' = e
            /\ (e = "ok" \/ ~ isRetryable(e) \/ attempt = MaxRetries)
         \/ phase' = "backoff" /\ result' = result
            /\ e # "ok" /\ isRetryable(e) /\ attempt # MaxRetries
  BY DEF Completed, isLast
<1>6. CallsTypeOK'
  BY <1>1, <1>2, <1>4, <1>5 DEF CallsInv, CallsTypeOK, setting, posts
<1>7. ClientInv'
  <2>1. e # None /\ ~ isRetryable("ok")
    BY DEF Errors, None, isRetryable
  <2>2. CASE phase' = "settled" /\ result' = e
    BY <1>1, <1>2, <1>3, <1>4, <1>5, <2>1, <2>2 DEF ClientInv, setting
  <2>3. CASE phase' = "backoff" /\ result' = result
    BY <1>1, <1>2, <1>3, <1>4, <1>5, <2>1, <2>3 DEF ClientInv, setting
  <2> QED
    BY <1>5, <2>2, <2>3
<1>8. CrawlInv' /\ TestInv' /\ TimerInv' /\ AskedOnlyIfReal'
  BY <1>1, <1>5 DEF CallsInv, CrawlInv, TestInv, TimerInv, AskedOnlyIfReal, setting, posts
<1> QED
  BY <1>6, <1>7, <1>8 DEF CallsInv

-----------------------------------------------------------------------------
(* The crawler                                                             *)

LEMMA CrawlerKeeps ==
  ASSUME CallsInv, command = "crawl", phase # "settled",
         UNCHANGED <<setting, attempt, errors, posts>>,
         phase' \in {"idle", "sent", "settled"}, status' = status, requests' \in Nat,
         timer' \in BOOLEAN, timer' => phase' = "sent",
         chain' \in Seq(Backends), phase' # "settled" => chain' # <<>>,
         result' \in Errors \cup {None, "ok", "auth"}
  PROVE  CallsInv'
<1>1. CallsTypeOK'
  BY DEF CallsInv, CallsTypeOK, setting, posts
<1>2. ClientInv' /\ CrawlInv' /\ TestInv' /\ TimerInv' /\ AskedOnlyIfReal'
  BY DEF CallsInv, ClientInv, CrawlInv, TestInv, TimerInv, AskedOnlyIfReal, setting, posts
<1> QED
  BY <1>1, <1>2 DEF CallsInv

LEMMA BackendLeft ==
  ASSUME CallsInv, command = "crawl", phase # "settled"
  PROVE  /\ chain \in Seq(Backends) /\ chain # <<>>
         /\ NextBackend => /\ chain' \in Seq(Backends)
                           /\ phase' \in {"idle", "settled"}
                           /\ phase' # "settled" => chain' # <<>>
                           /\ result' \in Errors \cup {None, "ok", "auth"}
<1>1. chain \in Seq(Backends) /\ chain # <<>> /\ result \in Errors \cup {None, "ok", "auth"}
  BY DEF CallsInv, CallsTypeOK, CrawlInv
<1>2. Len(chain) \in Nat /\ Len(chain) # 0
  BY <1>1
<1>3. Tail(chain) \in Seq(Backends) /\ Len(Tail(chain)) = Len(chain) - 1
  BY <1>1
<1>4. Len(chain) # 1 => Tail(chain) # <<>>
  <2>1. Len(<<>>) = 0
    OBVIOUS
  <2>2. Tail(chain) = <<>> => Len(Tail(chain)) = Len(<<>>)
    OBVIOUS
  <2> QED
    BY <1>2, <1>3, <2>1, <2>2
<1> QED
  BY <1>1, <1>3, <1>4 DEF NextBackend, Errors

LEMMA CrawlKeeps == ASSUME CallsInv, Crawl PROVE CallsInv'
<1>1. /\ command = "crawl" /\ phase # "settled"
      /\ UNCHANGED <<setting, attempt, errors, posts>>
      /\ status' = status /\ requests' \in Nat
  BY DEF Crawl, Send, CallsInv, CallsTypeOK
<1>2. /\ timer' \in BOOLEAN /\ (timer' => phase' = "sent")
      /\ phase' \in {"idle", "sent", "settled"}
      /\ chain' \in Seq(Backends) /\ (phase' # "settled" => chain' # <<>>)
      /\ result' \in Errors \cup {None, "ok", "auth"}
  <2>1. timer \in BOOLEAN /\ ~ timer /\ result \in Errors \cup {None, "ok", "auth"}
    BY DEF Crawl, CallsInv, CallsTypeOK
  <2>2. CASE Send(TRUE) /\ UNCHANGED <<chain, result>>
    BY <1>1, <2>1, <2>2, BackendLeft DEF Send
  <2>3. CASE NextBackend /\ UNCHANGED <<status, timer, requests>>
    BY <1>1, <2>1, <2>3, BackendLeft
  <2>4. CASE phase' = "settled" /\ result' = "ok" /\ UNCHANGED <<status, timer, requests, chain>>
    BY <1>1, <2>1, <2>4, BackendLeft
  <2> QED
    BY <2>2, <2>3, <2>4 DEF Crawl
<1> QED
  BY <1>1, <1>2, CrawlerKeeps

LEMMA CrawledKeeps ==
  ASSUME CallsInv, NEW e \in Errors \cup {"ok"}, Crawled(e) PROVE CallsInv'
<1>1. /\ command = "crawl" /\ phase # "settled"
      /\ UNCHANGED <<setting, attempt, errors, posts>>
      /\ status' = status /\ requests' \in Nat /\ timer' = FALSE
  BY DEF Crawled, Ends, CallsInv, CallsTypeOK
<1>2. /\ phase' \in {"idle", "sent", "settled"}
      /\ chain' \in Seq(Backends) /\ (phase' # "settled" => chain' # <<>>)
      /\ result' \in Errors \cup {None, "ok", "auth"}
  BY <1>1, BackendLeft DEF Crawled
<1> QED
  BY <1>1, <1>2, CrawlerKeeps

-----------------------------------------------------------------------------
(* The channels                                                            *)

LEMMA RegisteredReal ==
  ASSUME NEW p \in Platforms, registered(p) = "real"
  PROVE  mode = "real"
BY DEF registered, None

(* What the channels do does not concern the client and the crawler.       *)
LEMMA ChannelsKeep ==
  ASSUME CallsInv, command \in {"publish", "postAll", "doctor"},
         UNCHANGED <<setting, attempt, errors, chain>>,
         phase' \in {"idle", "sent", "settled"}, status' \in Statuses, timer' = FALSE,
         requests' \in Nat, todo' \subseteq Platforms, calling' \in Platforms \cup {None},
         rounds' \in 0 .. MaxRounds,
         records' \in [Platforms -> {None, "posted", "noId", "failed"}],
         result' \in Errors \cup {None, "ok", "auth"},
         wire' \in [Platforms -> Nat], AskedOnlyIfReal'
  PROVE  CallsInv'
<1>1. CallsTypeOK'
  BY DEF CallsInv, CallsTypeOK, setting
<1>2. ClientInv' /\ CrawlInv' /\ TestInv' /\ TimerInv'
  BY DEF ClientInv, CrawlInv, TestInv, TimerInv, setting
<1> QED
  BY <1>1, <1>2 DEF CallsInv

LEMMA BeginPostsKeeps == ASSUME CallsInv, BeginPosts PROVE CallsInv'
<1> USE CallsAssumption
<1>1. /\ command \in {"publish", "postAll", "doctor"}
      /\ UNCHANGED <<setting, attempt, errors, chain>>
      /\ phase' \in {"idle", "sent", "settled"} /\ status' \in Statuses /\ timer' = FALSE
      /\ requests' \in Nat /\ calling' \in Platforms \cup {None}
      /\ result' \in Errors \cup {None, "ok", "auth"} /\ wire' \in [Platforms -> Nat]
  BY DEF BeginPosts, CallsInv, CallsTypeOK, request
<1>2. rounds' \in 0 .. MaxRounds
  BY DEF BeginPosts, CallsInv, CallsTypeOK
<1>3. todo' \subseteq Platforms
  BY DEF BeginPosts
<1>4. records' \in [Platforms -> {None, "posted", "noId", "failed"}]
  BY DEF BeginPosts
<1>5. AskedOnlyIfReal'
  BY DEF BeginPosts, CallsInv, AskedOnlyIfReal, setting
<1> QED
  BY <1>1, <1>2, <1>3, <1>4, <1>5, ChannelsKeep

(* A channel that answers at once, or asks.                                *)
LEMMA TakeKeeps ==
  ASSUME CallsInv, NEW p \in Platforms, command \in {"publish", "postAll", "doctor"}, Take(p),
         \/ \E outcome \in {"posted", "failed"} : AtOnce(p, outcome)
         \/ registered(p) = "real" /\ hasCredential(p) /\ Ask(p)
  PROVE  CallsInv'
<1>1. /\ UNCHANGED <<setting, attempt, errors, chain, rounds, result>>
      /\ todo' \subseteq Platforms /\ phase = "idle" /\ timer = FALSE
  BY DEF Take, CallsInv, CallsTypeOK
<1>2. rounds' \in 0 .. MaxRounds /\ result' \in Errors \cup {None, "ok", "auth"}
  BY <1>1 DEF CallsInv, CallsTypeOK
<1>3. CASE \E outcome \in {"posted", "failed"} : AtOnce(p, outcome)
  <2>1. PICK outcome \in {"posted", "failed"} : AtOnce(p, outcome)
    BY <1>3
  <2>2. /\ phase' = "idle" /\ status' \in Statuses /\ timer' = FALSE /\ requests' \in Nat
        /\ calling' \in Platforms \cup {None} /\ wire' = wire /\ wire' \in [Platforms -> Nat]
    BY <1>1, <2>1 DEF AtOnce, request, CallsInv, CallsTypeOK
  <2>3. records' \in [Platforms -> {None, "posted", "noId", "failed"}]
    BY <2>1 DEF AtOnce, Record, CallsInv, CallsTypeOK
  <2>4. AskedOnlyIfReal'
    BY <1>1, <2>2 DEF CallsInv, AskedOnlyIfReal, setting
  <2> QED
    BY <1>1, <1>2, <2>2, <2>3, <2>4, ChannelsKeep
<1>4. CASE registered(p) = "real" /\ hasCredential(p) /\ Ask(p)
  <2>1. mode = "real" /\ p \in creds
    BY <1>4, RegisteredReal DEF hasCredential
  <2>2. /\ phase' = "sent" /\ status' \in Statuses /\ timer' = FALSE /\ requests' \in Nat
        /\ calling' \in Platforms \cup {None} /\ wire' \in [Platforms -> Nat]
        /\ wire' = [wire EXCEPT ![p] = @ + 1]
        /\ records' \in [Platforms -> {None, "posted", "noId", "failed"}]
    BY <1>4 DEF Ask, Send, CallsInv, CallsTypeOK
  <2>3. AskedOnlyIfReal'
    BY <1>1, <2>1, <2>2 DEF CallsInv, CallsTypeOK, AskedOnlyIfReal, setting
  <2> QED
    BY <1>1, <1>2, <2>2, <2>3, ChannelsKeep
<1> QED
  BY <1>3, <1>4

LEMMA CallChannelCases ==
  ASSUME NEW p \in Platforms, CallChannel(p)
  PROVE  \/ \E outcome \in {"posted", "failed"} : AtOnce(p, outcome)
         \/ registered(p) = "real" /\ hasCredential(p) /\ Ask(p)
BY DEF CallChannel

LEMMA TakesKeep ==
  ASSUME CallsInv, NEW p \in Platforms, PublishOne(p) \/ PostOne(p) \/ CheckOne(p)
  PROVE  CallsInv'
<1>1. CASE PublishOne(p)
  BY <1>1, CallChannelCases, TakeKeeps DEF PublishOne
<1>2. CASE PostOne(p)
  BY <1>2, CallChannelCases, TakeKeeps DEF PostOne
<1>3. CASE CheckOne(p)
  BY <1>3, TakeKeeps DEF CheckOne
<1> QED
  BY <1>1, <1>2, <1>3

LEMMA PostedKeeps ==
  ASSUME CallsInv, NEW e \in Errors \cup {"ok"}, Posted(e) PROVE CallsInv'
<1>1. /\ command \in {"publish", "postAll", "doctor"}
      /\ UNCHANGED <<setting, attempt, errors, chain>>
      /\ phase' \in {"idle", "sent", "settled"} /\ status' \in Statuses
      /\ requests' \in Nat /\ todo' \subseteq Platforms /\ calling' \in Platforms \cup {None}
      /\ rounds' \in 0 .. MaxRounds
      /\ result' \in Errors \cup {None, "ok", "auth"} /\ wire' \in [Platforms -> Nat]
  BY DEF Posted, CallsInv, CallsTypeOK, Statuses
<1>2. timer' = FALSE /\ records' \in [Platforms -> {None, "posted", "noId", "failed"}]
  BY DEF Posted, Record, CallsInv, CallsTypeOK, TimerInv
<1>3. AskedOnlyIfReal'
  BY DEF Posted, CallsInv, AskedOnlyIfReal, setting
<1> QED
  BY <1>1, <1>2, <1>3, ChannelsKeep

LEMMA CheckedKeeps == ASSUME CallsInv, Checked PROVE CallsInv'
<1>1. /\ command \in {"publish", "postAll", "doctor"}
      /\ UNCHANGED <<setting, attempt, errors, chain>>
      /\ phase' \in {"idle", "sent", "settled"} /\ status' \in Statuses
      /\ requests' \in Nat /\ todo' \subseteq Platforms /\ calling' \in Platforms \cup {None}
      /\ rounds' \in 0 .. MaxRounds
      /\ result' \in Errors \cup {None, "ok", "auth"} /\ wire' \in [Platforms -> Nat]
  BY DEF Checked, CallsInv, CallsTypeOK, Statuses, Errors
<1>2. timer' = FALSE /\ records' \in [Platforms -> {None, "posted", "noId", "failed"}]
  BY DEF Checked, Record, CallsInv, CallsTypeOK, TimerInv
<1>3. AskedOnlyIfReal'
  BY DEF Checked, CallsInv, AskedOnlyIfReal, setting
<1> QED
  BY <1>1, <1>2, <1>3, ChannelsKeep

-----------------------------------------------------------------------------
(* The channel test                                                        *)

LEMMA TestKeeps ==
  ASSUME CallsInv, NEW p \in Platforms \cup {None}, Test(p) PROVE CallsInv'
<1>1. /\ command = "test" /\ phase = "idle" /\ timer = FALSE /\ requests = 0
      /\ UNCHANGED <<setting, attempt, errors, chain, todo, rounds>>
  BY DEF Test, CallsInv, CallsTypeOK, TestInv
<1>2. \/ p \in Platforms /\ hasCredential(p) /\ Ask(p) /\ UNCHANGED result
      \/ /\ phase' = "settled" /\ result' = "auth"
         /\ UNCHANGED <<status, timer, requests, calling, wire, records>>
  BY DEF Test
<1>3. CASE p \in Platforms /\ hasCredential(p) /\ Ask(p) /\ UNCHANGED result
  <2>1. /\ phase' = "sent" /\ timer' = FALSE /\ requests' = 1 /\ status' = status
        /\ calling' = p /\ records' = records /\ wire' = [wire EXCEPT ![p] = @ + 1]
        /\ p \in Platforms /\ p \in creds /\ result' = result
    BY <1>1, <1>3 DEF Ask, Send, hasCredential
  <2>2. wire \in [Platforms -> Nat] /\ wire' \in [Platforms -> Nat]
    BY <2>1 DEF CallsInv, CallsTypeOK
  <2>3. CallsTypeOK'
    BY <1>1, <2>1, <2>2 DEF CallsInv, CallsTypeOK, setting
  <2>4. AskedOnlyIfReal'
    BY <1>1, <2>1, <2>2 DEF CallsInv, AskedOnlyIfReal, setting
  <2>5. ClientInv' /\ CrawlInv' /\ TestInv' /\ TimerInv'
    BY <1>1, <2>1 DEF ClientInv, CrawlInv, TestInv, TimerInv, setting
  <2> QED
    BY <2>3, <2>4, <2>5 DEF CallsInv
<1>4. CASE /\ phase' = "settled" /\ result' = "auth"
           /\ UNCHANGED <<status, timer, requests, calling, wire, records>>
  <2>1. CallsTypeOK' /\ AskedOnlyIfReal'
    BY <1>1, <1>4 DEF CallsInv, CallsTypeOK, AskedOnlyIfReal, setting
  <2>2. ClientInv' /\ CrawlInv' /\ TestInv' /\ TimerInv'
    BY <1>1, <1>4 DEF ClientInv, CrawlInv, TestInv, TimerInv, setting, None
  <2> QED
    BY <2>1, <2>2 DEF CallsInv
<1> QED
  BY <1>2, <1>3, <1>4

LEMMA TestedKeeps == ASSUME CallsInv, Tested PROVE CallsInv'
<1>1. /\ command = "test" /\ phase \in {"sent", "answering"} /\ timer = FALSE /\ requests = 1
      /\ phase' = "settled" /\ (result' = "network" \/ result' = status)
      /\ UNCHANGED <<setting, status, timer, requests, attempt, errors, chain, posts>>
  BY DEF Tested, CallsInv, CallsTypeOK, TestInv, TimerInv
<1>2. status \in Statuses /\ status # None /\ status # "auth"
  BY DEF CallsInv, CallsTypeOK, Statuses, None
<1>3. CallsTypeOK' /\ AskedOnlyIfReal'
  BY <1>1, <1>2 DEF CallsInv, CallsTypeOK, AskedOnlyIfReal, setting, posts, Errors, Statuses
<1>4. ClientInv' /\ CrawlInv' /\ TestInv' /\ TimerInv'
  BY <1>1, <1>2 DEF ClientInv, CrawlInv, TestInv, TimerInv, setting, None
<1> QED
  BY <1>3, <1>4 DEF CallsInv

-----------------------------------------------------------------------------

LEMMA SameCallsKeep == ASSUME CallsInv, UNCHANGED calls PROVE CallsInv'
<1>1. CallsTypeOK' /\ AskedOnlyIfReal'
  BY DEF CallsInv, CallsTypeOK, AskedOnlyIfReal, calls, setting, request, posts
<1>2. ClientInv' /\ CrawlInv' /\ TestInv' /\ TimerInv'
  BY DEF CallsInv, ClientInv, CrawlInv, TestInv, TimerInv, calls, setting, request
<1> QED
  BY <1>1, <1>2 DEF CallsInv

LEMMA NextCallsInv ==
  CallsInv /\ [CallsNext]_<<calls, clock, limiter>> => CallsInv'
<1> SUFFICES ASSUME CallsInv, [CallsNext]_<<calls, clock, limiter>> PROVE CallsInv'
  OBVIOUS
<1>1. CASE Complete \/ Retry \/ Crawl \/ BeginPosts
  BY <1>1, CompleteKeeps, RetryKeeps, CrawlKeeps, BeginPostsKeeps
<1>2. CASE Answer \/ Checked \/ Tested
  BY <1>2, AnswerKeeps, CheckedKeeps, TestedKeeps
<1>3. ASSUME NEW e \in Errors \cup {"ok"}, Completed(e) \/ Crawled(e) \/ Posted(e)
      PROVE  CallsInv'
  BY <1>3, CompletedKeeps, CrawledKeeps, PostedKeeps
<1>4. ASSUME NEW p \in Platforms \cup {None}, Test(p) PROVE CallsInv'
  BY <1>4, TestKeeps
<1>5. ASSUME NEW p \in Platforms, PublishOne(p) \/ PostOne(p) \/ CheckOne(p) PROVE CallsInv'
  BY <1>5, TakesKeep
<1>6. CASE UNCHANGED calls
  BY <1>6, SameCallsKeep
<1> QED
  BY <1>1, <1>2, <1>3, <1>4, <1>5, <1>6 DEF CallsNext

(* The line that sums up one test counts it once.                          *)
LEMMA OneIsCountedOnce ==
  LET sum == summarizeChannelHealth(<<result>>)
  IN  sum.okCount + sum.failCount = 1 /\ sum.retryableCount <= sum.failCount
<1>1. DOMAIN <<result>> = {1} /\ <<result>>[1] = result
  OBVIOUS
<1>2. Cardinality({}) = 0 /\ Cardinality({1}) = 1
  BY FS_EmptySet, FS_Singleton
<1>3. /\ {i \in DOMAIN <<result>> : channelHealth(<<result>>[i]).ok}
           = IF result = "ok" THEN {1} ELSE {}
      /\ {i \in DOMAIN <<result>> : ~ channelHealth(<<result>>[i]).ok}
           = IF result = "ok" THEN {} ELSE {1}
      /\ {i \in DOMAIN <<result>> : channelHealth(<<result>>[i]).retryable}
           = IF result = "unavailable" THEN {1} ELSE {}
  BY <1>1 DEF channelHealth
<1> DEFINE sum == summarizeChannelHealth(<<result>>)
<1>4. /\ sum.okCount = Cardinality(IF result = "ok" THEN {1} ELSE {})
      /\ sum.failCount = Cardinality(IF result = "ok" THEN {} ELSE {1})
      /\ sum.retryableCount = Cardinality(IF result = "unavailable" THEN {1} ELSE {})
  BY <1>3 DEF summarizeChannelHealth
<1> HIDE DEF sum
<1>5. sum.okCount + sum.failCount = 1 /\ sum.retryableCount <= sum.failCount
  <2>1. CASE result = "ok"
    BY <1>2, <1>4, <2>1
  <2>2. CASE result = "unavailable"
    BY <1>2, <1>4, <2>2
  <2>3. CASE result \notin {"ok", "unavailable"}
    BY <1>2, <1>4, <2>3
  <2> QED
    BY <2>1, <2>2, <2>3
<1> QED
  BY <1>5 DEF sum

LEMMA InvAccounts == CallsInv => CallsAccounted
<1> SUFFICES ASSUME CallsInv PROVE CallsAccounted
  OBVIOUS
<1>1. LastErrorTold
  BY DEF CallsInv, CallsTypeOK, ClientInv, LastErrorTold, isRetryable
<1>2. AskedOnlyWithCredential
  BY DEF CallsInv, AskedOnlyIfReal, AskedOnlyWithCredential
<1>3. VerdictsEarned
  <2> SUFFICES ASSUME phase = "settled"
               PROVE  /\ command = "probe" =>
                           /\ probeLlm(result).retryable =>
                                /\ probeLlm(result).reachable /\ ~ probeLlm(result).ok
                                /\ isRetryable(result) /\ requests = MaxRetries + 1
                           /\ probeLlm(result).ok => requests = Len(errors) + 1
                      /\ command = "test" =>
                           LET told == channelHealth(result)
                               sum  == summarizeChannelHealth(<<result>>)
                           IN  /\ told.skippedReason = "auth" <=> requests = 0
                               /\ told.skippedReason = None => requests = 1 /\ result = status
                               /\ sum.okCount + sum.failCount = 1
                               /\ sum.retryableCount <= sum.failCount
    BY DEF VerdictsEarned
  <2>1. ASSUME command = "probe"
        PROVE  /\ probeLlm(result).retryable =>
                    /\ probeLlm(result).reachable /\ ~ probeLlm(result).ok
                    /\ isRetryable(result) /\ requests = MaxRetries + 1
               /\ probeLlm(result).ok => requests = Len(errors) + 1
    BY <1>1, <2>1 DEF LastErrorTold, probeLlm, isLlmUnavailableError, isRetryable
  <2>2. ASSUME command = "test"
        PROVE  /\ channelHealth(result).skippedReason = "auth" <=> requests = 0
               /\ channelHealth(result).skippedReason = None => requests = 1 /\ result = status
    BY <2>2 DEF CallsInv, TestInv, channelHealth, None
  <2> QED
    BY <2>1, <2>2, OneIsCountedOnce
<1> QED
  BY <1>1, <1>2, <1>3 DEF CallsAccounted

(* Every variable keeps its type, and only what has a timer arms one.      *)
THEOREM CallsTypeCorrect == CallsSpec => []CallsTypeOK
<1>1. CallsInv => CallsTypeOK
  BY DEF CallsInv
<1> QED
  BY <1>1, InitCallsInv, NextCallsInv, PTL DEF CallsSpec

(* What the caller of the model, of the probe and of the channel test is   *)
(* told is what the requests came to, and nothing is sent to a platform    *)
(* without its credential, or in a mode without real channels but for its  *)
(* test.                                                                   *)
THEOREM CallsAreAccounted == CallsSpec => []CallsAccounted
  BY InitCallsInv, NextCallsInv, InvAccounts, PTL DEF CallsSpec

-----------------------------------------------------------------------------
(* A step of the process is one of its limiter, or none.                   *)
LEMMA LimiterStepOrNone ==
  [CallsNext]_<<calls, clock, limiter>> => [LimiterNext]_<<clock, limiter>>
<1> SUFFICES ASSUME CallsNext \/ UNCHANGED <<calls, clock, limiter>>
             PROVE  LimiterNext \/ UNCHANGED <<clock, limiter>>
  OBVIOUS
<1>1. CASE Complete \/ Retry \/ Crawl \/ BeginPosts \/ Answer \/ Checked \/ Tested
  BY <1>1 DEF Complete, Retry, Crawl, BeginPosts, Answer, Checked, Tested
<1>2. ASSUME NEW e \in Errors \cup {"ok"}, Completed(e) \/ Crawled(e) \/ Posted(e)
      PROVE  UNCHANGED <<clock, limiter>>
  BY <1>2 DEF Completed, Crawled, Posted
<1>3. ASSUME NEW p \in Platforms \cup {None}, Test(p) PROVE UNCHANGED <<clock, limiter>>
  BY <1>3 DEF Test
<1>4. ASSUME NEW p \in Platforms, PostOne(p) \/ CheckOne(p) PROVE UNCHANGED <<clock, limiter>>
  BY <1>4 DEF PostOne, CheckOne, Take
<1>5. ASSUME NEW p \in Platforms, PublishOne(p) PROVE LimiterNext \/ UNCHANGED <<clock, limiter>>
  BY <1>5 DEF PublishOne, Take, LimiterNext, Platforms
<1> QED
  BY <1>1, <1>2, <1>3, <1>4, <1>5 DEF CallsNext, LimiterNext

(* A process that publishes only acquires from the limiter, and so is      *)
(* bound by it: whatever the peers do, no platform is sent more than the   *)
(* time since its bucket was made is worth.                                *)
THEOREM CallsImplementLimiter == CallsSpec => LimiterSpec
<1>1. CallsInit => LimiterInit
  BY DEF CallsInit
<1> QED
  BY <1>1, LimiterStepOrNone, PTL DEF CallsSpec, LimiterSpec

(* The bound of the limiter holds of the process.                          *)
COROLLARY CallsWithinRate == CallsSpec => []AcquiredWithinRate
  BY CallsImplementLimiter, LimiterHolds, PTL

-----------------------------------------------------------------------------
(* Texts                                                                   *)

(* What is known of a text: that it has a length.                          *)
IsText(t) == t = [of |-> t.of, len |-> t.len] /\ t.len \in Nat

LEMMA TextIs ==
  ASSUME NEW of, NEW n \in Nat
  PROVE  IsText(Text(of, n)) /\ IsText(Glue(n)) /\ Text(of, n).len = n
BY DEF Text, Glue, IsText

(* Texts are as long as their parts.                                       *)
LEMMA AppendedIs ==
  ASSUME NEW a, IsText(a), NEW b, IsText(b)
  PROVE  IsText(a ++ b) /\ (a ++ b).len = a.len + b.len
BY DEF ++, IsText

LEMMA SliceIs ==
  ASSUME NEW t, IsText(t), NEW n \in Nat
  PROVE  IsText(Slice(t, n)) /\ Slice(t, n).len = IF n < t.len THEN n ELSE t.len
<1>1. t = [of |-> t.of, len |-> t.len] /\ t.len \in Nat
  BY DEF IsText
<1>2. Slice(t, n) = [t EXCEPT !.len = IF n < t.len THEN n ELSE t.len]
  BY DEF Slice
<1>3. Slice(t, n) = [of |-> t.of, len |-> IF n < t.len THEN n ELSE t.len]
  BY <1>1, <1>2
<1> QED BY <1>1, <1>3 DEF IsText

(* What is cut fits, its dots included.                                    *)
LEMMA TruncateFits ==
  ASSUME NEW t, IsText(t), NEW max \in Nat, NEW suffix \in 0 .. max
  PROVE  IsText(truncate(t, max, suffix)) /\ truncate(t, max, suffix).len <= max
<1>1. t.len \in Nat /\ max - suffix \in Nat /\ suffix \in Nat
  BY DEF IsText
<1>2. CASE t.len <= max
  BY <1>2 DEF truncate
<1>3. CASE t.len > max
  <2>1. /\ IsText(Slice(t, max - suffix))
        /\ Slice(t, max - suffix).len = max - suffix
    BY <1>1, <1>3, SliceIs
  <2>2. IsText(Text("...", suffix)) /\ Text("...", suffix).len = suffix
    BY <1>1, TextIs DEF Text
  <2>3. truncate(t, max, suffix) = Slice(t, max - suffix) ++ Text("...", suffix)
    BY <1>1, <1>3 DEF truncate
  <2> HIDE DEF Slice, Text, IsText
  <2> QED BY <1>1, <2>1, <2>2, <2>3, AppendedIs
<1> QED BY <1>1, <1>2, <1>3

(* Tags are joined to a text, however many they are.                       *)
LEMMA JoinedIs ==
  ASSUME NEW tags \in Seq(Nat), NEW n \in Nat
  PROVE  IsText(Joined(tags, n))
<1>1. CASE tags = <<>>
  BY <1>1, TextIs DEF Joined
<1>2. CASE tags # <<>>
  <2>1. DOMAIN tags = 1 .. Len(tags) /\ Len(tags) \in Nat /\ Len(tags) > 0
    BY <1>2, EmptySeq, LenProperties
  <2>2. IsFiniteSet(DOMAIN tags)
    BY <2>1, FS_Interval
  <2>3. \A i \in DOMAIN tags : tags[i] \in Nat
    BY <2>1, ElementOfSeq
  <2>4. SumFunction(tags) \in Nat
    BY <2>2, <2>3, SumIsNat DEF SumFunction
  <2>5. n * Len(tags) \in Nat
    BY <2>1
  <2>6. SumFunction(tags) + n * Len(tags) + Len(tags) - 1 \in Nat
    BY <2>1, <2>4, <2>5
  <2> QED BY <1>2, <2>6, TextIs DEF Joined
<1> QED BY <1>1, <1>2

(* What the model writes.                                                  *)
WellWritten(d) == IsText(d.title) /\ IsText(d.body) /\ d.tags \in Seq(Nat)

(* No adapted text is longer than its platform takes.                      *)
LEMMA AdaptedFits ==
  ASSUME NEW d, WellWritten(d), NEW site \in Sites
  PROVE  IsText(adaptForPlatform(site, d)) /\ adaptForPlatform(site, d).len <= maxLength[site]
<1>1. /\ \A n \in Nat : IsText(Glue(n))
      /\ \A n \in Nat : IsText(Text("cta", n))
      /\ \A n \in Nat : IsText(Joined(d.tags, n))
  BY TextIs, JoinedIs DEF WellWritten
<1>2. \A a, b : IsText(a) /\ IsText(b) => IsText(a ++ b)
  BY AppendedIs
<1>4. IsText(d.title) /\ IsText(d.body)
  BY DEF WellWritten
<1>5. /\ IsText(truncate(d.body, 400, 0))
      /\ IsText(truncate(d.title ++ Glue(2) ++ d.body ++ Glue(2) ++ Joined(d.tags, 1), 2000, 3))
  <2>1. IsText(d.title ++ Glue(2) ++ d.body ++ Glue(2) ++ Joined(d.tags, 1))
    BY <1>1, <1>2, <1>4
  <2> HIDE DEF WellWritten
  <2> QED BY <1>4, <2>1, TruncateFits
<1>6. site \in {"x", "xiaohongshu", "weibo", "bilibili", "reddit", "youtube"}
  BY DEF Sites, maxLength
<1>7. CASE site = "x"
  <2> DEFINE t == d.body ++ Glue(2) ++ Joined(d.tags, 0)
  <2>1. IsText(t)
    BY <1>1, <1>2, <1>4, <1>5
  <2>2. maxLength[site] = 280 /\ adaptForPlatform(site, d) = truncate(t, 280, 3)
    BY <1>7 DEF adaptForPlatform, maxLength
  <2> HIDE DEF t
  <2>3. IsText(truncate(t, 280, 3)) /\ truncate(t, 280, 3).len <= 280
    BY <2>1, TruncateFits
  <2> QED BY <2>2, <2>3
<1>8. CASE site = "xiaohongshu"
  <2> DEFINE t == Glue(4) ++ d.body ++ Glue(11) ++ truncate(d.body, 400, 0)
                     ++ Glue(2) ++ Joined(d.tags, 1) ++ Glue(4)
  <2>1. IsText(t)
    BY <1>1, <1>2, <1>4, <1>5
  <2>2. maxLength[site] = 1000 /\ adaptForPlatform(site, d) = truncate(t, 1000, 0)
    BY <1>8 DEF adaptForPlatform, maxLength
  <2> HIDE DEF t
  <2>3. IsText(truncate(t, 1000, 0)) /\ truncate(t, 1000, 0).len <= 1000
    BY <2>1, TruncateFits
  <2> QED BY <2>2, <2>3
<1>9. CASE site = "weibo"
  <2> DEFINE t == truncate(d.title ++ Glue(2) ++ d.body ++ Glue(2) ++ Joined(d.tags, 1), 2000, 3)
  <2>1. IsText(t)
    BY <1>1, <1>2, <1>4, <1>5
  <2>2. maxLength[site] = 2000 /\ adaptForPlatform(site, d) = truncate(t, 2000, 3)
    BY <1>9 DEF adaptForPlatform, maxLength
  <2> HIDE DEF t
  <2>3. IsText(truncate(t, 2000, 3)) /\ truncate(t, 2000, 3).len <= 2000
    BY <2>1, TruncateFits
  <2> QED BY <2>2, <2>3
<1>10. CASE site = "bilibili"
  <2> DEFINE t == Glue(1) ++ d.title ++ Glue(9) ++ d.body ++ Glue(6) ++ Text("cta", 9)
  <2>1. IsText(t)
    BY <1>1, <1>2, <1>4, <1>5
  <2>2. maxLength[site] = 5000 /\ adaptForPlatform(site, d) = truncate(t, 5000, 0)
    BY <1>10 DEF adaptForPlatform, maxLength
  <2> HIDE DEF t
  <2>3. IsText(truncate(t, 5000, 0)) /\ truncate(t, 5000, 0).len <= 5000
    BY <2>1, TruncateFits
  <2> QED BY <2>2, <2>3
<1>11. CASE site = "reddit"
  <2> DEFINE t == d.body
  <2>1. IsText(t)
    BY <1>1, <1>2, <1>4, <1>5
  <2>2. maxLength[site] = 40000 /\ adaptForPlatform(site, d) = truncate(t, 40000, 3)
    BY <1>11 DEF adaptForPlatform, maxLength
  <2> HIDE DEF t
  <2>3. IsText(truncate(t, 40000, 3)) /\ truncate(t, 40000, 3).len <= 40000
    BY <2>1, TruncateFits
  <2> QED BY <2>2, <2>3
<1>12. CASE site = "youtube"
  <2> DEFINE t == d.body ++ Glue(2) ++ Text("cta", 28)
  <2>1. IsText(t)
    BY <1>1, <1>2, <1>4, <1>5
  <2>2. maxLength[site] = 5000 /\ adaptForPlatform(site, d) = truncate(t, 5000, 0)
    BY <1>12 DEF adaptForPlatform, maxLength
  <2> HIDE DEF t
  <2>3. IsText(truncate(t, 5000, 0)) /\ truncate(t, 5000, 0).len <= 5000
    BY <2>1, TruncateFits
  <2> QED BY <2>2, <2>3
<1> QED BY <1>6, <1>7, <1>8, <1>9, <1>10, <1>11, <1>12

(* Nor is one that is sent, for the channels that keep to it.              *)
LEMMA RequestFits ==
  ASSUME NEW d, WellWritten(d), NEW site \in Sites, site \notin {"weibo", "youtube"}
  PROVE  requestText(site, d).len <= maxLength[site]
<1> DEFINE body == adaptForPlatform(site, d)
<1>1. IsText(body) /\ body.len <= maxLength[site]
  BY AdaptedFits
<1>2. CASE site = "x"
  <2>1. IsText(d.title ++ Glue(2) ++ body ++ Glue(2) ++ Joined(d.tags, 0))
    <3>1. IsText(Glue(2)) /\ IsText(Joined(d.tags, 0)) /\ IsText(d.title)
      BY TextIs, JoinedIs DEF WellWritten
    <3> HIDE DEF body
    <3> QED BY <1>1, <3>1, AppendedIs
  <2> DEFINE whole == d.title ++ Glue(2) ++ body ++ Glue(2) ++ Joined(d.tags, 0)
  <2>2. Slice(whole, 280).len = (IF 280 < whole.len THEN 280 ELSE whole.len) /\ whole.len \in Nat
    <3> HIDE DEF body, whole
    <3>1. whole = d.title ++ Glue(2) ++ body ++ Glue(2) ++ Joined(d.tags, 0)
      BY DEF whole
    <3>2. IsText(whole)
      BY <2>1, <3>1
    <3>3. whole.len \in Nat
      BY <3>2 DEF IsText
    <3> QED BY <3>2, <3>3, SliceIs
  <2>3. requestText(site, d) = Slice(whole, 280) /\ maxLength[site] = 280
    BY <1>2 DEF requestText, maxLength
  <2> HIDE DEF whole
  <2> QED BY <2>2, <2>3
<1>3. CASE site # "x"
  <2>1. requestText(site, d) = body
    BY <1>3 DEF requestText
  <2> QED BY <1>1, <2>1
<1> QED BY <1>2, <1>3

-----------------------------------------------------------------------------
(* Translation.  Every locale is asked for once.                           *)

(* Of locales that are asked for once each, each has one entry.            *)
LEMMA OnceEach ==
  ASSUME NEW S, NEW locales \in Seq(S)
  PROVE  LET u == uniqueLocales(locales)
         IN  /\ \A i \in DOMAIN u : u[i] \in Range(locales)
             /\ \A l \in Range(locales) : \E i \in DOMAIN u : u[i] = l
             /\ \A i, j \in DOMAIN u : u[i] = u[j] => i = j
             /\ DOMAIN u \subseteq Nat
<1> DEFINE first == {i \in DOMAIN locales : \A j \in 1 .. i - 1 : locales[j] # locales[i]}
           order == {p \in first \X first : p[1] < p[2]}
           at == Sorted(first, order)
           n == Cardinality(first)
<1>1. first \subseteq 1 .. Len(locales) /\ Len(locales) \in Nat /\ DOMAIN locales = 1 .. Len(locales)
  BY LenProperties
<1>2. IsFiniteSet(first)
  <2>1. IsFiniteSet(1 .. Len(locales))
    BY <1>1, FS_Interval
  <2> HIDE DEF first
  <2> QED BY <1>1, <2>1, FS_Subset
<1>3. Orders(order, first)
  <2>1. \A i, j \in first : <<i, j>> \in order <=> i < j
    OBVIOUS
  <2>2. \A i \in first : i \in Int
    BY <1>1
  <2> HIDE DEF first, order
  <2> QED BY <2>1, <2>2 DEF Orders
<1>4. /\ n \in Nat /\ at \in [1 .. n -> first]
      /\ \A a \in first : \E i \in 1 .. n : at[i] = a
      /\ \A i, j \in 1 .. n : at[i] = at[j] => i = j
  <2> HIDE DEF first, order
  <2> QED BY <1>2, <1>3, SortedIs
<1>5. uniqueLocales(locales) = [i \in DOMAIN at |-> locales[at[i]]] /\ DOMAIN at = 1 .. n
  BY <1>4 DEF uniqueLocales
<1> DEFINE u == uniqueLocales(locales)
<1>6. DOMAIN u = 1 .. n /\ \A i \in 1 .. n : u[i] = locales[at[i]] /\ at[i] \in first
  <2> HIDE DEF at, n, first
  <2> QED BY <1>4, <1>5
<1>7. \A i \in DOMAIN u : u[i] \in Range(locales)
  <2> HIDE DEF u, at
  <2> SUFFICES ASSUME NEW i \in DOMAIN u PROVE u[i] \in Range(locales)
    OBVIOUS
  <2>1. u[i] = locales[at[i]] /\ at[i] \in DOMAIN locales
    BY <1>6
  <2> QED BY <2>1 DEF Range
<1>8. ASSUME NEW l \in Range(locales) PROVE \E i \in DOMAIN u : u[i] = l
  <2> DEFINE of == {i \in DOMAIN locales : locales[i] = l}
  <2>1. of # {} /\ of \in SUBSET Nat
    BY <1>1 DEF Range
  <2>2. PICK k \in of : \A j \in of : k <= j
    <3> HIDE DEF of
    <3> QED BY <2>1, LeastExists
  <2>3. k \in first
    <3>1. ASSUME NEW j \in 1 .. k - 1, locales[j] = locales[k] PROVE FALSE
      <4>1. j \in of /\ k \in Nat /\ ~ k <= j
        BY <1>1, <3>1, <2>2
      <4> QED BY <4>1, <2>2
    <3> QED BY <3>1
  <2>4. PICK i \in 1 .. n : at[i] = k
    BY <1>4, <2>3
  <2>5. u[i] = l /\ i \in DOMAIN u
    BY <1>6, <2>4, <2>2
  <2> QED BY <2>5
<1>9. ASSUME NEW i \in DOMAIN u, NEW j \in DOMAIN u, u[i] = u[j] PROVE i = j
  <2>1. locales[at[i]] = locales[at[j]] /\ at[i] \in first /\ at[j] \in first
    BY <1>6, <1>9
  <2> DEFINE a == at[i] b == at[j]
  <2>2. a \in 1 .. Len(locales) /\ b \in 1 .. Len(locales)
    BY <1>1, <2>1
  <2>3. ~ a < b /\ ~ b < a
    <3> HIDE DEF at
    <3>1. a < b => a \in 1 .. b - 1
      BY <2>2
    <3>2. b < a => b \in 1 .. a - 1
      BY <2>2
    <3> QED BY <2>1, <3>1, <3>2
  <2>4. a = b
    BY <2>2, <2>3
  <2> QED BY <1>4, <1>6, <2>4
<1>10. DOMAIN u \subseteq Nat
  BY <1>4, <1>6
<1> QED BY <1>7, <1>8, <1>9, <1>10

Locales == Range(Targets) \cup {source}

(* The first entry for a locale is the one that is read.                   *)
LEMMA ResolvedIs ==
  /\ \A i \in DOMAIN resolveTargets : resolveTargets[i] \in Locales
  /\ \A l \in Locales : \E i \in DOMAIN resolveTargets : resolveTargets[i] = l
  /\ \A i, j \in DOMAIN resolveTargets : resolveTargets[i] = resolveTargets[j] => i = j
  /\ DOMAIN resolveTargets \subseteq Nat
<1> DEFINE asked == Append(Targets, source)
<1>1. Targets \in Seq(Locales) /\ source \in Locales
  <2>1. Targets \in Seq(STRING)
    BY DraftsAssumption
  <2>2. Len(Targets) \in Nat /\ DOMAIN Targets = 1 .. Len(Targets)
    BY <2>1, LenProperties
  <2>3. \A i \in DOMAIN Targets : Targets[i] \in Locales
    BY DEF Locales, Range
  <2>4. Targets = [i \in 1 .. Len(Targets) |-> Targets[i]]
    BY <2>1, <2>2
  <2>5. Targets \in [1 .. Len(Targets) -> Locales]
    BY <2>2, <2>3, <2>4
  <2>6. Targets \in Seq(Locales)
    BY <2>2, <2>5, SeqDef
  <2> QED BY <2>6 DEF Locales
<1>2. /\ asked \in Seq(Locales) /\ Len(asked) = Len(Targets) + 1 /\ Len(Targets) \in Nat
      /\ \A i \in 1 .. Len(Targets) : asked[i] = Targets[i]
      /\ asked[Len(Targets) + 1] = source
      /\ DOMAIN asked = 1 .. Len(Targets) + 1 /\ DOMAIN Targets = 1 .. Len(Targets)
  <2>1. Len(Targets) \in Nat /\ DOMAIN Targets = 1 .. Len(Targets)
    BY <1>1, LenProperties
  <2> QED BY <1>1, <2>1, AppendProperties
<1>3. Range(asked) = Locales
  <2> HIDE DEF asked
  <2>1. ASSUME NEW i \in DOMAIN asked PROVE asked[i] \in Locales
    <3>1. i \in 1 .. Len(Targets) \/ i = Len(Targets) + 1
      BY <1>2
    <3> QED BY <1>2, <3>1 DEF Locales, Range
  <2>2. ASSUME NEW l \in Locales PROVE \E i \in DOMAIN asked : asked[i] = l
    <3>1. CASE l = source
      <4>1. Len(Targets) + 1 \in DOMAIN asked
        BY <1>2
      <4> QED BY <1>2, <3>1, <4>1
    <3>2. CASE l # source
      <4>1. PICK i \in DOMAIN Targets : Targets[i] = l
        BY <3>2 DEF Locales, Range
      <4>2. i \in DOMAIN asked
        BY <1>2
      <4> QED BY <1>2, <4>1, <4>2
    <3> QED BY <3>1, <3>2
  <2> QED BY <2>1, <2>2 DEF Range
<1>4. resolveTargets = uniqueLocales(asked)
  BY DEF resolveTargets
<1> HIDE DEF asked
<1> QED BY <1>2, <1>3, <1>4, OnceEach

(* What TranslationsTold says of one draft.                                *)
Told(d) ==
  /\ \A locale \in Locales :
       Cardinality({i \in DOMAIN d.translations : d.translations[i].locale = locale}) = 1
  /\ \A e \in Range(d.translations) : e.body = (IF e.locale \in d.fellBack THEN source ELSE e.locale)
  /\ \A site \in DOMAIN d.platformOverrides :
       d.platformOverrides[site] =
         (IF PLATFORM_LOCALE[site] \in Range(Targets) \ d.fellBack THEN PLATFORM_LOCALE[site] ELSE source)

(* What the entries for each locale say, whatever the model answers.       *)
LEMMA EntriesAre ==
  ASSUME NEW answers
  PROVE  LET rendered == translateContent(answers) es == rendered.entries
         IN  /\ \A l \in Locales : \E i \in DOMAIN es :
                  /\ {j \in DOMAIN es : es[j].locale = l} = {i}
                  /\ i \in Nat
                  /\ es[i].body = (IF l \in Range(Targets) \ rendered.fellBackToSource THEN l ELSE source)
             /\ \A i \in DOMAIN es : es[i].locale \in Locales
             /\ rendered.fellBackToSource \subseteq Range(Targets)
<1> DEFINE rendered == translateContent(answers)
           es == rendered.entries
           copy(locale) == [locale |-> locale, title |-> source, body |-> source]
           good(locale) == locale # source /\ answers[locale] \in {"whole", "bare"}
           entry(locale) == IF good(locale) THEN parseTranslation(answers[locale], locale) ELSE copy(locale)
<1>1. /\ rendered.fellBackToSource = {l \in Range(Targets) : ~ good(l)}
      /\ es = [i \in DOMAIN resolveTargets |-> entry(resolveTargets[i])]
  BY DEF translateContent
<1>2. \A l : entry(l).locale = l /\ entry(l).body = (IF good(l) THEN l ELSE source)
  BY DEF parseTranslation
<1> HIDE DEF entry
<1>3. \A i \in DOMAIN es : es[i].locale = resolveTargets[i] /\ es[i].body = entry(resolveTargets[i]).body
  BY <1>1, <1>2
<1>4. DOMAIN es = DOMAIN resolveTargets
  BY <1>1
<1> HIDE DEF es, rendered
<1>5. ASSUME NEW l \in Locales
      PROVE  \E i \in DOMAIN es :
               /\ {j \in DOMAIN es : es[j].locale = l} = {i}
               /\ i \in Nat
               /\ es[i].body = (IF l \in Range(Targets) \ rendered.fellBackToSource THEN l ELSE source)
  <2>1. PICK i \in DOMAIN resolveTargets : resolveTargets[i] = l
    BY ResolvedIs
  <2>2. {j \in DOMAIN es : es[j].locale = l} = {i} /\ i \in Nat
    BY <1>3, <1>4, <2>1, ResolvedIs
  <2>3. es[i].body = (IF good(l) THEN l ELSE source)
    BY <1>2, <1>3, <1>4, <2>1
  <2>4. good(l) => l \in Range(Targets) \ rendered.fellBackToSource
    BY <1>1 DEF Locales
  <2>5. ~ good(l) => l \notin Range(Targets) \ rendered.fellBackToSource
    BY <1>1
  <2>6. es[i].body = (IF l \in Range(Targets) \ rendered.fellBackToSource THEN l ELSE source)
    BY <2>3, <2>4, <2>5
  <2> QED BY <1>4, <2>1, <2>2, <2>6
<1>6. \A i \in DOMAIN es : es[i].locale \in Locales
  BY <1>3, <1>4, ResolvedIs
<1>7. rendered.fellBackToSource \subseteq Range(Targets)
  BY <1>1
<1> QED BY <1>5, <1>6, <1>7 DEF es, rendered

(* So all that is told of a draft is so.                                   *)
LEMMA DraftIsTold ==
  ASSUME NEW answers, NEW d,
         d.translations = translateContent(answers).entries,
         d.fellBack = translateContent(answers).fellBackToSource,
         d.platformOverrides = buildOverrides(d.translations),
         ideaSites \subseteq Sites
  PROVE  Told(d)
<1> DEFINE es == d.translations
           said(l) == IF l \in Range(Targets) \ d.fellBack THEN l ELSE source
<1>1. /\ \A l \in Locales : \E i \in DOMAIN es :
           {j \in DOMAIN es : es[j].locale = l} = {i} /\ i \in Nat /\ es[i].body = said(l)
      /\ \A i \in DOMAIN es : es[i].locale \in Locales
      /\ d.fellBack \subseteq Range(Targets)
  BY EntriesAre
<1> HIDE DEF es, said
<1>2. ASSUME NEW l \in Locales
      PROVE  Cardinality({i \in DOMAIN es : es[i].locale = l}) = 1
  <2>1. PICK i \in DOMAIN es : {j \in DOMAIN es : es[j].locale = l} = {i}
    BY <1>1
  <2> QED BY <2>1, FS_Singleton
<1>3. ASSUME NEW e \in Range(es)
      PROVE  e.body = (IF e.locale \in d.fellBack THEN source ELSE e.locale)
  <2>1. PICK j \in DOMAIN es : es[j] = e
    BY DEF Range
  <2>2. PICK i \in DOMAIN es : {k \in DOMAIN es : es[k].locale = e.locale} = {i} /\ es[i].body = said(e.locale)
    BY <1>1, <2>1
  <2>3. j = i /\ e.locale \in Locales
    BY <1>1, <2>1, <2>2
  <2>4. e.locale \notin Range(Targets) => e.locale = source /\ e.locale \notin d.fellBack
    BY <1>1, <2>3 DEF Locales
  <2> QED BY <2>1, <2>2, <2>3, <2>4 DEF said
<1>4. ASSUME NEW l
      PROVE  selectForLocale(es, l).body = said(l)
  <2> DEFINE of(x) == {i \in DOMAIN es : es[i].locale = x}
  <2>1. ASSUME NEW x \in Locales
        PROVE  /\ of(x) # {}
               /\ es[CHOOSE i \in of(x) : \A j \in of(x) : i <= j].body = said(x)
    <3>1. PICK i \in DOMAIN es : of(x) = {i} /\ i \in Nat /\ es[i].body = said(x)
      BY <1>1
    <3>2. (CHOOSE k \in of(x) : \A j \in of(x) : k <= j) = i
      <4> HIDE DEF of
      <4>1. i \in of(x) /\ \A j \in of(x) : i <= j
        BY <3>1
      <4> QED BY <3>1, <4>1
    <3> QED BY <3>1, <3>2
  <2>2. source \in Locales /\ said(source) = source
    BY DEF Locales, said
  <2>3. CASE l \in Locales
    <3>1. selectForLocale(es, l) = es[CHOOSE i \in of(l) : \A j \in of(l) : i <= j]
      BY <2>1, <2>3 DEF selectForLocale
    <3> QED BY <2>1, <2>3, <3>1
  <2>4. CASE l \notin Locales
    <3>1. of(l) = {}
      BY <1>1, <2>4
    <3>2. selectForLocale(es, l) = es[CHOOSE i \in of(source) : \A j \in of(source) : i <= j]
      BY <3>1 DEF selectForLocale
    <3>3. said(l) = source
      BY <2>4 DEF said, Locales
    <3> QED BY <2>1, <2>2, <3>2, <3>3
  <2> QED BY <2>3, <2>4
<1>5. ASSUME NEW site \in DOMAIN d.platformOverrides
      PROVE  d.platformOverrides[site] = said(PLATFORM_LOCALE[site])
  <2>1. d.platformOverrides = [s \in ideaSites |-> selectForLocale(es, PLATFORM_LOCALE[s]).body]
    BY DEF buildOverrides, es
  <2> QED BY <1>4, <2>1
<1> QED BY <1>2, <1>3, <1>5 DEF Told, es, said

(* The schedule.                                                           *)
Scheduled == DOMAIN picked

(* The platforms of the ideas are platforms, and finitely many.            *)
LEMMA IdeaSitesAre ==
  /\ ideaSites \subseteq Scheduled /\ Scheduled \subseteq Sites
  /\ IsFiniteSet(ideaSites)
<1>1. Scheduled = {"x", "reddit", "bilibili", "xiaohongshu", "weibo"}
  BY DEF Scheduled, picked
<1>2. \A about : pickPlatforms(about) \subseteq Scheduled
  BY <1>1 DEF pickPlatforms
<1>3. ideaSites \subseteq Scheduled
  BY <1>2 DEF ideaSites
<1>4. Scheduled \subseteq Sites
  BY <1>1 DEF Sites, maxLength
<1>5. IsFiniteSet(Scheduled)
  <2>1. Scheduled = {"x"} \cup ({"reddit"} \cup ({"bilibili"} \cup ({"xiaohongshu"} \cup {"weibo"})))
    BY <1>1
  <2> QED BY <2>1, FS_Singleton, FS_Union
<1> QED BY <1>3, <1>4, <1>5, FS_Subset

(* No two platforms share a slot.                                          *)
LEMMA OwnSlots ==
  ASSUME themes \in Seq(SUBSET {"tech", "life", "hot"})
  PROVE  \A a, b \in ideaSites : stagger[a] = stagger[b] => a = b
<1> DEFINE order == {p \in ideaSites \X ideaSites : servedBefore(p[1], p[2])}
<1>1. ASSUME NEW site \in ideaSites PROVE firstIdea(site) \in Nat
  <2> DEFINE of == {i \in DOMAIN themes : site \in pickPlatforms(themes[i])}
  <2>1. DOMAIN themes \subseteq Nat
    BY LenProperties
  <2>2. of \in SUBSET Nat /\ of # {}
    BY <2>1 DEF ideaSites
  <2>3. PICK i \in of : \A j \in of : i <= j
    <3> HIDE DEF of
    <3> QED BY <2>2, LeastExists
  <2>4. i \in DOMAIN themes /\ \A j \in 1 .. i - 1 : site \notin pickPlatforms(themes[j])
    <3>1. ASSUME NEW j \in 1 .. i - 1, site \in pickPlatforms(themes[j]) PROVE FALSE
      <4>1. i \in 1 .. Len(themes) /\ Len(themes) \in Nat /\ DOMAIN themes = 1 .. Len(themes)
        BY LenProperties
      <4>2. j \in of /\ ~ i <= j
        BY <3>1, <4>1
      <4> QED BY <2>3, <4>2
    <3> QED BY <3>1
  <2>5. firstIdea(site) \in DOMAIN themes
    BY <2>3, <2>4 DEF firstIdea
  <2> QED BY <2>1, <2>5
<1>2. \A a, b \in Scheduled : picked[a] \in Nat /\ (picked[a] = picked[b] => a = b)
  BY DEF Scheduled, picked
<1>3. Orders(order, ideaSites)
  <2>1. \A a, b \in ideaSites : <<a, b>> \in order <=> servedBefore(a, b)
    OBVIOUS
  <2> HIDE DEF order
  <2>2. \A a, b \in ideaSites : servedBefore(a, b) <=>
          \/ firstIdea(a) < firstIdea(b)
          \/ firstIdea(a) = firstIdea(b) /\ picked[a] < picked[b]
    BY DEF servedBefore
  <2>3. \A a \in ideaSites : a \in Scheduled
    BY IdeaSitesAre
  <2> DEFINE F(a) == firstIdea(a) P(a) == picked[a]
  <2>4. \A a, b \in ideaSites : F(a) \in Nat /\ P(a) \in Nat /\ (P(a) = P(b) => a = b)
    BY <1>1, <1>2, <2>3
  <2>5. \A a, b \in ideaSites : <<a, b>> \in order <=> F(a) < F(b) \/ (F(a) = F(b) /\ P(a) < P(b))
    BY <2>1, <2>2
  <2> HIDE DEF F, P
  <2>6. \A a \in ideaSites : <<a, a>> \notin order
    BY <2>4, <2>5
  <2>7. \A a, b \in ideaSites : a # b => <<a, b>> \in order \/ <<b, a>> \in order
    BY <2>4, <2>5
  <2>8. \A a, b, c \in ideaSites : <<a, b>> \in order /\ <<b, c>> \in order => <<a, c>> \in order
    BY <2>4, <2>5
  <2> QED BY <2>6, <2>7, <2>8 DEF Orders
<1>4. \A a \in ideaSites : stagger[a] = 5 * Place(a, ideaSites, order)
  BY DEF stagger, Place, Ahead
<1> HIDE DEF order
<1>5. /\ \A a \in ideaSites : Place(a, ideaSites, order) \in 0 .. Cardinality(ideaSites) - 1
      /\ \A a, b \in ideaSites : Place(a, ideaSites, order) = Place(b, ideaSites, order) => a = b
  BY <1>3, IdeaSitesAre, PlacesAre
<1>6. Cardinality(ideaSites) \in Nat
  BY IdeaSitesAre, FS_CardinalityType
<1> QED
  <2> SUFFICES ASSUME NEW a \in ideaSites, NEW b \in ideaSites, stagger[a] = stagger[b] PROVE a = b
    OBVIOUS
  <2> DEFINE m == Place(a, ideaSites, order) n == Place(b, ideaSites, order)
  <2>1. m \in Int /\ n \in Int /\ 5 * m = 5 * n
    BY <1>4, <1>5, <1>6
  <2>2. m = n
    <3> HIDE DEF m, n
    <3> QED BY <2>1
  <2> QED BY <1>5, <2>2

-----------------------------------------------------------------------------
(* The texts of one content.                                               *)

Shows(show) ==
  \/ show = <<>>
  \/ /\ show = <<show[1]>>
     /\ show[1].version \in 1 .. drafted
     /\ DOMAIN show[1].bodies = ideaSites
     /\ show[1].version = drafted => show[1].bodies = Adapted(ideaSites).bodies

DraftsInv ==
  /\ themes \in Themes
  /\ drafted \in 0 .. MaxDrafts
  /\ drafted = 0 => draft = <<>>
  /\ drafted > 0 => /\ draft = <<draft[1]>> /\ draft[1].version = drafted
                    /\ WellWritten(draft[1]) /\ Told(draft[1])
  /\ postedTo \subseteq ideaSites
  /\ Shows(preview) /\ Shows(handed)
  /\ preview # <<>> /\ handed # <<>> /\ preview[1].version = handed[1].version
       => preview[1].bodies = handed[1].bodies

LEMMA DraftsInvInitially == DraftsInit => DraftsInv
<1> SUFFICES ASSUME DraftsInit PROVE DraftsInv
  OBVIOUS
<1>1. MaxDrafts \in Nat
  BY DraftsAssumption
<1> QED BY <1>1 DEF DraftsInit, DraftsInv, Shows

(* Each action keeps the invariant.                                        *)
LEMMA WriteDraftKeeps ==
  ASSUME DraftsInv, WriteDraft
  PROVE  DraftsInv'
<1>1. PICK w \in Sizes, tags \in TagLists, answers \in Answers :
        draft' = <<[version |-> drafted', title |-> Text("title", w.title),
                    body |-> Text("body", w.body), tags |-> tags,
                    translations |-> translateContent(answers).entries,
                    fellBack |-> translateContent(answers).fellBackToSource,
                    platformOverrides |-> buildOverrides(translateContent(answers).entries)]>>
  BY DEF WriteDraft
<1>2. /\ UNCHANGED <<themes, postedTo, preview, handed>>
      /\ drafted' = drafted + 1 /\ drafted' \in 1 .. MaxDrafts /\ drafted \in Nat
  BY DraftsAssumption DEF WriteDraft, DraftsInv
<1> DEFINE d == draft'[1]
<1>3. /\ draft' = <<d>> /\ d.version = drafted'
      /\ d.title = Text("title", w.title) /\ d.body = Text("body", w.body) /\ d.tags = tags
      /\ d.translations = translateContent(answers).entries
      /\ d.fellBack = translateContent(answers).fellBackToSource
      /\ d.platformOverrides = buildOverrides(translateContent(answers).entries)
  BY <1>1
<1> HIDE DEF d
<1>4. WellWritten(d)
  <2>1. w.title \in Nat /\ w.body \in Nat /\ tags \in Seq(Nat)
    BY DraftsAssumption
  <2> QED BY <1>3, <2>1, TextIs DEF WellWritten
<1>5. Told(d)
  BY <1>3, DraftIsTold, IdeaSitesAre
<1>6. ideaSites' = ideaSites
  BY <1>2 DEF ideaSites
<1>7. Shows(preview)' /\ Shows(handed)'
  BY <1>2, <1>6 DEF Shows, DraftsInv
<1> QED BY <1>2, <1>3, <1>4, <1>5, <1>6, <1>7 DEF DraftsInv, d

(* Both find the same platforms, whether or not there are posts by then.   *)
LEMMA TargetsAre ==
  ASSUME DraftsInv
  PROVE  deriveTargets = ideaSites /\ deriveDryRunTargets = ideaSites
BY DEF DraftsInv, deriveTargets, deriveDryRunTargets

(* A show of the draft there is.                                           *)
LEMMA AdaptedShows ==
  ASSUME DraftsInv, draft # <<>>
  PROVE  /\ Shows(<<Adapted(ideaSites)>>)
         /\ Adapted(ideaSites).version = drafted
         /\ \A show : Shows(show) /\ show # <<>> /\ show[1].version = drafted
              => show[1].bodies = Adapted(ideaSites).bodies
<1>1. drafted > 0 /\ draft[1].version = drafted /\ drafted \in 1 .. drafted
  BY DraftsAssumption DEF DraftsInv
<1>2. DOMAIN Adapted(ideaSites).bodies = ideaSites /\ Adapted(ideaSites).version = drafted
  BY <1>1 DEF Adapted
<1> QED BY <1>1, <1>2 DEF Shows

LEMMA DryRunKeeps ==
  ASSUME DraftsInv, DryRun
  PROVE  DraftsInv'
<1>1. /\ draft # <<>> /\ preview' = <<Adapted(ideaSites)>>
      /\ UNCHANGED <<themes, draft, drafted, postedTo, handed>>
  BY TargetsAre DEF DryRun
<1>2. Adapted(ideaSites)' = Adapted(ideaSites) /\ ideaSites' = ideaSites
  BY <1>1 DEF Adapted, ideaSites
<1>3. Shows(preview)' /\ Shows(handed)'
  BY <1>1, <1>2, AdaptedShows DEF Shows, DraftsInv
<1>4. handed # <<>> /\ preview'[1].version = handed[1].version => preview'[1].bodies = handed[1].bodies
  BY <1>1, AdaptedShows DEF DraftsInv
<1> QED BY <1>1, <1>2, <1>3, <1>4 DEF DraftsInv

LEMMA PublishKeeps ==
  ASSUME DraftsInv, Publish
  PROVE  DraftsInv'
<1>1. /\ draft # <<>> /\ handed' = <<Adapted(ideaSites)>>
      /\ postedTo' = ideaSites \/ UNCHANGED postedTo
      /\ UNCHANGED <<themes, draft, drafted, preview>>
  BY TargetsAre DEF Publish
<1>2. Adapted(ideaSites)' = Adapted(ideaSites) /\ ideaSites' = ideaSites
  BY <1>1 DEF Adapted, ideaSites
<1>3. Shows(preview)' /\ Shows(handed)'
  BY <1>1, <1>2, AdaptedShows DEF Shows, DraftsInv
<1>4. preview # <<>> /\ preview[1].version = handed'[1].version => preview[1].bodies = handed'[1].bodies
  BY <1>1, AdaptedShows DEF DraftsInv
<1>5. postedTo' \subseteq ideaSites
  BY <1>1 DEF DraftsInv
<1> QED BY <1>1, <1>2, <1>3, <1>4, <1>5 DEF DraftsInv

LEMMA DraftsInvStep == DraftsInv /\ [DraftsNext]_texts => DraftsInv'
<1> SUFFICES ASSUME DraftsInv, [DraftsNext]_texts PROVE DraftsInv'
  OBVIOUS
<1>1. CASE UNCHANGED texts
  <2>1. UNCHANGED <<themes, draft, drafted, postedTo, preview, handed>>
    BY <1>1 DEF texts
  <2>2. Adapted(ideaSites)' = Adapted(ideaSites) /\ ideaSites' = ideaSites
    BY <2>1 DEF Adapted, ideaSites
  <2> QED BY <2>1, <2>2 DEF DraftsInv, Shows
<1> QED BY <1>1, WriteDraftKeeps, DryRunKeeps, PublishKeeps DEF DraftsNext

(* What the run checks follows from it.                                    *)
LEMMA DraftsTypes == DraftsInv => DraftsTypeOK
<1> SUFFICES ASSUME DraftsInv PROVE DraftsTypeOK
  OBVIOUS
<1>1. Len(draft) = (IF drafted = 0 THEN 0 ELSE 1)
  <2>1. CASE drafted = 0
    BY <2>1 DEF DraftsInv
  <2>2. CASE drafted > 0
    <3>1. draft = <<draft[1]>>
      BY <2>2 DEF DraftsInv
    <3>2. Len(<<draft[1]>>) = 1
      OBVIOUS
    <3> QED BY <2>2, <3>1, <3>2
  <2> QED BY <2>1, <2>2, DraftsAssumption DEF DraftsInv
<1>2. ASSUME NEW shows, Shows(shows), NEW show \in Range(shows)
      PROVE  show.version \in 1 .. drafted /\ DOMAIN show.bodies \subseteq Sites
  <2>1. shows = <<shows[1]>> /\ show = shows[1]
    BY <1>2 DEF Shows, Range
  <2> QED BY <1>2, <2>1, IdeaSitesAre DEF Shows
<1>3. Shows(preview) /\ Shows(handed) /\ postedTo \subseteq Sites
  BY IdeaSitesAre DEF DraftsInv
<1> QED BY <1>1, <1>2, <1>3 DEF DraftsInv, DraftsTypeOK

(* There is one draft at most.                                             *)
LEMMA DraftOf ==
  ASSUME DraftsInv, NEW d \in Range(draft)
  PROVE  WellWritten(d) /\ Told(d)
<1>1. drafted > 0
  BY DraftsAssumption DEF DraftsInv, Range
<1>2. draft = <<draft[1]>> /\ WellWritten(draft[1]) /\ Told(draft[1])
  BY <1>1 DEF DraftsInv
<1>3. d = draft[1]
  BY <1>2 DEF Range
<1> QED BY <1>2, <1>3

LEMMA TextsArePrepared == DraftsInv => TextsAsPrepared
<1> SUFFICES ASSUME DraftsInv PROVE TextsAsPrepared
  OBVIOUS
<1>1. TextsFit
  BY DraftOf, AdaptedFits, RequestFits DEF TextsFit
<1>2. TranslationsTold
  BY DraftOf DEF TranslationsTold, Told, Locales
<1>3. ASSUME NEW shown \in Range(preview), NEW posted \in Range(handed)
      PROVE  /\ shown.version = posted.version => shown.bodies = posted.bodies
             /\ DOMAIN posted.bodies = ideaSites
  <2>1. preview # <<>> /\ preview = <<preview[1]>> /\ handed # <<>> /\ handed = <<handed[1]>>
    BY DEF DraftsInv, Shows, Range
  <2>2. shown = preview[1] /\ posted = handed[1]
    BY <2>1 DEF Range
  <2> QED BY <2>1, <2>2 DEF DraftsInv, Shows
<1>4. themes \in Seq(SUBSET {"tech", "life", "hot"})
  BY DraftsAssumption DEF DraftsInv
<1>5. DOMAIN stagger = ideaSites
  BY DEF stagger
<1>6. PreviewedAsPosted
  BY <1>3, <1>4, <1>5, OwnSlots DEF PreviewedAsPosted
<1> QED BY <1>1, <1>2, <1>6 DEF TextsAsPrepared

-----------------------------------------------------------------------------
(* Numbers                                                                 *)

(* Fractions: a / p against b / q by their products.                       *)
LEMMA Cancel ==
  ASSUME NEW x \in Int, NEW y \in Int, NEW q \in Nat \ {0}
  PROVE  (q * x >= q * y => x >= y) /\ (q * x > q * y => x > y)
<1>1. ASSUME x < y PROVE q * x < q * y
  <2>1. q * (y - x) > 0
    BY <1>1
  <2>2. q * (y - x) = q * y - q * x
    OBVIOUS
  <2>3. q * y \in Int /\ q * x \in Int
    OBVIOUS
  <2> QED BY <2>1, <2>2, <2>3
<1>2. q * x \in Int /\ q * y \in Int /\ (x = y => q * x = q * y)
  OBVIOUS
<1> QED BY <1>1, <1>2

(* Inequalities are multiplied, and chained across three denominators.     *)
LEMMA Scale ==
  ASSUME NEW x \in Int, NEW y \in Int, NEW q \in Nat, x >= y
  PROVE  q * x >= q * y /\ (x > y /\ q > 0 => q * x > q * y)
<1>1. q * (x - y) >= 0 /\ (x > y /\ q > 0 => q * (x - y) > 0)
  OBVIOUS
<1>2. q * (x - y) = q * x - q * y
  OBVIOUS
<1>3. q * y \in Int /\ q * x \in Int
  OBVIOUS
<1> QED BY <1>1, <1>2, <1>3

LEMMA Cross ==
  ASSUME NEW a \in Nat, NEW b \in Nat, NEW c \in Nat,
         NEW p \in Nat \ {0}, NEW q \in Nat \ {0}, NEW r \in Nat \ {0},
         a * q >= b * p, b * r >= c * q
  PROVE  a * r >= c * p /\ (a * q > b * p \/ b * r > c * q => a * r > c * p)
<1>1. /\ a * q \in Int /\ b * p \in Int /\ b * r \in Int /\ c * q \in Int
      /\ a * r \in Int /\ c * p \in Int
  OBVIOUS
<1>2. r * (a * q) >= r * (b * p) /\ (a * q > b * p => r * (a * q) > r * (b * p))
  BY <1>1, Scale
<1>3. p * (b * r) >= p * (c * q) /\ (b * r > c * q => p * (b * r) > p * (c * q))
  BY <1>1, Scale
<1>4. r * (a * q) = q * (a * r) /\ r * (b * p) = p * (b * r) /\ p * (c * q) = q * (c * p)
  OBVIOUS
<1>5. q * (a * r) \in Int /\ q * (c * p) \in Int /\ p * (b * r) \in Int
  OBVIOUS
<1>6. q * (a * r) >= q * (c * p) /\ (a * q > b * p \/ b * r > c * q => q * (a * r) > q * (c * p))
  BY <1>2, <1>3, <1>4, <1>5
<1> QED BY <1>1, <1>6, Cancel

-----------------------------------------------------------------------------
(* What was measured.                                                      *)

MeasuredInv ==
  /\ measured \in [Posts -> [count : Nat, score : Nat, views : Nat, heat : Nat]]
  /\ fetches \in 0 .. MaxFetches
  /\ \A p \in Posts : measured[p].count <= fetches

(* Counts only grow with the fetches.                                      *)
LEMMA FetchAllKeeps ==
  ASSUME MeasuredInv, FetchAll
  PROVE  MeasuredInv'
<1>0. PICK reached \in SUBSET Posts : \E m \in [reached -> Metrics] :
        measured' = [p \in Posts |->
          IF p \notin reached THEN measured[p]
          ELSE [count |-> measured[p].count + 1,
                score |-> measured[p].score + scoreForMetric(m[p]),
                views |-> measured[p].views + m[p].views,
                heat |-> measured[p].heat + m[p].heat]]
  BY DEF FetchAll
<1>1. PICK m \in [reached -> Metrics] :
        measured' = [p \in Posts |->
          IF p \notin reached THEN measured[p]
          ELSE [count |-> measured[p].count + 1,
                score |-> measured[p].score + scoreForMetric(m[p]),
                views |-> measured[p].views + m[p].views,
                heat |-> measured[p].heat + m[p].heat]]
  BY <1>0
<1>2. fetches' = fetches + 1 /\ fetches \in Nat /\ fetches' \in 0 .. MaxFetches
  BY GrowthAssumption DEF FetchAll, MeasuredInv
<1>3. ASSUME NEW p \in Posts
      PROVE  /\ measured'[p] \in [count : Nat, score : Nat, views : Nat, heat : Nat]
             /\ measured'[p].count <= fetches'
  <2>1. measured[p] \in [count : Nat, score : Nat, views : Nat, heat : Nat] /\ measured[p].count <= fetches
    BY DEF MeasuredInv
  <2>2. CASE p \notin reached
    BY <1>1, <1>2, <2>1, <2>2
  <2>3. CASE p \in reached
    <3>1. m[p] \in [likes : Nat, comments : Nat, shares : Nat, views : Nat, heat : Nat]
      BY <2>3, GrowthAssumption
    <3>2. scoreForMetric(m[p]) \in Nat
      BY <3>1 DEF scoreForMetric
    <3>3. measured'[p] = [count |-> measured[p].count + 1,
                          score |-> measured[p].score + scoreForMetric(m[p]),
                          views |-> measured[p].views + m[p].views,
                          heat |-> measured[p].heat + m[p].heat]
      BY <1>1, <2>3
    <3> QED BY <1>2, <2>1, <3>1, <3>2, <3>3
  <2> QED BY <2>2, <2>3
<1>4. measured' = [p \in Posts |-> measured'[p]]
  BY <1>1
<1> QED BY <1>2, <1>3, <1>4 DEF MeasuredInv

-----------------------------------------------------------------------------
(* What a history adds to the score of an idea, and what that moves.       *)

(* An adjusted score is at least the score, and at most 1.3 of it.         *)
LEMMA AdjustedIs ==
  ASSUME MeasuredInv, NEW i \in Ideas
  PROVE  LET a == adjusted(i) s == i.score
         IN  /\ a.num \in Nat /\ a.den \in Nat \ {0} /\ s \in Nat
             /\ a.num >= (10000 * s) * a.den
             /\ a.num <= (13000 * s) * a.den
             /\ performanceByAngle(i).count = 0 => a.num = 10000 * s /\ a.den = 1
             /\ performanceByAngle(i).count \in Nat
<1> DEFINE s == i.score
           c == performanceByAngle(i).count
           h == performanceByAngle(i).heat
           heat == IF h > 1000 * c THEN 1000 * c ELSE h
           num == s * (10000 * c + 3 * heat)
<1>1. s \in 0 .. 1000
  <2>1. i \in [id : Nat, variant : 0 .. VariantCount, score : 0 .. 1000]
    BY GrowthAssumption
  <2> QED BY <2>1
<1>2. c \in Nat /\ h \in Nat
  BY SMT DEF performanceByAngle, MeasuredInv
<1>3. /\ c = 0 => adjusted(i) = [num |-> 10000 * s, den |-> 1]
      /\ c > 0 /\ num <= 10000000 * c => adjusted(i) = [num |-> num, den |-> c]
      /\ c > 0 /\ ~ num <= 10000000 * c => adjusted(i) = [num |-> 10000000, den |-> 1]
  <2>1. c = 0 => ~ c > 0
    BY <1>2, SMT
  <2>2. adjusted(i) = CASE c = 0 -> [num |-> 10000 * s, den |-> 1]
                        [] c > 0 /\ num <= 10000000 * c -> [num |-> num, den |-> c]
                        [] OTHER -> [num |-> 10000000, den |-> 1]
    BY SMT DEF adjusted
  <2> HIDE DEF s, c, num
  <2> QED BY <2>1, <2>2, <1>2, SMT
<1>4. heat \in Nat /\ heat <= 1000 * c
  BY <1>2, SMT
<1> HIDE DEF s, c, h, heat
<1>5. num \in Nat /\ num >= (10000 * s) * c /\ num <= (13000 * s) * c
  <2>1. /\ 10000 * c + 3 * heat \in Nat /\ 10000 * c + 3 * heat >= 10000 * c
        /\ 10000 * c + 3 * heat <= 13000 * c
    BY <1>2, <1>4, SMT
  <2> DEFINE t == 10000 * c + 3 * heat
  <2>2. s \in Nat /\ 10000 * c \in Int /\ 13000 * c \in Int
    BY <1>1, <1>2, SMT
  <2>3. s * t >= s * (10000 * c) /\ s * (13000 * c) >= s * t /\ s * t \in Nat
    <3> HIDE DEF t
    <3>1. t \in Nat /\ t >= 10000 * c /\ 13000 * c >= t
      BY <2>1, <2>2, SMT DEF t
    <3> QED BY <2>2, <3>1, Scale, SMT
  <2>4. s * (10000 * c) = (10000 * s) * c /\ s * (13000 * c) = (13000 * s) * c
    BY <1>2, <2>2, SMT
  <2> QED BY <2>3, <2>4, SMT
<1>6. CASE c = 0
  <2> HIDE DEF num
  <2>1. adjusted(i) = [num |-> 10000 * s, den |-> 1] /\ c = 0 /\ s \in Nat
    BY <1>1, <1>3, <1>6, SMT
  <2>2. 10000 * s \in Nat /\ (10000 * s) * 1 = 10000 * s /\ (13000 * s) * 1 >= 10000 * s
    BY <2>1, SMT
  <2> QED BY <1>2, <2>1, <2>2, SMT DEF c, s
<1>7. CASE c > 0 /\ num <= 10000000 * c
  <2> HIDE DEF num
  <2> QED BY <1>1, <1>2, <1>3, <1>5, <1>7, SMT DEF c, s
<1>8. CASE c > 0 /\ ~ num <= 10000000 * c
  <2> HIDE DEF num
  <2>1. (13000 * s) * c > 10000000 * c /\ 13000 * s \in Int
    BY <1>1, <1>2, <1>5, <1>8, SMT
  <2>2. c * (13000 * s) > c * 10000000
    <3>1. c * (13000 * s) = (13000 * s) * c /\ c * 10000000 = 10000000 * c
      BY <1>1, <1>2, SMT
    <3> QED BY <2>1, <3>1, SMT
  <2>3. 13000 * s > 10000000
    BY <1>2, <1>8, <2>1, <2>2, Cancel, SMT
  <2> QED BY <1>1, <1>2, <1>3, <1>8, <2>3, SMT DEF c, s
<1> QED BY <1>2, <1>6, <1>7, <1>8, SMT DEF c, s

(* So a history moves an idea past none that is much better.               *)
LEMMA HistoryMoves == MeasuredInv => HistoryMovesLittle
<1> SUFFICES ASSUME MeasuredInv, NEW i \in Ideas, NEW j \in Ideas, rankedBefore(i, j)
             PROVE  \/ i.score > j.score
                    \/ i.score = j.score /\ i.id < j.id
                    \/ performanceByAngle(i).count > 0 /\ 10 * j.score <= 13 * i.score
  BY SMT DEF HistoryMovesLittle
<1> DEFINE a == adjusted(i) b == adjusted(j) s == i.score t == j.score
           n == a.num d == a.den m == b.num e == b.den
<1>1. /\ n \in Nat /\ d \in Nat \ {0} /\ m \in Nat /\ e \in Nat \ {0} /\ s \in Nat /\ t \in Nat
      /\ m >= (10000 * t) * e /\ n <= (13000 * s) * d
      /\ performanceByAngle(i).count = 0 => n = 10000 * s /\ d = 1
      /\ performanceByAngle(i).count \in Nat
  BY AdjustedIs, SMT
<1>2. n * e > m * d \/ (n * e = m * d /\ i.id < j.id)
  BY SMT DEF rankedBefore
<1> HIDE DEF n, d, m, e, s, t
<1>3. n * e \in Int /\ m * d \in Int /\ (10000 * t) * e \in Int
  BY <1>1, SMT
<1>4. CASE performanceByAngle(i).count = 0
  <2>1. n = 10000 * s /\ m * d = m
    BY <1>1, <1>4, SMT
  <2>2. n * e = (10000 * s) * e /\ (10000 * s) * e = e * (10000 * s) /\ (10000 * t) * e = e * (10000 * t)
    BY <1>1, <2>1, SMT
  <2>3. e * (10000 * s) >= e * (10000 * t) /\ (s = t => n * e <= m * d)
    BY <1>1, <1>2, <1>3, <2>1, <2>2, SMT
  <2>4. 10000 * s >= 10000 * t
    BY <1>1, <2>3, Cancel, SMT
  <2>5. s > t \/ s = t
    BY <1>1, <2>4, SMT
  <2> QED BY <1>2, <1>3, <2>3, <2>5, SMT DEF s, t
<1>5. CASE performanceByAngle(i).count > 0
  <2>1. (13000 * s) * d >= n * 1 /\ 13000 * s \in Nat
    BY <1>1, SMT
  <2>2. n * e >= m * d
    BY <1>2, <1>3, SMT
  <2>3. (13000 * s) * e >= m * 1
    <3> DEFINE u == 13000 * s
    <3>1. u \in Nat /\ u * d >= n * 1 /\ 1 \in Nat \ {0}
      BY <2>1, SMT
    <3> HIDE DEF u
    <3>2. u * e >= m * 1
      BY <1>1, <2>2, <3>1, Cross, SMT
    <3> QED BY <3>2, SMT DEF u
  <2>4. e * (13000 * s) >= e * (10000 * t)
    <3>1. (13000 * s) * e = e * (13000 * s) /\ (10000 * t) * e = e * (10000 * t) /\ m * 1 = m
      BY <1>1, SMT
    <3>2. e * (13000 * s) \in Int /\ e * (10000 * t) \in Int
      BY <1>1, SMT
    <3> QED BY <1>1, <2>3, <3>1, <3>2, SMT
  <2>5. 13000 * s >= 10000 * t
    BY <1>1, <2>4, Cancel, SMT
  <2> QED BY <1>1, <1>5, <2>5, SMT DEF s, t
<1> QED BY <1>1, <1>4, <1>5, SMT

-----------------------------------------------------------------------------
(* The verdict.                                                            *)

Summary(s) ==
  \A v \in Variants : s[v].count \in Nat /\ s[v].score \in Nat /\ s[v].views \in Nat

(* Of each variant, sums of natural numbers.                               *)
LEMMA AggregateIs == MeasuredInv => Summary(aggregateByVariant)
<1> SUFFICES ASSUME MeasuredInv, NEW v \in Variants
             PROVE  LET s == aggregateByVariant
                    IN  s[v].count \in Nat /\ s[v].score \in Nat /\ s[v].views \in Nat
  BY DEF Summary
<1> DEFINE own == {p \in Posts : assignVariantTags[p] = v}
           counts == [p \in Posts |-> measured[p].count]
           score == [p \in Posts |-> measured[p].score]
           views == [p \in Posts |-> measured[p].views]
<1>1. IsFiniteSet(own)
  <2>1. IsFiniteSet(Posts)
    BY GrowthAssumption, FS_Interval DEF Posts
  <2> QED BY <2>1, FS_Subset
<1>2. \A p \in own : counts[p] \in Nat /\ score[p] \in Nat /\ views[p] \in Nat
  BY DEF MeasuredInv
<1>3. aggregateByVariant[v] = [count |-> SumFunctionOnSet(counts, own),
                               score |-> SumFunctionOnSet(score, own),
                               views |-> SumFunctionOnSet(views, own)]
  BY DEF aggregateByVariant
<1> HIDE DEF own, counts, score, views
<1>4. /\ SumFunctionOnSet(counts, own) \in Nat /\ SumFunctionOnSet(score, own) \in Nat
      /\ SumFunctionOnSet(views, own) \in Nat
  BY <1>1, <1>2, SumIsNat
<1> QED BY <1>3, <1>4

(* Both sorts are by strict orders: the second as no count is zero.        *)
LEMMA ScoreOrders ==
  ASSUME NEW s, Summary(s), NEW S \in SUBSET Variants
  PROVE  Orders(byScore(s), S)
<1> DEFINE f(v) == s[v].score
<1>1. \A v \in S : f(v) \in Nat /\ v \in Int
  BY GrowthAssumption DEF Summary, Variants
<1>2. \A v, w \in S : <<v, w>> \in byScore(s) <=> f(v) > f(w) \/ (f(v) = f(w) /\ v < w)
  BY DEF byScore, moreScore
<1> HIDE DEF f
<1> QED BY <1>1, <1>2 DEF Orders

LEMMA RateOrders ==
  ASSUME NEW s, Summary(s), NEW S \in SUBSET Variants, \A v \in S : s[v].count > 0
  PROVE  Orders(byRate(s), S)
<1> DEFINE f(v) == s[v].score
           c(v) == s[v].count
           more(v, w) == f(v) > f(w) \/ (f(v) = f(w) /\ v < w)
<1>1. \A v \in S : f(v) \in Nat /\ c(v) \in Nat \ {0} /\ v \in Int
  BY GrowthAssumption DEF Summary, Variants
<1>2. \A v, w \in S : <<v, w>> \in byRate(s)
        <=> f(v) * c(w) > f(w) * c(v) \/ (f(v) * c(w) = f(w) * c(v) /\ more(v, w))
  BY DEF byRate, moreRate, moreScore
<1> HIDE DEF f, c
<1>3. \A v, w \in S : f(v) * c(w) \in Nat
  BY <1>1
<1>4. \A v \in S : <<v, v>> \notin byRate(s)
  BY <1>1, <1>2, <1>3
<1>5. \A v, w \in S : v # w => <<v, w>> \in byRate(s) \/ <<w, v>> \in byRate(s)
  BY <1>1, <1>2, <1>3
<1>6. ASSUME NEW u \in S, NEW v \in S, NEW w \in S,
             <<u, v>> \in byRate(s), <<v, w>> \in byRate(s)
      PROVE  <<u, w>> \in byRate(s)
  <2>1. f(u) * c(v) >= f(v) * c(u) /\ f(v) * c(w) >= f(w) * c(v)
    BY <1>2, <1>3, <1>6
  <2>2. /\ f(u) * c(w) >= f(w) * c(u)
        /\ f(u) * c(v) > f(v) * c(u) \/ f(v) * c(w) > f(w) * c(v) => f(u) * c(w) > f(w) * c(u)
    BY <1>1, <2>1, Cross
  <2>3. CASE f(u) * c(w) > f(w) * c(u)
    BY <1>2, <2>3
  <2>4. CASE ~ f(u) * c(w) > f(w) * c(u)
    <3>1. more(u, v) /\ more(v, w) /\ f(u) * c(w) = f(w) * c(u)
      BY <1>2, <1>3, <1>6, <2>2, <2>4
    <3>2. more(u, w)
      BY <1>1, <3>1
    <3> QED BY <1>2, <3>1, <3>2
  <2> QED BY <2>3, <2>4
<1> QED BY <1>4, <1>5, <1>6 DEF Orders

(* Where two variants or more are sampled enough, the first is one of them,*)
(* and how far it leads can be told.                                       *)
LEMMA VerdictIs ==
  ASSUME NEW s, Summary(s)
  PROVE  LET e == evaluateAbSignificance(s)
             eligible == sampled(s, MinSampleSize)
         IN  e.winner # NoWinner =>
               /\ e.winner \in eligible
               /\ Cardinality(eligible) >= 2
               /\ e.winner = Sorted(eligible, byRate(s))[1]
               /\ e.num \in Int /\ e.den \in Nat \ {0}
<1> DEFINE eligible == sampled(s, MinSampleSize)
           sorted == Sorted(eligible, byRate(s))
           n == Cardinality(eligible)
           first == lead(s, sorted[1], sorted[2])
<1>1. eligible \in SUBSET Variants /\ \A v \in eligible : s[v].count > 0
  BY GrowthAssumption DEF sampled, Summary
<1>2. IsFiniteSet(eligible)
  <2>1. IsFiniteSet(Variants)
    BY GrowthAssumption, FS_Interval DEF Variants
  <2> QED BY <1>1, <2>1, FS_Subset
<1>3. n \in Nat /\ sorted \in [1 .. n -> eligible]
  <2> HIDE DEF eligible
  <2> QED BY <1>1, <1>2, RateOrders, SortedIs
<1>4. Len(sorted) = n
  <2> HIDE DEF sorted, n
  <2> QED BY <1>3, LenProperties, SeqDef
<1>5. SUFFICES ASSUME n >= 2, evaluateAbSignificance(s)
                        = [winner |-> first.winner, num |-> first.num, den |-> first.den]
               PROVE  LET e == evaluateAbSignificance(s)
                      IN  /\ e.winner \in eligible /\ e.winner = sorted[1]
                          /\ e.num \in Int /\ e.den \in Nat \ {0}
  <2> HIDE DEF first, sorted, eligible, n
  <2>1. \/ n >= 2 /\ evaluateAbSignificance(s) = [winner |-> first.winner, num |-> first.num, den |-> first.den]
        \/ evaluateAbSignificance(s) = NoVerdict
    BY <1>4 DEF evaluateAbSignificance, first, sorted, eligible
  <2> QED BY <1>5, <2>1 DEF NoVerdict, eligible, sorted, n
<1> DEFINE top == sorted[1] next == sorted[2]
<1>6. top \in eligible /\ next \in eligible
  <2> HIDE DEF sorted, n
  <2> QED BY <1>3, <1>5
<1>7. /\ s[top].count \in Nat \ {0} /\ s[next].count \in Nat \ {0}
      /\ s[top].score \in Nat /\ s[next].score \in Nat
  <2> HIDE DEF top, next, eligible
  <2> QED BY <1>1, <1>6 DEF Summary
<1>8. /\ first.winner = top
      /\ first.num = 100 * (s[top].score * s[next].count - s[next].score * s[top].count)
      /\ first.den = s[top].count * atLeast(s[next].score, 20 * s[next].count)
  BY DEF lead
<1> HIDE DEF first, top, next, eligible
<1>9. first.num \in Int
  BY <1>7, <1>8
<1>10. first.den \in Nat \ {0}
  <2>1. atLeast(s[next].score, 20 * s[next].count) \in Nat \ {0}
    BY <1>7 DEF atLeast
  <2> DEFINE x == atLeast(s[next].score, 20 * s[next].count) y == s[top].count
  <2>2. x \in Nat \ {0} /\ y \in Nat \ {0} /\ first.den = y * x
    BY <1>7, <1>8, <2>1
  <2> HIDE DEF x, y
  <2>3. y * x > 0 /\ y * x \in Nat
    BY <2>2
  <2> QED BY <2>2, <2>3
<1> QED BY <1>5, <1>6, <1>8, <1>9, <1>10 DEF top

-----------------------------------------------------------------------------
(* The weights.                                                            *)

WeightsInv ==
  /\ decisions \in 0 .. MaxDecisions
  /\ DOMAIN weights \subseteq Variants
  /\ \A v \in DOMAIN weights : weights[v] \in Nat /\ weights[v] > 100

(* A quotient is an integer, as rounded needs it.                          *)
LEMMA QuotientIs ==
  ASSUME NEW a \in Int, NEW b \in Nat \ {0}
  PROVE  a \div b \in Int
OBVIOUS

(* Under a verdict one variant gains, and the others keep their weights.   *)
LEMMA GainIs ==
  ASSUME WeightsInv, NEW e, e.winner \in Variants, e.num \in Int, e.den \in Nat \ {0}
  PROVE  LET ws == applyAbWinnerDecision(e, weights)
         IN  /\ DOMAIN ws \subseteq Variants
             /\ \A v \in DOMAIN ws : ws[v] \in Nat /\ ws[v] > 100
             /\ \A v : v # e.winner => weightOf(ws, v) = weightOf(weights, v)
             /\ weightOf(ws, e.winner) > weightOf(weights, e.winner)
<1> DEFINE w == e.winner
           gain == atLeast(rounded(e.num, e.den), 10)
           ws == applyAbWinnerDecision(e, weights)
<1>1. gain \in Nat /\ gain >= 10
  <2>1. rounded(e.num, e.den) \in Int
    <3>1. 2 * e.num + e.den \in Int /\ 2 * e.den \in Nat \ {0}
      OBVIOUS
    <3> QED BY <3>1, QuotientIs DEF rounded
  <2> HIDE DEF gain
  <2> QED BY <2>1 DEF gain, atLeast
<1>2. w # NoWinner
  BY DEF Variants, NoWinner
<1>3. ws = [v \in DOMAIN weights \cup {w} |->
              IF v = w THEN weightOf(weights, v) + gain ELSE weights[v]]
  BY <1>2 DEF applyAbWinnerDecision
<1>4. weightOf(weights, w) \in Nat /\ weightOf(weights, w) >= 100
  BY DEF weightOf, WeightsInv
<1> HIDE DEF ws, gain
<1>5. \A v \in DOMAIN ws : v \in Variants /\ ws[v] \in Nat /\ ws[v] > 100
  BY <1>1, <1>3, <1>4 DEF WeightsInv
<1>6. \A v : v # w => weightOf(ws, v) = weightOf(weights, v)
  BY <1>3 DEF weightOf
<1>7. weightOf(ws, w) = weightOf(weights, w) + gain
  BY <1>3 DEF weightOf
<1> QED BY <1>1, <1>4, <1>5, <1>6, <1>7 DEF ws

(* What a verdict does: nothing, or raise the weight of its winner.        *)
LEMMA DecideIs ==
  ASSUME MeasuredInv, WeightsInv, Decide
  PROVE  LET s == aggregateByVariant
             e == evaluateAbSignificance(s)
         IN  \/ e.winner = NoWinner /\ weights' = weights
             \/ /\ e.winner \in sampled(s, MinSampleSize) /\ e.winner \in Variants
                /\ e.winner = Sorted(sampled(s, MinSampleSize), byRate(s))[1]
                /\ Cardinality(sampled(s, MinSampleSize)) >= 2
                /\ DOMAIN weights' \subseteq Variants
                /\ \A v \in DOMAIN weights' : weights'[v] \in Nat /\ weights'[v] > 100
                /\ \A v : v # e.winner => weightOf(weights', v) = weightOf(weights, v)
                /\ weightOf(weights', e.winner) > weightOf(weights, e.winner)
<1> DEFINE s == aggregateByVariant e == evaluateAbSignificance(s)
<1>1. Summary(s)
  BY AggregateIs
<1>2. weights' = applyAbWinnerDecision(e, weights)
  BY DEF Decide
<1>3. CASE e.winner = NoWinner
  BY <1>2, <1>3 DEF applyAbWinnerDecision
<1>4. CASE e.winner # NoWinner
  <2> HIDE DEF e, s
  <2>1. /\ e.winner \in sampled(s, MinSampleSize) /\ Cardinality(sampled(s, MinSampleSize)) >= 2
        /\ e.winner = Sorted(sampled(s, MinSampleSize), byRate(s))[1]
        /\ e.num \in Int /\ e.den \in Nat \ {0}
    BY <1>1, <1>4, VerdictIs DEF e
  <2>2. e.winner \in Variants
    BY <2>1 DEF sampled
  <2>3. LET ws == applyAbWinnerDecision(e, weights)
        IN  /\ DOMAIN ws \subseteq Variants
            /\ \A v \in DOMAIN ws : ws[v] \in Nat /\ ws[v] > 100
            /\ \A v : v # e.winner => weightOf(ws, v) = weightOf(weights, v)
            /\ weightOf(ws, e.winner) > weightOf(weights, e.winner)
    BY <2>1, <2>2, GainIs
  <2> QED BY <1>2, <2>1, <2>2, <2>3 DEF e, s
<1> QED BY <1>3, <1>4

(* Among variants that were sampled alike, one sample's worth and the score*)
(* order alike, so that the report cannot name another winner.             *)
LEMMA ReportAgrees ==
  ASSUME NEW s, Summary(s), EvenlySampled(s), NEW n \in Nat \ {0},
         NEW v, v = Sorted(sampled(s, MinSampleSize), byRate(s))[1],
         v \in sampled(s, MinSampleSize)
  PROVE  selectWinner(s, n) \in {v, NoWinner}
<1> DEFINE c == s[v].count
<1>1. v \in Variants /\ c \in Nat /\ c >= MinSampleSize /\ MinSampleSize \in Nat \ {0}
  BY GrowthAssumption DEF sampled, Summary
<1>2. \A w \in Variants : s[w].count = c
  BY <1>1 DEF EvenlySampled
<1>3. sampled(s, MinSampleSize) = Variants
  BY <1>1, <1>2 DEF sampled
<1>4. sampled(s, n) \in {Variants, {}}
  BY <1>1, <1>2 DEF sampled
<1>5. byRate(s) = byScore(s)
  <2>1. ASSUME NEW a \in Variants, NEW b \in Variants
        PROVE  moreRate(s, a, b) <=> moreScore(s, a, b)
    <3> DEFINE x == s[a].score y == s[b].score
    <3>1. s[a].count = c /\ s[b].count = c /\ x \in Nat /\ y \in Nat
      BY <1>2 DEF Summary
    <3>2. moreRate(s, a, b) <=> x * c > y * c \/ (x * c = y * c /\ moreScore(s, a, b))
      BY <3>1 DEF moreRate
    <3>3. moreScore(s, a, b) <=> x > y \/ (x = y /\ a < b)
      BY DEF moreScore
    <3> HIDE DEF x, y, c
    <3>4. c \in Nat \ {0} /\ x * c = c * x /\ y * c = c * y /\ c * x \in Int /\ c * y \in Int
      BY <1>1, <3>1
    <3>5. (x * c > y * c <=> x > y) /\ (x * c = y * c <=> x = y)
      <4>1. (x > y => c * x > c * y) /\ (y > x => c * y > c * x)
        BY <3>1, <3>4, Scale
      <4> QED BY <3>1, <3>4, <4>1
    <3> QED BY <3>1, <3>2, <3>3, <3>5
  <2> QED BY <2>1 DEF byRate, byScore
<1>6. CASE sampled(s, n) = Variants
  <2>1. Sorted(sampled(s, n), byScore(s))[1] = v
    BY <1>3, <1>5, <1>6
  <2> QED BY <2>1 DEF selectWinner
<1>7. CASE sampled(s, n) = {}
  <2>1. Sorted({}, byScore(s)) = <<>>
    BY FS_EmptySet DEF Sorted
  <2> QED BY <1>7, <2>1 DEF selectWinner
<1> QED BY <1>4, <1>6, <1>7

(* An idea does not fall behind when its variant gains.                    *)
LEMMA ListedStill ==
  ASSUME WeightsInv, WeightsInv', NEW i \in Ideas, NEW j \in Ideas,
         weightOf(weights', i.variant) >= weightOf(weights, i.variant),
         weightOf(weights', j.variant) = weightOf(weights, j.variant),
         listedBefore(i, j, weights)
  PROVE  listedBefore(i, j, weights')
<1> DEFINE score(idea, ws) == applyVariantWeightsToIdeas(idea, ws)
<1>1. /\ i \in [id : Nat, variant : 0 .. VariantCount, score : 0 .. 1000]
      /\ j \in [id : Nat, variant : 0 .. VariantCount, score : 0 .. 1000]
  BY GrowthAssumption
<1>2. \A v : weightOf(weights, v) \in Nat /\ weightOf(weights', v) \in Nat
  BY DEF weightOf, WeightsInv
<1>3. ASSUME NEW s \in Nat, NEW x \in Nat, NEW y \in Nat, x >= y
      PROVE  rounded(s * x, 100) >= rounded(s * y, 100) /\ rounded(s * x, 100) \in Int
  <2>1. s * x >= s * y /\ s * x \in Nat /\ s * y \in Nat
    BY <1>3, Scale
  <2> DEFINE a == s * x b == s * y
  <2> HIDE DEF a, b
  <2>2. a >= b /\ a \in Nat /\ b \in Nat
    BY <2>1 DEF a, b
  <2>3. rounded(a, 100) >= rounded(b, 100) /\ rounded(a, 100) \in Int
    BY <2>2 DEF rounded
  <2> QED BY <2>3 DEF a, b
<1> DEFINE r(idea, ws) == rounded(idea.score * weightOf(ws, idea.variant), 100)
<1>4. /\ r(i, weights') >= r(i, weights) /\ r(i, weights) \in Int /\ r(i, weights') \in Int
      /\ r(j, weights') = r(j, weights) /\ r(j, weights) \in Int
  <2>1. i.score \in Nat /\ j.score \in Nat
    BY <1>1
  <2>2. r(i, weights') >= r(i, weights) /\ r(i, weights') \in Int
    BY <1>2, <1>3, <2>1
  <2>3. ASSUME NEW s \in Nat, NEW x \in Nat PROVE rounded(s * x, 100) \in Int
    BY <1>3
  <2>4. r(i, weights) \in Int /\ r(j, weights) \in Int
    BY <1>2, <2>1, <2>3
  <2> QED BY <2>2, <2>4
<1>5. \A idea, ws : score(idea, ws) = IF r(idea, ws) > 1000 THEN 1000 ELSE r(idea, ws)
  BY DEF applyVariantWeightsToIdeas
<1>6. \A ws : listedBefore(i, j, ws) <=>
        score(i, ws) > score(j, ws) \/ (score(i, ws) = score(j, ws) /\ i.id < j.id)
  BY DEF listedBefore
<1> HIDE DEF score, r
<1>7. score(i, weights') >= score(i, weights) /\ score(j, weights') = score(j, weights)
  BY <1>4, <1>5
<1>8. /\ score(i, weights) \in Int /\ score(j, weights) \in Int
      /\ score(i, weights') \in Int /\ score(j, weights') \in Int
  BY <1>4, <1>5
<1> QED BY <1>6, <1>7, <1>8

(* A verdict does what its evidence says.                                  *)
LEMMA DecideFollows ==
  ASSUME MeasuredInv, WeightsInv, WeightsInv', Decide
  PROVE  EvidenceDecides
<1> DEFINE s == aggregateByVariant
           e == evaluateAbSignificance(s)
           raised == {v \in Variants : weightOf(weights', v) # weightOf(weights, v)}
<1>1. measured' = measured /\ Summary(s)
  BY AggregateIs DEF Decide
<1>2. \/ e.winner = NoWinner /\ weights' = weights
      \/ /\ e.winner \in sampled(s, MinSampleSize)
         /\ e.winner = Sorted(sampled(s, MinSampleSize), byRate(s))[1]
         /\ \A v : v # e.winner => weightOf(weights', v) = weightOf(weights, v)
         /\ weightOf(weights', e.winner) > weightOf(weights, e.winner)
  <2> HIDE DEF s
  <2> QED BY DecideIs DEF s
<1> HIDE DEF s
<1>3. raised \subseteq {e.winner}
  BY <1>2
<1>4. Cardinality(raised) <= 1
  <2>1. raised = {} \/ raised = {e.winner}
    BY <1>3
  <2> HIDE DEF raised, e
  <2>2. Cardinality({}) = 0 /\ Cardinality({e.winner}) = 1
    BY FS_EmptySet, FS_Singleton
  <2> QED BY <2>1, <2>2
<1>5. ASSUME NEW v \in raised
      PROVE  /\ v = e.winner /\ v \in sampled(s, MinSampleSize)
             /\ v = Sorted(sampled(s, MinSampleSize), byRate(s))[1]
             /\ weightOf(weights', v) > weightOf(weights, v)
             /\ \A w : w # v => weightOf(weights', w) = weightOf(weights, w)
  BY <1>2, <1>5
<1>6. ASSUME NEW v \in raised, EvenlySampled(s), NEW n \in 1 .. MaxFetches * PostCount
      PROVE  selectWinner(s, n) \in {v, NoWinner}
  <2>1. n \in Nat \ {0}
    BY GrowthAssumption
  <2> HIDE DEF raised, e
  <2> QED BY <1>1, <1>5, <1>6, <2>1, ReportAgrees
<1>7. ASSUME NEW v \in raised, NEW i \in Ideas, NEW j \in Ideas, i.variant = v, j.variant # v,
             listedBefore(i, j, weights)
      PROVE  listedBefore(i, j, weights')
  <2>1. weightOf(weights', v) > weightOf(weights, v)
    BY <1>5
  <2>2. weightOf(weights', v) \in Nat /\ weightOf(weights, v) \in Nat
    BY DEF weightOf, WeightsInv
  <2>3. /\ weightOf(weights', i.variant) >= weightOf(weights, i.variant)
        /\ weightOf(weights', j.variant) = weightOf(weights, j.variant)
    BY <1>5, <1>7, <2>1, <2>2
  <2> HIDE DEF raised, e
  <2> QED BY <1>7, <2>3, ListedStill
<1> HIDE DEF raised, e
<1> QED BY <1>1, <1>4, <1>6, <1>7 DEF EvidenceDecides, s, raised

(* And so does every step.                                                 *)
LEMMA EvidenceAlwaysDecides ==
  ASSUME MeasuredInv, WeightsInv, MeasuredInv', WeightsInv',
         Decide \/ UNCHANGED weights
  PROVE  EvidenceDecides
<1>1. CASE Decide
  BY <1>1, DecideFollows
<1>2. CASE UNCHANGED weights
  <2>1. HistoryMovesLittle'
    BY HistoryMoves, PTL
  <2>2. {v \in Variants : weightOf(weights', v) # weightOf(weights, v)} = {}
    BY <1>2
  <2>3. Cardinality({}) = 0
    BY FS_EmptySet
  <2> QED BY <2>1, <2>2, <2>3 DEF EvidenceDecides
<1> QED BY <1>1, <1>2

-----------------------------------------------------------------------------
(* The budget.                                                             *)

LedgerInv == ledger \in Seq([day : 1 .. 2, cost : Nat]) /\ Len(ledger) <= MaxSpent

(* Entries are only added.                                                 *)
LEMMA SpendKeeps == ASSUME LedgerInv, Spend PROVE LedgerInv'
<1>1. PICK day \in 1 .. 2, cost \in 0 .. DailyBudget : ledger' = Append(ledger, [day |-> day, cost |-> cost])
  BY DEF Spend
<1>2. [day |-> day, cost |-> cost] \in [day : 1 .. 2, cost : Nat] /\ Len(ledger) < MaxSpent
  BY GrowthAssumption DEF Spend
<1>3. /\ ledger' \in Seq([day : 1 .. 2, cost : Nat]) /\ Len(ledger') = Len(ledger) + 1
      /\ Len(ledger) \in Nat
  BY <1>1, <1>2, AppendProperties, LenProperties DEF LedgerInv
<1> QED BY <1>2, <1>3, GrowthAssumption DEF LedgerInv

(* The views agree, for the cost of a day is part of the total.            *)
LEMMA BudgetAgrees == LedgerInv => BudgetViewsAgree
<1> SUFFICES ASSUME LedgerInv, NEW day \in 1 .. 3
             PROVE  LET full == summarizeTokenLedger
                        breaker == applyBudgetBreaker(full, day)
                        plan == planLlmProviderWithBudget(full, day)
                    IN  /\ plan.degraded <=> breaker.action = "degrade"
                        /\ plan.why = breaker.why
                        /\ planLlmProviderWithBudget(panelSummary, day).degraded => plan.degraded
  BY DEF BudgetViewsAgree
<1> DEFINE full == summarizeTokenLedger
           cost == [i \in DOMAIN ledger |-> ledger[i].cost]
<1>1. IsFiniteSet(DOMAIN ledger) /\ \A i \in DOMAIN ledger : cost[i] \in Nat
  <2>1. Len(ledger) \in Nat /\ DOMAIN ledger = 1 .. Len(ledger)
    BY LenProperties DEF LedgerInv
  <2>2. \A i \in DOMAIN ledger : ledger[i] \in [day : 1 .. 2, cost : Nat]
    BY <2>1, ElementOfSeq DEF LedgerInv
  <2> QED BY <2>1, <2>2, FS_Interval
<1>2. ASSUME NEW S \in SUBSET DOMAIN ledger PROVE costOf(S) \in Nat
  <2> HIDE DEF cost
  <2>1. IsFiniteSet(S) /\ \A i \in S : cost[i] \in Nat
    BY <1>1, FS_Subset
  <2> QED BY <2>1, SumIsNat DEF costOf, cost
<1>3. spentOn(full, day) \in Nat /\ full.totalCost = costOf(DOMAIN ledger)
  <2>1. \A d \in DOMAIN full.byDay : full.byDay[d] \in Nat
    BY <1>2 DEF summarizeTokenLedger
  <2> HIDE DEF full
  <2> QED BY <2>1 DEF spentOn, full, summarizeTokenLedger
<1>4. panelSummary.totalCost = costOf(DOMAIN ledger) /\ spentOn(panelSummary, day) = 0
  BY DEF panelSummary, spentOn
<1> DEFINE x == spentOn(full, day) t == costOf(DOMAIN ledger)
<1>5. x \in Nat /\ t \in Nat /\ DailyBudget \in Nat /\ MonthlyBudget \in Nat
  BY <1>2, <1>3, GrowthAssumption
<1>6. /\ planLlmProviderWithBudget(full, day).degraded <=> x >= DailyBudget \/ t >= MonthlyBudget
      /\ planLlmProviderWithBudget(full, day).why
           = IF x >= DailyBudget THEN "daily" ELSE IF t >= MonthlyBudget THEN "monthly" ELSE "within"
  BY <1>3 DEF planLlmProviderWithBudget
<1>7. planLlmProviderWithBudget(panelSummary, day).degraded <=> 0 >= DailyBudget \/ t >= MonthlyBudget
  BY <1>4 DEF planLlmProviderWithBudget
<1>8. applyBudgetBreaker(full, day) =
        IF x >= DailyBudget THEN [action |-> "degrade", why |-> "daily"]
        ELSE IF t >= MonthlyBudget THEN [action |-> "degrade", why |-> "monthly"]
        ELSE [action |-> "allow", why |-> "within"]
  <2>1. applyBudgetBreaker(full, day) =
          CASE x >= DailyBudget -> [action |-> "degrade", why |-> "daily"]
            [] x < DailyBudget /\ t >= MonthlyBudget -> [action |-> "degrade", why |-> "monthly"]
            [] OTHER -> [action |-> "allow", why |-> "within"]
    BY <1>3 DEF applyBudgetBreaker
  <2> HIDE DEF x, t
  <2> QED BY <1>5, <2>1
<1> HIDE DEF x, t
<1>9. applyBudgetBreaker(full, day).action = "degrade" <=> x >= DailyBudget \/ t >= MonthlyBudget
  BY <1>8
<1>10. planLlmProviderWithBudget(full, day).why = applyBudgetBreaker(full, day).why
  BY <1>6, <1>8
<1>11. 0 >= DailyBudget => x >= DailyBudget
  BY <1>5
<1> QED BY <1>6, <1>7, <1>9, <1>10, <1>11, Zenon

-----------------------------------------------------------------------------
(* An order by five numbers, of which the last two tell any two apart; the *)
(* first counts down.                                                      *)
Earlier(P, I, J, K, L, x, y) ==
  \/ P[x] > P[y]
  \/ /\ P[x] = P[y]
     /\ \/ I[x] < I[y]
        \/ /\ I[x] = I[y]
           /\ \/ J[x] < J[y]
              \/ J[x] = J[y] /\ (K[x] < K[y] \/ (K[x] = K[y] /\ L[x] < L[y]))

OrderedBy(order, S, P, I, J, K, L) ==
  /\ P \in [S -> Int] /\ I \in [S -> Int] /\ J \in [S -> Int]
  /\ K \in [S -> Int] /\ L \in [S -> Int]
  /\ \A x, y \in S : <<x, y>> \in order <=> Earlier(P, I, J, K, L, x, y)
  /\ \A x, y \in S : K[x] = K[y] /\ L[x] = L[y] => x = y

(* Such an order is strict and total.                                      *)
LEMMA EarlierOrders ==
  ASSUME NEW S, NEW order, NEW P, NEW I, NEW J, NEW K, NEW L,
         OrderedBy(order, S, P, I, J, K, L)
  PROVE  Orders(order, S)
<1> USE DEF OrderedBy
<1>1. \A x \in S : ~ Earlier(P, I, J, K, L, x, x)
  BY DEF Earlier
<1>2. \A x, y \in S : x # y => Earlier(P, I, J, K, L, x, y) \/ Earlier(P, I, J, K, L, y, x)
  BY DEF Earlier
<1>3. \A x, y, z \in S : Earlier(P, I, J, K, L, x, y) /\ Earlier(P, I, J, K, L, y, z)
        => Earlier(P, I, J, K, L, x, z)
  BY DEF Earlier
<1>4. \A x \in S : <<x, x>> \notin order
  BY <1>1
<1>5. \A x, y \in S : x # y => <<x, y>> \in order \/ <<y, x>> \in order
  BY <1>2
<1>6. \A x, y, z \in S : <<x, y>> \in order /\ <<y, z>> \in order => <<x, z>> \in order
  BY <1>3
<1> QED BY <1>4, <1>5, <1>6 DEF Orders

Items == [id : Nat \X Nat, status : {"queued", "sent", "skipped"}, priority : Nat]

(* How two replies compare, and where they compare alike, their places.    *)
LEMMA RepliesCompare ==
  ASSUME NEW a \in Items, NEW b \in Items
  PROVE  /\ replyBefore(a, b) <=>
              \/ a.priority > b.priority
              \/ /\ a.priority = b.priority
                 /\ a.id[1] < b.id[1] \/ (a.id[1] = b.id[1] /\ a.id[2] < b.id[2])
         /\ a.priority \in Int /\ a.id[1] \in Int /\ a.id[2] \in Int
BY DEF replyBefore, listedFirst, Items

-----------------------------------------------------------------------------
(* A queue as it is built.                                                 *)

(* Each comment makes one reply.                                           *)
LEMMA ReplyIs ==
  ASSUME NEW rows \in Measured, NEW r \in DOMAIN rows, NEW c \in DOMAIN rows[r].comments
  PROVE  /\ reply(rows, <<r, c>>) \in Items
         /\ reply(rows, <<r, c>>).status = "queued"
         /\ r \in Int /\ c \in Int
<1> DEFINE R == [post : Nat, likes : Nat, comments : Seq(BOOLEAN)]
<1>1. rows \in Seq(R)
  BY GrowthAssumption
<1>2. r \in Nat /\ rows[r] \in R
  <2> HIDE DEF R
  <2>1. DOMAIN rows = 1 .. Len(rows) /\ Len(rows) \in Nat
    BY <1>1, LenProperties
  <2>2. r \in 1 .. Len(rows)
    BY <2>1
  <2> QED BY <1>1, <2>1, <2>2, ElementOfSeq
<1>3. rows[r].post \in Nat /\ rows[r].likes \in Nat /\ rows[r].comments \in Seq(BOOLEAN)
  BY <1>2
<1>4. c \in Nat
  BY <1>3, LenProperties
<1>5. reply(rows, <<r, c>>) =
        [id |-> <<rows[r].post, c>>, status |-> "queued",
         priority |-> rows[r].likes + (IF rows[r].comments[c] THEN 10 ELSE 0)]
  BY DEF reply
<1> QED BY <1>2, <1>3, <1>4, <1>5 DEF Items

(* And all wait at first.                                                  *)
LEMMA BuiltIs ==
  ASSUME NEW rows \in Measured
  PROVE  /\ buildReplyQueue(rows) \in Seq(Items)
         /\ \A i \in DOMAIN buildReplyQueue(rows) : buildReplyQueue(rows)[i].status = "queued"
<1> DEFINE places == UNION {{r} \X DOMAIN rows[r].comments : r \in DOMAIN rows}
           nearer(x, y) == \/ replyBefore(reply(rows, x), reply(rows, y))
                           \/ ~ replyBefore(reply(rows, y), reply(rows, x)) /\ listedFirst(x, y)
           order == {p \in places \X places : nearer(p[1], p[2])}
           sorted == Sorted(places, order)
           n == Cardinality(places)
<1>1. rows \in Seq([post : Nat, likes : Nat, comments : Seq(BOOLEAN)])
  BY GrowthAssumption
<1>2. ASSUME NEW x \in places
      PROVE  /\ x = <<x[1], x[2]>> /\ x[1] \in Int /\ x[2] \in Int
             /\ reply(rows, x) \in Items /\ reply(rows, x).status = "queued"
  <2>1. PICK r \in DOMAIN rows : x \in {r} \X DOMAIN rows[r].comments
    OBVIOUS
  <2>2. x = <<r, x[2]>> /\ x[2] \in DOMAIN rows[r].comments /\ x[1] = r
    BY <2>1
  <2> HIDE DEF places
  <2> QED BY <2>2, ReplyIs
<1>3. IsFiniteSet(places)
  <2>1. Len(rows) \in Nat /\ DOMAIN rows = 1 .. Len(rows)
    BY <1>1, LenProperties
  <2>2. ASSUME NEW r \in DOMAIN rows PROVE IsFiniteSet({r} \X DOMAIN rows[r].comments)
    <3>1. rows[r].comments \in Seq(BOOLEAN)
      <4>1. rows[r] \in [post : Nat, likes : Nat, comments : Seq(BOOLEAN)]
        BY <1>1, <2>1, ElementOfSeq
      <4> QED BY <4>1
    <3>2. IsFiniteSet(DOMAIN rows[r].comments)
      BY <3>1, LenProperties, FS_Interval
    <3> QED BY <3>2, FS_Singleton, FS_Product
  <2> DEFINE blocks == {{r} \X DOMAIN rows[r].comments : r \in DOMAIN rows}
  <2>3. IsFiniteSet(blocks)
    <3>1. IsFiniteSet(DOMAIN rows)
      BY <2>1, FS_Interval
    <3> DEFINE f == [r \in DOMAIN rows |-> {r} \X DOMAIN rows[r].comments]
    <3>2. f \in Surjection(DOMAIN rows, blocks)
      BY Fun_IsSurj
    <3> HIDE DEF f, blocks
    <3> QED BY <3>1, <3>2, FS_Surjection
  <2>4. \A B \in blocks : IsFiniteSet(B)
    BY <2>2
  <2> HIDE DEF blocks
  <2>5. IsFiniteSet(UNION blocks)
    BY <2>3, <2>4, FS_UNION
  <2> QED BY <2>5 DEF blocks
<1> HIDE DEF places
<1>4. Orders(order, places)
  <2> DEFINE R(x) == reply(rows, x)
             P == [x \in places |-> R(x).priority]
             I == [x \in places |-> R(x).id[1]]
             J == [x \in places |-> R(x).id[2]]
             K == [x \in places |-> x[1]]
             L == [x \in places |-> x[2]]
  <2>1. \A x, y \in places : replyBefore(R(x), R(y)) <=>
          P[x] > P[y] \/ (P[x] = P[y] /\ (I[x] < I[y] \/ (I[x] = I[y] /\ J[x] < J[y])))
    BY <1>2, RepliesCompare
  <2>2. \A x, y \in places : listedFirst(x, y) <=> K[x] < K[y] \/ (K[x] = K[y] /\ L[x] < L[y])
    BY DEF listedFirst
  <2>3. /\ P \in [places -> Int] /\ I \in [places -> Int] /\ J \in [places -> Int]
        /\ K \in [places -> Int] /\ L \in [places -> Int]
    BY <1>2, RepliesCompare
  <2>4. \A x, y \in places : K[x] = K[y] /\ L[x] = L[y] => x = y
    BY <1>2
  <2>5. \A x, y \in places : <<x, y>> \in order <=>
          replyBefore(R(x), R(y)) \/ (~ replyBefore(R(y), R(x)) /\ listedFirst(x, y))
    OBVIOUS
  <2> HIDE DEF P, I, J, K, L, R, order
  <2>6. ASSUME NEW x \in places, NEW y \in places
        PROVE  <<x, y>> \in order <=> Earlier(P, I, J, K, L, x, y)
    <3>1. /\ P[x] \in Int /\ P[y] \in Int /\ I[x] \in Int /\ I[y] \in Int
          /\ J[x] \in Int /\ J[y] \in Int
      BY <2>3
    <3>2. /\ replyBefore(R(x), R(y)) <=>
               P[x] > P[y] \/ (P[x] = P[y] /\ (I[x] < I[y] \/ (I[x] = I[y] /\ J[x] < J[y])))
          /\ replyBefore(R(y), R(x)) <=>
               P[y] > P[x] \/ (P[y] = P[x] /\ (I[y] < I[x] \/ (I[y] = I[x] /\ J[y] < J[x])))
          /\ listedFirst(x, y) <=> K[x] < K[y] \/ (K[x] = K[y] /\ L[x] < L[y])
          /\ <<x, y>> \in order <=>
               replyBefore(R(x), R(y)) \/ (~ replyBefore(R(y), R(x)) /\ listedFirst(x, y))
      BY <2>1, <2>2, <2>5
    <3> QED BY <3>1, <3>2 DEF Earlier
  <2>7. OrderedBy(order, places, P, I, J, K, L)
    BY <2>3, <2>4, <2>6 DEF OrderedBy
  <2> QED BY <2>7, EarlierOrders
<1>5. n \in Nat /\ sorted \in [1 .. n -> places]
  <2> HIDE DEF order
  <2> QED BY <1>3, <1>4, SortedIs
<1> DEFINE queue == [i \in DOMAIN sorted |-> reply(rows, sorted[i])]
<1>6. buildReplyQueue(rows) = queue
  BY DEF buildReplyQueue, places
<1>7. queue \in [1 .. n -> Items] /\ \A i \in DOMAIN queue : queue[i].status = "queued"
  <2> HIDE DEF sorted, n
  <2> QED BY <1>2, <1>5
<1> HIDE DEF queue, n
<1>8. queue \in Seq(Items)
  BY <1>5, <1>7, SeqDef
<1> QED BY <1>6, <1>7, <1>8

-----------------------------------------------------------------------------
(* The queue as it is worked.                                              *)

(* What stands at a place of a queue.                                      *)
LEMMA ItemIs ==
  ASSUME NEW items \in Seq(Items), NEW i \in DOMAIN items
  PROVE  /\ items[i] \in Items /\ i \in Nat
         /\ items[i].status \in {"queued", "sent", "skipped"} /\ items[i].priority \in Nat
<1>1. DOMAIN items = 1 .. Len(items) /\ Len(items) \in Nat
  BY LenProperties
<1>2. i \in 1 .. Len(items)
  BY <1>1
<1>3. items[i] \in Items
  BY <1>2, ElementOfSeq
<1> QED BY <1>1, <1>2, <1>3 DEF Items

(* The places of the replies that wait, in the order they are worked in.   *)
LEMMA QueuedIs ==
  ASSUME NEW items \in Seq(Items)
  PROVE  LET n == Cardinality(waiting(items)) Q == queued(items)
         IN  /\ n \in Nat /\ Q \in [1 .. n -> waiting(items)]
             /\ IsFiniteSet(waiting(items))
             /\ \A i \in waiting(items) : \E k \in 1 .. n : Q[k] = i
             /\ \A k, l \in 1 .. n : k < l => items[Q[k]].priority >= items[Q[l]].priority
<1> DEFINE W == waiting(items)
           order == {p \in W \X W : inLine(items, p[1], p[2])}
           n == Cardinality(W)
           Q == queued(items)
<1>1. IsFiniteSet(W)
  <2>1. IsFiniteSet(DOMAIN items)
    <3>1. DOMAIN items = 1 .. Len(items) /\ Len(items) \in Nat
      BY LenProperties
    <3> QED BY <3>1, FS_Interval
  <2>2. W \in SUBSET DOMAIN items
    BY DEF waiting
  <2> QED BY <2>1, <2>2, FS_Subset
<1>2. ASSUME NEW x \in W
      PROVE  items[x] \in Items /\ x \in Nat /\ items[x].priority \in Nat
  BY ItemIs DEF waiting
<1>3. \A x, y \in W : replyBefore(items[x], items[y]) <=>
        \/ items[x].priority > items[y].priority
        \/ /\ items[x].priority = items[y].priority
           /\ \/ items[x].id[1] < items[y].id[1]
              \/ items[x].id[1] = items[y].id[1] /\ items[x].id[2] < items[y].id[2]
  <2> HIDE DEF W
  <2> QED BY <1>2, RepliesCompare
<1>4. Orders(order, W)
  <2> DEFINE P == [x \in W |-> items[x].priority]
             I == [x \in W |-> items[x].id[1]]
             J == [x \in W |-> items[x].id[2]]
             K == [x \in W |-> x]
             L == [x \in W |-> 0]
  <2>1. /\ P \in [W -> Int] /\ I \in [W -> Int] /\ J \in [W -> Int]
        /\ K \in [W -> Int] /\ L \in [W -> Int]
    <3> HIDE DEF W
    <3> QED BY <1>2, RepliesCompare
  <2>2. \A x, y \in W : K[x] = K[y] /\ L[x] = L[y] => x = y
    OBVIOUS
  <2>3. \A x, y \in W : replyBefore(items[x], items[y]) <=>
          P[x] > P[y] \/ (P[x] = P[y] /\ (I[x] < I[y] \/ (I[x] = I[y] /\ J[x] < J[y])))
    <3> HIDE DEF W
    <3> QED BY <1>3
  <2>4. \A x, y \in W : <<x, y>> \in order <=>
          replyBefore(items[x], items[y]) \/ (~ replyBefore(items[y], items[x]) /\ K[x] < K[y])
    <3> HIDE DEF W
    <3> QED BY DEF inLine
  <2>5. \A x, y \in W : L[x] = L[y]
    OBVIOUS
  <2> HIDE DEF P, I, J, K, L, order, W
  <2>6. ASSUME NEW x \in W, NEW y \in W
        PROVE  <<x, y>> \in order <=> Earlier(P, I, J, K, L, x, y)
    <3>1. /\ P[x] \in Int /\ P[y] \in Int /\ I[x] \in Int /\ I[y] \in Int
          /\ J[x] \in Int /\ J[y] \in Int /\ L[x] \in Int /\ L[y] \in Int /\ L[x] = L[y]
      BY <2>1, <2>5
    <3>2. /\ replyBefore(items[x], items[y]) <=>
               P[x] > P[y] \/ (P[x] = P[y] /\ (I[x] < I[y] \/ (I[x] = I[y] /\ J[x] < J[y])))
          /\ replyBefore(items[y], items[x]) <=>
               P[y] > P[x] \/ (P[y] = P[x] /\ (I[y] < I[x] \/ (I[y] = I[x] /\ J[y] < J[x])))
          /\ <<x, y>> \in order <=>
               replyBefore(items[x], items[y]) \/ (~ replyBefore(items[y], items[x]) /\ K[x] < K[y])
      BY <2>3, <2>4
    <3> QED BY <3>1, <3>2 DEF Earlier
  <2>7. OrderedBy(order, W, P, I, J, K, L)
    BY <2>1, <2>2, <2>6 DEF OrderedBy
  <2> QED BY <2>7, EarlierOrders
<1>5. Q = Sorted(W, order)
  BY DEF queued
<1>6. ASSUME NEW x \in W, NEW y \in W, <<x, y>> \in order
      PROVE  items[x].priority >= items[y].priority
  <2>1. replyBefore(items[x], items[y]) \/ ~ replyBefore(items[y], items[x])
    BY <1>6 DEF inLine
  <2> HIDE DEF W, order
  <2>2. /\ items[x].priority \in Nat /\ items[y].priority \in Nat
    BY <1>2
  <2>3. /\ replyBefore(items[x], items[y]) => items[x].priority >= items[y].priority
        /\ items[y].priority > items[x].priority => replyBefore(items[y], items[x])
    BY <1>3, <2>2
  <2> QED BY <2>1, <2>2, <2>3
<1> HIDE DEF W, order, Q
<1>7. /\ n \in Nat /\ Q \in [1 .. n -> W]
      /\ \A a \in W : \E i \in 1 .. n : Q[i] = a
      /\ \A i, j \in 1 .. n : i < j <=> <<Q[i], Q[j]>> \in order
  BY <1>1, <1>4, <1>5, SortedIs
<1>8. \A k, l \in 1 .. n : k < l => items[Q[k]].priority >= items[Q[l]].priority
  <2> HIDE DEF n
  <2> QED BY <1>6, <1>7
<1> QED BY <1>1, <1>7, <1>8 DEF W, Q

(* Copies of a reply share their status; what waits was not sent; and      *)
(* nothing was sent more often than it is listed.                          *)
Copies(items, id) == {i \in DOMAIN items : items[i].id = id}

RepliesInv ==
  /\ replies \in Seq(Items)
  /\ \A i, j \in DOMAIN replies :
       replies[i].id = replies[j].id => replies[i].status = replies[j].status
  /\ sent \in [{replies[i].id : i \in DOMAIN replies} -> Nat]
  /\ \A i \in DOMAIN replies : replies[i].status = "queued" => sent[replies[i].id] = 0
  /\ \A id \in DOMAIN sent : sent[id] <= Cardinality(Copies(replies, id))

LEMMA RepliesInvInitially == GrowthInit => RepliesInv
<1> SUFFICES ASSUME GrowthInit PROVE RepliesInv
  OBVIOUS
<1>1. replies = <<>> /\ sent = <<>> /\ DOMAIN replies = {} /\ DOMAIN sent = {}
  BY DEF GrowthInit
<1>2. sent \in [{replies[i].id : i \in DOMAIN replies} -> Nat]
  BY <1>1
<1> QED BY <1>1, <1>2 DEF RepliesInv

(* Drafted replies wait, and none was sent.                                *)
LEMMA DraftsBuild ==
  ASSUME DraftReplies
  PROVE  RepliesInv'
<1>1. PICK rows \in Measured : replies' = buildReplyQueue(rows)
  BY DEF DraftReplies
<1>2. /\ replies' \in Seq(Items)
      /\ \A i \in DOMAIN replies' : replies'[i].status = "queued"
  BY <1>1, BuiltIs
<1>3. sent' = [id \in {replies'[i].id : i \in DOMAIN replies'} |-> 0]
  BY DEF DraftReplies
<1>4. sent' \in [{replies'[i].id : i \in DOMAIN replies'} -> Nat]
  BY <1>3
<1>5. \A i \in DOMAIN replies' : sent'[replies'[i].id] = 0
  BY <1>3
<1>6. \A id \in DOMAIN sent' : sent'[id] <= Cardinality(Copies(replies', id))
  <2> TAKE id \in DOMAIN sent'
  <2>1. IsFiniteSet(Copies(replies', id))
    <3>1. DOMAIN replies' = 1 .. Len(replies') /\ Len(replies') \in Nat
      BY <1>2, LenProperties
    <3>2. IsFiniteSet(DOMAIN replies')
      BY <3>1, FS_Interval
    <3>3. Copies(replies', id) \in SUBSET DOMAIN replies'
      BY DEF Copies
    <3> QED BY <3>2, <3>3, FS_Subset
  <2>2. sent'[id] = 0
    BY <1>3
  <2>3. Cardinality(Copies(replies', id)) \in Nat
    BY <2>1, FS_CardinalityType
  <2> QED BY <2>2, <2>3
<1>7. \A i, j \in DOMAIN replies' :
        replies'[i].id = replies'[j].id => replies'[i].status = replies'[j].status
  BY <1>2
<1> QED BY <1>2, <1>4, <1>5, <1>6, <1>7 DEF RepliesInv

(* What working the queue does: Hit are the identifiers it touches.        *)
Hit(limit) == {replies[i].id : i \in selected(replies, limit)}

(* What is selected waits, and is worth no less than what is left waiting. *)
LEMMA SelectedIs ==
  ASSUME RepliesInv, NEW limit \in 1 .. Len(replies)
  PROVE  /\ selected(replies, limit) \subseteq waiting(replies)
         /\ \A k \in selected(replies, limit), j \in waiting(replies) \ selected(replies, limit) :
              replies[k].priority >= replies[j].priority
         /\ waiting(replies) # {} =>
              queued(replies) # <<>> /\ queued(replies)[1] \in selected(replies, limit)
<1> DEFINE W == waiting(replies)
           Q == queued(replies)
           n == Cardinality(W)
           S == selected(replies, limit)
<1>1. replies \in Seq(Items)
  BY DEF RepliesInv
<1>2. /\ n \in Nat /\ Q \in [1 .. n -> W]
      /\ \A i \in W : \E k \in 1 .. n : Q[k] = i
      /\ \A k, l \in 1 .. n : k < l => replies[Q[k]].priority >= replies[Q[l]].priority
  BY <1>1, QueuedIs
<1>3. limit \in Nat /\ limit >= 1
  BY <1>1
<1>4. S = {Q[k] : k \in {k \in 1 .. n : k <= limit}}
  BY <1>2 DEF selected
<1> HIDE DEF W, Q, n, S
<1>5. S \subseteq W
  BY <1>2, <1>4
<1>6. ASSUME NEW k \in S, NEW j \in W \ S
      PROVE  replies[k].priority >= replies[j].priority
  <2>1. PICK a \in 1 .. n : a <= limit /\ k = Q[a]
    BY <1>4
  <2>2. PICK b \in 1 .. n : j = Q[b]
    BY <1>2
  <2>3. ~ b <= limit
    BY <1>4, <2>2
  <2>4. a < b
    BY <1>2, <1>3, <2>1, <2>3
  <2> QED BY <1>2, <2>1, <2>2, <2>4
<1>7. ASSUME W # {} PROVE Q # <<>> /\ Q[1] \in S
  <2>1. 1 \in 1 .. n
    BY <1>2, <1>7
  <2>2. Q # <<>>
    BY <1>2, <2>1
  <2> QED BY <1>3, <1>4, <2>1, <2>2
<1> QED BY <1>5, <1>6, <1>7 DEF W, Q, S

(* Just what shares its identifier with a selected reply changes.          *)
LEMMA WorkedIs ==
  ASSUME RepliesInv, NEW limit \in 1 .. Len(replies), NEW sandbox \in BOOLEAN,
         replies' = workReplyQueue(replies, limit, sandbox)
  PROVE  /\ replies' \in Seq(Items) /\ DOMAIN replies' = DOMAIN replies
         /\ \A i \in DOMAIN replies :
              /\ replies'[i].id = replies[i].id
              /\ replies[i].id \notin Hit(limit) => replies'[i] = replies[i]
              /\ replies[i].id \in Hit(limit) =>
                   replies'[i].status = (IF sandbox THEN "skipped" ELSE "sent")
<1>1. replies \in Seq(Items)
  BY DEF RepliesInv
<1>2. replies' = [i \in DOMAIN replies |->
         IF replies[i].id \in Hit(limit)
         THEN [replies[i] EXCEPT !.status = IF sandbox THEN "skipped" ELSE "sent"]
         ELSE replies[i]]
  BY DEF workReplyQueue, Hit
<1>3. \A i \in DOMAIN replies : replies[i] \in Items
  BY <1>1, ItemIs
<1>4. DOMAIN replies' = DOMAIN replies
  BY <1>2
<1>5. ASSUME NEW i \in DOMAIN replies
      PROVE  /\ replies'[i] \in Items /\ replies'[i].id = replies[i].id
             /\ replies[i].id \notin Hit(limit) => replies'[i] = replies[i]
             /\ replies[i].id \in Hit(limit) =>
                  replies'[i].status = (IF sandbox THEN "skipped" ELSE "sent")
  <2>1. replies[i] \in Items
    BY <1>3
  <2> QED BY <1>2, <2>1 DEF Items
<1>6. replies' \in Seq(Items)
  <2>1. DOMAIN replies = 1 .. Len(replies) /\ Len(replies) \in Nat
    BY <1>1, LenProperties
  <2>2. replies' \in [1 .. Len(replies) -> Items]
    BY <1>2, <1>5, <2>1
  <2> QED BY <2>1, <2>2, SeqDef
<1> QED BY <1>4, <1>5, <1>6

(* No copy of a reply is selected that does not wait.                      *)
LEMMA HitsWait ==
  ASSUME RepliesInv, NEW limit \in 1 .. Len(replies), NEW i \in DOMAIN replies,
         replies[i].id \in Hit(limit)
  PROVE  replies[i].status = "queued"
<1>1. PICK k \in selected(replies, limit) : replies[k].id = replies[i].id
  BY DEF Hit
<1>2. k \in DOMAIN replies /\ replies[k].status = "queued"
  BY <1>1, SelectedIs DEF waiting
<1> QED BY <1>1, <1>2 DEF RepliesInv

(* No reply is sent more often than its comment was listed.                *)
LEMMA SentIs ==
  ASSUME RepliesInv, NEW limit \in 1 .. Len(replies), NEW id \in DOMAIN sent
  PROVE  LET again == {i \in selected(replies, limit) : replies[i].id = id}
         IN  /\ Cardinality(again) \in Nat
             /\ sent[id] \in Nat
             /\ sent[id] + Cardinality(again) <= Cardinality(Copies(replies, id))
             /\ id \notin Hit(limit) => Cardinality(again) = 0
<1> DEFINE again == {i \in selected(replies, limit) : replies[i].id = id}
<1>1. replies \in Seq(Items) /\ sent[id] \in Nat /\ sent[id] <= Cardinality(Copies(replies, id))
  BY DEF RepliesInv
<1>2. again \in SUBSET Copies(replies, id)
  BY SelectedIs DEF Copies, waiting
<1>3. IsFiniteSet(Copies(replies, id))
  <2>1. DOMAIN replies = 1 .. Len(replies) /\ Len(replies) \in Nat
    BY <1>1, LenProperties
  <2>2. IsFiniteSet(DOMAIN replies) /\ Copies(replies, id) \in SUBSET DOMAIN replies
    BY <2>1, FS_Interval DEF Copies
  <2> QED BY <2>2, FS_Subset
<1>4. id \notin Hit(limit) => again = {}
  BY DEF Hit
<1>5. again # {} => sent[id] = 0
  <2> SUFFICES ASSUME NEW i \in again PROVE sent[id] = 0
    OBVIOUS
  <2>1. i \in DOMAIN replies /\ replies[i].id = id /\ replies[i].status = "queued"
    BY SelectedIs DEF waiting
  <2> QED BY <2>1 DEF RepliesInv
<1> HIDE DEF again
<1>6. IsFiniteSet(again) /\ Cardinality(again) <= Cardinality(Copies(replies, id))
  BY <1>2, <1>3, FS_Subset
<1>7. Cardinality(again) \in Nat /\ Cardinality(Copies(replies, id)) \in Nat
  BY <1>3, <1>6, FS_CardinalityType
<1>8. again = {} => Cardinality(again) = 0
  BY FS_EmptySet
<1>9. sent[id] + Cardinality(again) <= Cardinality(Copies(replies, id))
  BY <1>1, <1>5, <1>6, <1>7, <1>8
<1> QED BY <1>1, <1>4, <1>7, <1>8, <1>9 DEF again

(* How `ima reply' changes the two, with its arguments named.              *)
Works(limit, sandbox) ==
  /\ limit \in 1 .. Len(replies) /\ sandbox \in BOOLEAN
  /\ replies' = workReplyQueue(replies, limit, sandbox)
  /\ sent' = [id \in DOMAIN sent |->
       IF sandbox THEN sent[id]
       ELSE sent[id] + Cardinality({i \in selected(replies, limit) : replies[i].id = id})]

(* The three forms of the command are cases of this.                       *)
LEMMA WorkIs ==
  ASSUME WorkReplies
  PROVE  \E limit, sandbox : Works(limit, sandbox)
<1>1. PICK sub \in {"send", "verify", "cleanup"}, real \in BOOLEAN, limit \in 1 .. Len(replies) :
        LET sandbox == sub # "send" \/ ~ real
            taken == selected(replies, limit)
        IN  /\ replies' = workReplyQueue(replies, limit, sandbox)
            /\ sent' = [id \in DOMAIN sent |->
                 IF sandbox THEN sent[id]
                 ELSE sent[id] + Cardinality({i \in taken : replies[i].id = id})]
  BY DEF WorkReplies
<1>2. Works(limit, sub # "send" \/ ~ real)
  BY <1>1 DEF Works
<1> QED BY <1>2

(* What it does to the counts of what was sent.                            *)
LEMMA SentStays ==
  ASSUME RepliesInv, NEW limit, NEW sandbox, Works(limit, sandbox)
  PROVE  /\ DOMAIN sent' = DOMAIN sent
         /\ \A id \in DOMAIN sent :
              /\ sent'[id] \in Nat /\ sent'[id] <= Cardinality(Copies(replies, id))
              /\ id \notin Hit(limit) => sent'[id] = sent[id]
<1>1. limit \in 1 .. Len(replies) /\ sandbox \in BOOLEAN
  BY DEF Works
<1>2. sent' = [id \in DOMAIN sent |->
       IF sandbox THEN sent[id]
       ELSE sent[id] + Cardinality({i \in selected(replies, limit) : replies[i].id = id})]
  BY DEF Works
<1>3. ASSUME NEW id \in DOMAIN sent
      PROVE  /\ sent'[id] \in Nat /\ sent'[id] <= Cardinality(Copies(replies, id))
             /\ id \notin Hit(limit) => sent'[id] = sent[id]
  <2> DEFINE more == Cardinality({i \in selected(replies, limit) : replies[i].id = id})
             copies == Cardinality(Copies(replies, id))
  <2>1. more \in Nat /\ sent[id] \in Nat /\ sent[id] + more <= copies /\ (id \notin Hit(limit) => more = 0)
    BY <1>1, SentIs
  <2>2. sent[id] <= copies
    BY DEF RepliesInv
  <2>3. sent'[id] = IF sandbox THEN sent[id] ELSE sent[id] + more
    BY <1>2
  <2> HIDE DEF more, copies
  <2>4. sent'[id] \in Nat /\ sent'[id] <= copies /\ (id \notin Hit(limit) => sent'[id] = sent[id])
    BY <1>1, <2>1, <2>2, <2>3
  <2> QED BY <2>4 DEF copies
<1> QED BY <1>2, <1>3

(* The invariant is kept.                                                  *)
LEMMA WorkKeeps ==
  ASSUME RepliesInv, NEW limit, NEW sandbox, Works(limit, sandbox)
  PROVE  RepliesInv'
<1>1. limit \in 1 .. Len(replies) /\ sandbox \in BOOLEAN
      /\ replies' = workReplyQueue(replies, limit, sandbox)
  BY DEF Works
<1>2. /\ replies' \in Seq(Items) /\ DOMAIN replies' = DOMAIN replies
      /\ \A i \in DOMAIN replies :
           /\ replies'[i].id = replies[i].id
           /\ replies[i].id \notin Hit(limit) => replies'[i] = replies[i]
           /\ replies[i].id \in Hit(limit) =>
                replies'[i].status = (IF sandbox THEN "skipped" ELSE "sent")
  BY <1>1, WorkedIs
<1>3. /\ DOMAIN sent' = DOMAIN sent
      /\ \A id \in DOMAIN sent :
           /\ sent'[id] \in Nat /\ sent'[id] <= Cardinality(Copies(replies, id))
           /\ id \notin Hit(limit) => sent'[id] = sent[id]
  BY SentStays
<1>4. DOMAIN sent = {replies[i].id : i \in DOMAIN replies}
  BY DEF RepliesInv
<1>5. {replies'[i].id : i \in DOMAIN replies'} = {replies[i].id : i \in DOMAIN replies}
  BY <1>2
<1>6. sent' \in [{replies'[i].id : i \in DOMAIN replies'} -> Nat]
  <2>1. sent' = [id \in DOMAIN sent |-> sent'[id]]
    BY DEF Works
  <2> QED BY <1>3, <1>4, <1>5, <2>1
<1>7. \A i, j \in DOMAIN replies' :
        replies'[i].id = replies'[j].id => replies'[i].status = replies'[j].status
  <2>1. \A i, j \in DOMAIN replies :
          replies[i].id = replies[j].id => replies[i].status = replies[j].status
    BY DEF RepliesInv
  <2> QED BY <1>2, <2>1
<1>8. \A i \in DOMAIN replies' : replies'[i].status = "queued" => sent'[replies'[i].id] = 0
  <2> SUFFICES ASSUME NEW i \in DOMAIN replies, replies'[i].status = "queued"
               PROVE  sent'[replies[i].id] = 0
    BY <1>2
  <2>1. replies[i].id \notin Hit(limit)
    BY <1>2
  <2>2. replies[i].status = "queued" /\ replies[i].id \in DOMAIN sent
    BY <1>2, <1>4, <2>1
  <2>3. sent[replies[i].id] = 0
    BY <2>2 DEF RepliesInv
  <2> QED BY <1>3, <2>1, <2>2, <2>3
<1>9. \A id \in DOMAIN sent' : sent'[id] <= Cardinality(Copies(replies', id))
  <2>1. \A id : Copies(replies', id) = Copies(replies, id)
    BY <1>2 DEF Copies
  <2> QED BY <1>3, <2>1
<1> QED BY <1>2, <1>6, <1>7, <1>8, <1>9 DEF RepliesInv

(* And nothing is passed over.                                             *)
LEMMA WorkInOrder ==
  ASSUME RepliesInv, NEW limit, NEW sandbox, Works(limit, sandbox)
  PROVE  TakenInOrder
<1> DEFINE S == selected(replies, limit)
           taken == {i \in waiting(replies) : replies'[i].status # "queued"}
           left == {i \in DOMAIN replies : replies'[i].status = "queued"}
<1>1. limit \in 1 .. Len(replies) /\ sandbox \in BOOLEAN
      /\ replies' = workReplyQueue(replies, limit, sandbox)
  BY DEF Works
<1>2. /\ DOMAIN replies' = DOMAIN replies
      /\ \A i \in DOMAIN replies :
           /\ replies'[i].id = replies[i].id
           /\ replies[i].id \notin Hit(limit) => replies'[i] = replies[i]
           /\ replies[i].id \in Hit(limit) =>
                replies'[i].status = (IF sandbox THEN "skipped" ELSE "sent")
  BY <1>1, WorkedIs
<1>3. /\ S \subseteq waiting(replies)
      /\ \A k \in S, j \in waiting(replies) \ S : replies[k].priority >= replies[j].priority
      /\ waiting(replies) # {} =>
           queued(replies) # <<>> /\ queued(replies)[1] \in selected(replies, limit)
  BY <1>1, SelectedIs
<1>4. S \subseteq taken /\ \A k \in S : replies[k].id \in Hit(limit)
  <2> SUFFICES ASSUME NEW k \in S PROVE k \in taken /\ replies[k].id \in Hit(limit)
    OBVIOUS
  <2>1. k \in waiting(replies) /\ k \in DOMAIN replies
    BY <1>3 DEF waiting
  <2>2. replies[k].id \in Hit(limit)
    BY DEF Hit
  <2> QED BY <1>2, <2>1, <2>2
<1>5. ASSUME NEW i \in taken, NEW j \in left
      PROVE  \E k \in taken : /\ replies[k].id = replies[i].id
                              /\ replies[k].priority >= replies[j].priority
  <2>1. i \in DOMAIN replies /\ replies[i].status = "queued" /\ replies'[i].status # "queued"
    BY DEF waiting
  <2>2. replies[i].id \in Hit(limit)
    BY <1>2, <2>1
  <2>3. PICK k \in S : replies[k].id = replies[i].id
    BY <2>2 DEF Hit
  <2>4. j \in waiting(replies) /\ replies[j].id \notin Hit(limit)
    BY <1>2 DEF waiting
  <2>5. j \notin S
    BY <1>4, <2>4
  <2> HIDE DEF S, taken, left
  <2> QED BY <1>3, <1>4, <2>3, <2>4, <2>5
<1>6. ASSUME taken # {} PROVE nextReply(replies)[1].id \in {replies[i].id : i \in taken}
  <2>1. queued(replies) # <<>> /\ queued(replies)[1] \in S
    BY <1>3, <1>6
  <2>2. nextReply(replies) = <<replies[queued(replies)[1]]>>
    BY <2>1 DEF nextReply
  <2>3. nextReply(replies)[1] = replies[queued(replies)[1]]
    BY <2>2
  <2> HIDE DEF S, taken
  <2> QED BY <1>4, <2>1, <2>3
<1>7. ASSUME NEW i \in DOMAIN replies, replies[i].status # "queued"
      PROVE  replies'[i].status = replies[i].status
  <2>1. replies[i].id \notin Hit(limit)
    BY <1>1, <1>7, HitsWait
  <2> QED BY <1>2, <2>1
<1>8. \A id \in DOMAIN sent : sent'[id] <= Cardinality({i \in DOMAIN replies : replies[i].id = id})
  BY SentStays DEF Copies
<1> HIDE DEF S
<1> QED BY <1>5, <1>6, <1>7, <1>8 DEF TakenInOrder

(* The invariant is kept, and nothing is passed over.                      *)
LEMMA RepliesKeep ==
  ASSUME RepliesInv, RepliesNext \/ UNCHANGED <<replies, sent>>
  PROVE  RepliesInv' /\ TakenInOrder
<1>1. CASE DraftReplies
  <2>1. TakenInOrder
    BY <1>1 DEF DraftReplies, TakenInOrder
  <2> QED BY <1>1, <2>1, DraftsBuild
<1>2. CASE WorkReplies
  BY <1>2, WorkIs, WorkKeeps, WorkInOrder
<1>3. CASE UNCHANGED <<replies, sent>>
  <2>1. replies' = replies /\ sent' = sent
    BY <1>3
  <2>2. RepliesInv'
    BY <2>1 DEF RepliesInv, Copies
  <2>3. \A id \in DOMAIN sent : sent[id] <= Cardinality({i \in DOMAIN replies : replies[i].id = id})
    BY DEF RepliesInv, Copies
  <2>4. {i \in waiting(replies) : replies'[i].status # "queued"} = {}
    BY <2>1 DEF waiting
  <2> QED BY <2>1, <2>2, <2>3, <2>4 DEF TakenInOrder
<1> QED BY <1>1, <1>2, <1>3 DEF RepliesNext

-----------------------------------------------------------------------------
(* The numbers, all of them: an experiment, the replies and the ledger     *)
(* share no variable.                                                      *)

GrowthNext == ExperimentNext \/ RepliesNext \/ Spend
GrowthSpec == GrowthInit /\ [][GrowthNext]_growth

GrowthInv == MeasuredInv /\ WeightsInv /\ RepliesInv /\ LedgerInv

LEMMA GrowthInvInitially == GrowthInit => GrowthInv
<1> SUFFICES ASSUME GrowthInit PROVE GrowthInv
  OBVIOUS
<1>1. MeasuredInv /\ WeightsInv /\ LedgerInv
  BY GrowthAssumption DEF GrowthInit, MeasuredInv, WeightsInv, LedgerInv
<1> QED BY <1>1, RepliesInvInitially DEF GrowthInv

(* Weights stay above 1.                                                   *)
LEMMA DecideKeeps == ASSUME MeasuredInv, WeightsInv, Decide PROVE WeightsInv'
<1>1. decisions' \in 0 .. MaxDecisions
  BY GrowthAssumption DEF Decide, WeightsInv
<1>2. /\ DOMAIN weights' \subseteq Variants
      /\ \A v \in DOMAIN weights' : weights'[v] \in Nat /\ weights'[v] > 100
  BY DecideIs DEF WeightsInv
<1> QED BY <1>1, <1>2 DEF WeightsInv

(* What each action leaves alone.                                          *)
LEMMA GrowthStepIs ==
  ASSUME [GrowthNext]_growth
  PROVE  /\ FetchAll \/ UNCHANGED <<measured, fetches>>
         /\ Decide \/ UNCHANGED <<weights, decisions>>
         /\ RepliesNext \/ UNCHANGED <<replies, sent>>
         /\ Spend \/ UNCHANGED ledger
<1>1. CASE FetchAll
  BY <1>1 DEF FetchAll
<1>2. CASE Decide
  BY <1>2 DEF Decide
<1>3. CASE RepliesNext
  BY <1>3 DEF RepliesNext, DraftReplies, WorkReplies, experiment
<1>4. CASE Spend
  BY <1>4 DEF Spend, experiment
<1>5. CASE UNCHANGED growth
  BY <1>5 DEF growth, experiment
<1> QED BY <1>1, <1>2, <1>3, <1>4, <1>5 DEF GrowthNext, ExperimentNext

(* Every step keeps the invariant, and does what the two properties say.   *)
LEMMA GrowthInvStep ==
  GrowthInv /\ [GrowthNext]_growth => GrowthInv' /\ EvidenceDecides /\ TakenInOrder
<1> SUFFICES ASSUME GrowthInv, [GrowthNext]_growth
             PROVE  GrowthInv' /\ EvidenceDecides /\ TakenInOrder
  OBVIOUS
<1>1. MeasuredInv /\ WeightsInv /\ RepliesInv /\ LedgerInv
  BY DEF GrowthInv
<1>2. MeasuredInv'
  <2>1. CASE FetchAll
    BY <1>1, <2>1, FetchAllKeeps
  <2>2. CASE UNCHANGED <<measured, fetches>>
    BY <1>1, <2>2 DEF MeasuredInv
  <2> QED BY <2>1, <2>2, GrowthStepIs
<1>3. WeightsInv'
  <2>1. CASE Decide
    BY <1>1, <2>1, DecideKeeps
  <2>2. CASE UNCHANGED <<weights, decisions>>
    BY <1>1, <2>2 DEF WeightsInv
  <2> QED BY <2>1, <2>2, GrowthStepIs
<1>4. RepliesInv' /\ TakenInOrder
  BY <1>1, GrowthStepIs, RepliesKeep
<1>5. LedgerInv'
  <2>1. CASE Spend
    BY <1>1, <2>1, SpendKeeps
  <2>2. CASE UNCHANGED ledger
    BY <1>1, <2>2 DEF LedgerInv
  <2> QED BY <2>1, <2>2, GrowthStepIs
<1>6. EvidenceDecides
  <2>1. Decide \/ UNCHANGED weights
    BY GrowthStepIs
  <2> QED BY <1>1, <1>2, <1>3, <2>1, EvidenceAlwaysDecides
<1> QED BY <1>2, <1>3, <1>4, <1>5, <1>6 DEF GrowthInv

(* The types follow.                                                       *)
LEMMA GrowthTypes == GrowthInv => GrowthTypeOK
<1> SUFFICES ASSUME GrowthInv PROVE GrowthTypeOK
  OBVIOUS
<1>1. \A p \in Posts : measured[p].count \in 0 .. fetches
  BY DEF GrowthInv, MeasuredInv
<1>2. \A i \in DOMAIN replies : replies[i].status \in {"queued", "sent", "skipped"}
  BY ItemIs DEF GrowthInv, RepliesInv
<1> QED BY <1>1, <1>2 DEF GrowthInv, MeasuredInv, WeightsInv, LedgerInv, GrowthTypeOK

(* Whatever is measured, decided and worked, in whatever order: no verdict *)
(* does more, or other, than its evidence says, and no reply is passed     *)
(* over, done twice or sent more often than its comment was listed.        *)
THEOREM NumbersAreFollowed ==
  GrowthSpec => [][EvidenceDecides]_growth /\ [][TakenInOrder]_growth
<1>1. GrowthInv /\ [GrowthNext]_growth => [EvidenceDecides]_growth /\ [TakenInOrder]_growth
  BY GrowthInvStep
<1>2. GrowthInv /\ [GrowthNext]_growth => GrowthInv'
  BY GrowthInvStep
<1> QED BY <1>1, <1>2, GrowthInvInitially, PTL DEF GrowthSpec

(* The breaker, the plan and the panel never contradict each other about   *)
(* the budget.                                                             *)
THEOREM BudgetAlwaysAgrees == GrowthSpec => []BudgetViewsAgree
<1>1. GrowthInv => BudgetViewsAgree
  BY BudgetAgrees DEF GrowthInv
<1>2. GrowthInv /\ [GrowthNext]_growth => GrowthInv'
  BY GrowthInvStep
<1> QED BY <1>1, <1>2, GrowthInvInitially, PTL DEF GrowthSpec

-----------------------------------------------------------------------------
(* The process.  Its parts share no variable, so a behaviour of it is one  *)
(* of each part, and what was proved of the parts holds of it.             *)

DraftsSpec == DraftsInit /\ [][DraftsNext]_texts

(* A step of the process is a step of each part, or none.                  *)
LEMMA PartsStep ==
  [Next]_all =>
    /\ [CallsNext]_<<calls, clock, limiter>>
    /\ [OperationsNext]_OperationsVars
    /\ [FilesNext]_filesVars
    /\ [GrowthNext]_growth
    /\ [DraftsNext]_texts
    /\ UNCHANGED doing
<1> SUFFICES ASSUME [Next]_all
             PROVE  /\ [CallsNext]_<<calls, clock, limiter>>
                    /\ [OperationsNext]_OperationsVars
                    /\ [FilesNext]_filesVars
                    /\ [GrowthNext]_growth
                    /\ [DraftsNext]_texts
                    /\ UNCHANGED doing
  OBVIOUS
<1> USE DEF OperationsVars
<1>1. CASE CallsMove /\ UNCHANGED doing
  BY <1>1 DEF CallsMove
<1>2. CASE ReleaseMove /\ UNCHANGED doing
  BY <1>2 DEF ReleaseMove, OperationsNext, network
<1>3. CASE PanelMove /\ UNCHANGED doing
  BY <1>3 DEF PanelMove, OperationsNext, ReleaseNext, network
<1>4. CASE FilesMove /\ UNCHANGED doing
  BY <1>4 DEF FilesMove, network
<1>5. CASE GrowthMove /\ UNCHANGED doing
  BY <1>5 DEF GrowthMove, GrowthNext, network
<1>6. CASE TextsMove /\ UNCHANGED doing
  BY <1>6 DEF TextsMove, network
<1>7. CASE UNCHANGED all
  BY <1>7 DEF all, network
<1> QED BY <1>1, <1>2, <1>3, <1>4, <1>5, <1>6, <1>7 DEF Next

(* The process implements each of its parts.                               *)
THEOREM ProcessImplementsParts ==
  Spec => CallsSpec /\ OperationsSpec /\ FilesSpec /\ GrowthSpec /\ DraftsSpec
<1>1. Init => CallsInit /\ OperationsInit /\ FilesInit /\ GrowthInit /\ DraftsInit
  BY DEF Init, OperationsInit
<1> QED BY <1>1, PartsStep, PTL
        DEF Spec, CallsSpec, OperationsSpec, FilesSpec, GrowthSpec, DraftsSpec

(* Whatever the model wrote, no text is too long for its platform; every   *)
(* locale has its one entry; and what is posted was shown.                 *)
THEOREM TextsAlwaysAsPrepared == Spec => []TextsAsPrepared
<1>1. DraftsSpec => []TextsAsPrepared
  BY DraftsInvInitially, DraftsInvStep, TextsArePrepared, PTL DEF DraftsSpec
<1> QED BY <1>1, ProcessImplementsParts, PTL

(* All types, of all parts.                                                *)
THEOREM ProcessTypeCorrect == Spec => []TypeOK
<1>1. Spec => [](doing \in Parts \cup Files)
  <2>1. Init => doing \in Parts \cup Files
    BY DEF Init
  <2>2. doing \in Parts \cup Files /\ [Next]_all => (doing \in Parts \cup Files)'
    BY PartsStep
  <2> QED BY <2>1, <2>2, PTL DEF Spec
<1>2. CallsSpec => []CallsTypeOK /\ []LimiterTypeOK
  BY CallsTypeCorrect, CallsImplementLimiter, LimiterTypeCorrect, PTL
<1>3. OperationsSpec => [](DeliveryTypeOK /\ PanelTypeOK)
  <2>1. OperationsTypeOK => DeliveryTypeOK /\ PanelTypeOK
    BY DEF OperationsTypeOK
  <2> QED BY <2>1, OperationsTypeCorrect, PTL
<1>4. GrowthSpec => []GrowthTypeOK
  <2>1. GrowthInv /\ [GrowthNext]_growth => GrowthInv'
    BY GrowthInvStep
  <2> QED BY <2>1, GrowthInvInitially, GrowthTypes, PTL DEF GrowthSpec
<1>5. DraftsSpec => []DraftsTypeOK
  BY DraftsInvInitially, DraftsInvStep, DraftsTypes, PTL DEF DraftsSpec
<1>6. /\ doing \in Parts \cup Files
      /\ CallsTypeOK /\ LimiterTypeOK /\ DeliveryTypeOK /\ PanelTypeOK
      /\ FilesTypeOK /\ GrowthTypeOK /\ DraftsTypeOK
      => TypeOK
  BY DEF TypeOK
<1> QED
  BY <1>1, <1>2, <1>3, <1>4, <1>5, <1>6, FilesTypeCorrect, ProcessImplementsParts, PTL

(* The operator's views of one state agree, in the panel and of the budget.*)
THEOREM ViewsAlwaysAgree == Spec => []ViewsAgree
<1>1. PanelViewsAgree /\ BudgetViewsAgree => ViewsAgree
  BY DEF ViewsAgree
<1> QED
  BY <1>1, PanelTellsOneStory, BudgetAlwaysAgrees, ProcessImplementsParts, PTL

(* What is done about ideas and comments follows from what was measured.   *)
THEOREM ProcessFollowsTheNumbers == Spec => FollowsTheNumbers
  BY NumbersAreFollowed, ProcessImplementsParts, PTL
     DEF FollowsTheNumbers, DecisionsFollowEvidence, RepliesInOrder

(* And of each part, what was proved of it.                                *)
COROLLARY ProcessKeepsItsPromises ==
  Spec => /\ []CallsAccounted /\ []AcquiredWithinRate
          /\ []ForwardOnlyWhenAllPass /\ []HistoryKept /\ []ExecutesOnlyHarmless
          /\ []FeedbackBackedByContent /\ []LossesHaveACause
  BY ProcessImplementsParts, CallsAreAccounted, CallsWithinRate, ForwardOnlyAfterGates,
     HistoryIsNeverLost, OnlyHarmlessIsExecuted, FeedbackAlwaysBacked, LossesExplained, PTL
=============================================================================
