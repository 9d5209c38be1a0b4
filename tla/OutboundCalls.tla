---------------------------- MODULE OutboundCalls ----------------------------
(***************************************************************************)
(* A process that talks to the network: the language model client, the     *)
(* crawler and its fallbacks, and the channels behind their registry and   *)
(* the publish agent's rate limiter.  The process does one kind of thing,  *)
(*                                                                         *)
(*   complete   OpenAICompatibleLlm.complete    core/src/llm.ts            *)
(*   probe      probeLlm, for `ima web'         core/src/llm.ts            *)
(*   crawl      CompositeCrawler.fetch          crawler/src/composite.ts   *)
(*   publish    the posts of PublishAgent.run   core/src/agents/publish.ts *)
(*   postAll    ChannelRegistry.postAll         publisher/src/registry.ts  *)
(*   doctor     ChannelRegistry.doctor          publisher/src/registry.ts  *)
(*   test       channelHealthCheck              core/src/channel-test.ts   *)
(*                                                                         *)
(* and the peer may answer with any status, break off, answer nonsense, or *)
(* never answer.  The model client and the crawler arm a timer for every   *)
(* request; a channel does not, and waits for its platform for ever.       *)
(***************************************************************************)
EXTENDS RateLimiter, Sequences, FiniteSets

CONSTANTS
  MaxRetries,   \* of the model client: 2 unless createLlm is told otherwise
  MaxRounds     \* bound: publish runs of a process, as in `ima web'

Platforms == Keys

ASSUME CallsAssumption ==
  MaxRetries \in Nat /\ MaxRounds \in Nat /\ IsFiniteSet(Platforms)

Commands == {"complete", "probe", "crawl", "publish", "postAll", "doctor", "test"}

Modes == {"stub", "real", "mixed", "unknown"}

(* What becomes of a request: the error a caller sees, or "ok".            *)
(*   aborted      the timer aborts it                                      *)
(*   network      fetch failed, or the connection was reset                *)
(*   terminated   the connection breaks off within the answer              *)
(*   unavailable  429, or 500 and above                                    *)
(*   refused      any other status that is not ok                          *)
(*   nonsense     ok, but an error, not JSON, or without the content       *)
(*   auth         nothing was sent: there is no credential                 *)
Errors == {"aborted", "network", "terminated", "unavailable", "refused", "nonsense"}
Statuses == {"ok", "unavailable", "refused"}

Backends == {"HttpCrawler", "PlaywrightCrawler", "Crawl4aiCrawler", "MockCrawler"}

VARIABLES
  command,    \* what the process does
  mode,       \* IMA_CHANNELS_MODE
  creds,      \* the platforms with a credential in the environment
  throttled,  \* a rate limiter is wired in
  phase,      \* "idle", "sent", "answering", "backoff", "settled"
  status,     \* the status that has arrived; "ok" between two posts
  timer,      \* the abort timer is armed
  attempt,    \* of the model client
  errors,     \* history: what the requests of this call failed with
  requests,   \* history: how many were sent
  chain,      \* the backends the crawler has left
  todo,       \* the platforms still to be called
  calling,    \* the platform whose answer is awaited
  rounds,     \* publish runs so far
  records,    \* the outcome for each platform: None, "posted", "noId", "failed"
  wire,       \* history: requests sent to each platform
  result      \* None, "ok" or the error that settled the call

None == "none"

request == <<phase, status, timer, requests>>
setting == <<command, mode, creds, throttled>>
posts   == <<todo, calling, rounds, records, wire>>
calls   == <<setting, request, attempt, errors, chain, posts, result>>

CallsTypeOK ==
  /\ command \in Commands /\ mode \in Modes /\ creds \subseteq Platforms
  /\ throttled \in BOOLEAN
  /\ phase \in {"idle", "sent", "answering", "backoff", "settled"}
  /\ status \in Statuses
  /\ timer \in BOOLEAN
  /\ attempt \in 0 .. MaxRetries
  /\ errors \in Seq(Errors) /\ requests \in Nat
  /\ chain \in Seq(Backends)
  /\ todo \subseteq Platforms /\ calling \in Platforms \cup {None}
  /\ rounds \in 0 .. MaxRounds
  /\ records \in [Platforms -> {None, "posted", "noId", "failed"}]
  /\ wire \in [Platforms -> Nat]
  /\ result \in Errors \cup {None, "ok", "auth"}
  /\ timer => phase \in {"sent", "answering"}

(* CompositeCrawler's constructor: the chain for the preferred backend.    *)
Chains ==
  {<<"HttpCrawler", "PlaywrightCrawler", "Crawl4aiCrawler">>,
   <<"PlaywrightCrawler", "HttpCrawler", "Crawl4aiCrawler">>,
   <<"Crawl4aiCrawler", "PlaywrightCrawler", "HttpCrawler">>,
   <<"MockCrawler">>}

(* Bound: the limiter is wired in together with the real channels and all  *)
(* credentials only; it looks at neither.  (createApp wires none.)         *)
CallsInit ==
  /\ LimiterInit
  /\ command \in Commands
  /\ IF command \in {"publish", "postAll", "doctor"}
     THEN mode \in Modes /\ creds \in SUBSET Platforms
     ELSE mode = "stub" /\ creds \in IF command = "test" THEN SUBSET Platforms ELSE {{}}
  /\ throttled \in IF command = "publish" /\ mode = "real" /\ creds = Platforms
                   THEN BOOLEAN ELSE {FALSE}
  /\ chain \in IF command = "crawl" THEN Chains ELSE {<<>>}
  /\ phase = "idle"
  /\ status = "ok"
  /\ timer = FALSE
  /\ attempt = 0
  /\ errors = <<>>
  /\ requests = 0
  /\ todo = {}
  /\ calling = None
  /\ rounds = 0
  /\ records = [p \in Platforms |-> None]
  /\ wire = [p \in Platforms |-> 0]
  /\ result = None

-----------------------------------------------------------------------------
(* A request: it is sent, answered by a status and then by a body, and may *)
(* break at any point.  Which error that is depends on the point.          *)

Send(armed) ==
  /\ phase' = "sent"
  /\ timer' = armed
  /\ requests' = requests + 1
  /\ UNCHANGED status

(* fetch resolves.                                                         *)
Answer ==
  /\ phase = "sent"
  /\ phase' = "answering"
  /\ status' \in Statuses
  /\ UNCHANGED <<setting, timer, requests, attempt, errors, chain, posts, result, clock, limiter>>

(* The request ends with e.  The text of a bad status is read with a catch *)
(* of its own, so that neither the timer nor a broken connection changes   *)
(* what it is about.                                                       *)
Ends(e) ==
  \/ phase = "sent" /\ e = "network"
  \/ phase = "sent" /\ timer /\ e = "aborted"
  \/ phase = "answering" /\ status = "ok" /\ e \in {"ok", "nonsense", "terminated"}
  \/ phase = "answering" /\ status = "ok" /\ timer /\ e = "aborted"
  \/ phase = "answering" /\ status # "ok" /\ e = status

-----------------------------------------------------------------------------
(* The language model client.                                              *)

isRetryable(e) == e \in {"unavailable", "aborted", "network"}

(* mutants: the loop runs once too often, or ends one attempt early.       *)
isLast_late(n) == n > MaxRetries
isLast_early(n) == n + 1 >= MaxRetries

isLast(n) == n = MaxRetries

(* mutant: the timer is armed once, before the first request.              *)
callOnce_armedOnce == Send(attempt = 0)

callOnce == Send(TRUE)

Complete ==
  /\ command \in {"complete", "probe"}
  /\ phase = "idle"
  /\ callOnce
  /\ UNCHANGED <<setting, attempt, errors, chain, posts, result, clock, limiter>>

(* callOnce returns or throws e; the timer is cleared either way.          *)
Completed(e) ==
  /\ command \in {"complete", "probe"}
  /\ Ends(e)
  /\ errors' = IF e = "ok" THEN errors ELSE Append(errors, e)
  /\ IF e = "ok" \/ ~ isRetryable(e) \/ isLast(attempt)
     THEN phase' = "settled" /\ result' = e
     ELSE phase' = "backoff" /\ UNCHANGED result
  /\ timer' = FALSE
  /\ UNCHANGED <<setting, status, requests, attempt, chain, posts, clock, limiter>>

(* sleep(200 * 3^attempt) is over: the next attempt.                       *)
Retry ==
  /\ phase = "backoff"
  /\ attempt' = attempt + 1
  /\ callOnce
  /\ UNCHANGED <<setting, errors, chain, posts, result, clock, limiter>>

(* probeLlm: what `ima web' is told of the model.  A status arrived with   *)
(* the last error, or none did.                                            *)
isLlmUnavailableError(e) == e = "unavailable"

probeLlm(e) ==
  [ok |-> e = "ok",
   reachable |-> e \in {"ok", "unavailable", "refused"},
   retryable |-> isLlmUnavailableError(e)]

-----------------------------------------------------------------------------
(* The crawler.                                                            *)

(* The chain goes on with what is left, or has failed.                     *)
NextBackend ==
  /\ chain' = Tail(chain)
  /\ IF Len(chain) = 1
     THEN phase' = "settled" /\ result' = "refused"
     ELSE phase' = "idle" /\ UNCHANGED result

(* HttpCrawler refuses to render; the other backends are stubs that        *)
(* answer by themselves.                                                   *)
Crawl ==
  /\ command = "crawl"
  /\ phase = "idle"
  /\ \/ /\ Head(chain) = "HttpCrawler"
        /\ \/ Send(TRUE) /\ UNCHANGED <<chain, result>>
           \/ NextBackend /\ UNCHANGED <<status, timer, requests>>
     \/ /\ Head(chain) # "HttpCrawler"
        /\ phase' = "settled"
        /\ result' = "ok"
        /\ UNCHANGED <<status, timer, requests, chain>>
  /\ UNCHANGED <<setting, attempt, errors, posts, clock, limiter>>

Crawled(e) ==
  /\ command = "crawl"
  /\ e # "nonsense"
  /\ Ends(e)
  /\ IF e = "ok"
     THEN phase' = "settled" /\ result' = "ok" /\ UNCHANGED chain
     ELSE NextBackend
  /\ timer' = FALSE
  /\ UNCHANGED <<setting, status, requests, attempt, errors, posts, clock, limiter>>

-----------------------------------------------------------------------------
(* The channels.                                                           *)

(* ChannelRegistry's constructor registers the real channels first, and    *)
(* then the stubs: of the two that `mixed' registers, the stub is left.    *)
registered(p) ==
  CASE mode = "real"             -> "real"
    [] mode \in {"stub", "mixed"} -> "stub"
    [] OTHER                     -> None

hasCredential(p) == p \in creds

Record(p, outcome) == records' = [records EXCEPT ![p] = outcome]

(* PublishAgent.run begins with all its targets, postAll and doctor with   *)
(* every channel there is.                                                 *)
BeginPosts ==
  /\ command \in {"publish", "postAll", "doctor"}
  /\ phase = "idle" /\ todo = {} /\ rounds < MaxRounds
  /\ rounds' = rounds + 1
  /\ todo' = IF command = "publish" THEN Platforms
             ELSE {p \in Platforms : registered(p) # None}
  /\ records' = [p \in Platforms |-> None]
  /\ UNCHANGED <<setting, request, attempt, errors, chain, calling, wire, result, clock, limiter>>

(* Settled without a request.                                              *)
AtOnce(p, outcome) ==
  /\ Record(p, outcome)
  /\ UNCHANGED <<request, calling, wire>>

(* A request that no timer guards.                                         *)
Ask(p) ==
  /\ Send(FALSE)
  /\ calling' = p
  /\ wire' = [wire EXCEPT ![p] = @ + 1]
  /\ UNCHANGED records

(* channel.post: no channel or no credential throws, a stub makes up a     *)
(* post, and a real channel asks its platform.                             *)
CallChannel(p) ==
  \/ registered(p) = None /\ AtOnce(p, "failed")
  \/ registered(p) = "stub" /\ AtOnce(p, "posted")
  \/ registered(p) = "real" /\ ~ hasCredential(p) /\ AtOnce(p, "failed")
  \/ registered(p) = "real" /\ hasCredential(p) /\ Ask(p)

(* One platform after another, in the order of the ideas or of the map.    *)
Take(p) ==
  /\ phase = "idle" /\ p \in todo
  /\ todo' = todo \ {p}
  /\ UNCHANGED <<setting, attempt, errors, chain, rounds, result, clock>>

PublishOne(p) ==
  /\ command = "publish"
  /\ Take(p)
  /\ \/ throttled /\ Refuse(p) /\ AtOnce(p, "failed")
     \/ throttled /\ Acquire(p) /\ CallChannel(p)
     \/ ~ throttled /\ CallChannel(p) /\ UNCHANGED limiter

PostOne(p) ==
  /\ command = "postAll"
  /\ Take(p)
  /\ CallChannel(p)
  /\ UNCHANGED limiter

(* The post is over.  An answer without the identifier is a post all the   *)
(* same, with an empty one.                                                *)
Posted(e) ==
  /\ command \in {"publish", "postAll"}
  /\ Ends(e)
  /\ \/ e = "ok" /\ \E outcome \in {"posted", "noId"} : Record(calling, outcome)
     \/ e # "ok" /\ Record(calling, "failed")
  /\ phase' = "idle"
  /\ calling' = None
  /\ status' = "ok"
  /\ UNCHANGED <<setting, timer, requests, attempt, errors, chain, todo, rounds, wire,
                 result, clock, limiter>>

(* healthCheck: only X is asked, the others count their credential.        *)
CheckOne(p) ==
  /\ command = "doctor"
  /\ Take(p)
  /\ \/ registered(p) = "stub" /\ AtOnce(p, "posted")
     \/ registered(p) = "real" /\ ~ hasCredential(p) /\ AtOnce(p, "failed")
     \/ registered(p) = "real" /\ hasCredential(p) /\ p # "x" /\ AtOnce(p, "posted")
     \/ registered(p) = "real" /\ hasCredential(p) /\ p = "x" /\ Ask(p)
  /\ UNCHANGED limiter

(* The status of X is its health and its body is not read; fetch that      *)
(* rejects is caught by nobody, and there is no report at all.             *)
Checked ==
  /\ command = "doctor"
  /\ \/ /\ phase = "answering"
        /\ Record(calling, IF status = "ok" THEN "posted" ELSE "failed")
        /\ phase' = "idle"
        /\ UNCHANGED <<result, todo>>
     \/ /\ phase = "sent"
        /\ phase' = "settled"
        /\ result' = "network"
        /\ UNCHANGED <<records, todo>>
  /\ calling' = None
  /\ status' = "ok"
  /\ UNCHANGED <<setting, timer, requests, attempt, errors, chain, rounds, wire,
                 clock, limiter>>

(* `ima channel-test': a platform with a probe and a credential is asked,  *)
(* whatever the mode; an unknown one has no credential either.             *)
Test(p) ==
  /\ command = "test"
  /\ phase = "idle"
  /\ \/ /\ p \in Platforms /\ hasCredential(p)
        /\ Ask(p)
        /\ UNCHANGED result
     \/ /\ p \notin Platforms \/ ~ hasCredential(p)
        /\ phase' = "settled"
        /\ result' = "auth"
        /\ UNCHANGED <<status, timer, requests, calling, wire, records>>
  /\ UNCHANGED <<setting, attempt, errors, chain, todo, rounds, clock, limiter>>

(* The status tells, and not the body, but the body is read to its end.    *)
Tested ==
  /\ command = "test"
  /\ \/ phase = "sent" /\ result' = "network"
     \/ phase = "answering" /\ result' \in {status, "network"}
  /\ phase' = "settled"
  /\ UNCHANGED <<setting, status, timer, requests, attempt, errors, chain, posts, clock, limiter>>

(* What channelHealthCheck reports, and the line that sums it up.          *)
channelHealth(e) ==
  [ok |-> e = "ok",
   retryable |-> e = "unavailable",
   skippedReason |-> IF e \in {"auth", "network"} THEN e ELSE None]

summarizeChannelHealth(es) ==
  [okCount |-> Cardinality({i \in DOMAIN es : channelHealth(es[i]).ok}),
   failCount |-> Cardinality({i \in DOMAIN es : ~ channelHealth(es[i]).ok}),
   retryableCount |-> Cardinality({i \in DOMAIN es : channelHealth(es[i]).retryable})]

-----------------------------------------------------------------------------
(* What the timer does to a request: while the text of a bad status is     *)
(* read, it only cuts the text short.                                      *)
TimerFires ==
  LET e == IF phase = "answering" /\ status # "ok" THEN status ELSE "aborted"
  IN  timer /\ (Completed(e) \/ Crawled(e))

(* Bound: the clock moves between two posts, not during one, which does    *)
(* not look at it.                                                         *)
CallsNext ==
  \/ Complete \/ Retry \/ Crawl \/ BeginPosts
  \/ Answer
  \/ \E e \in Errors \cup {"ok"} : Completed(e) \/ Crawled(e) \/ Posted(e)
  \/ Checked
  \/ Tested
  \/ \E p \in Platforms \cup {None} : Test(p)
  \/ \E p \in Platforms : PublishOne(p) \/ PostOne(p) \/ CheckOne(p)
  \/ throttled /\ phase = "idle" /\ LimiterStep /\ UNCHANGED calls

(* The process runs, and its timers fire; of a peer nothing is assumed.    *)
CallsFairness ==
  /\ WF_<<calls, clock, limiter>>(TimerFires)
  /\ WF_<<calls, clock, limiter>>(Complete)
  /\ WF_<<calls, clock, limiter>>(Retry)
  /\ WF_<<calls, clock, limiter>>(Crawl)

CallsSpec == CallsInit /\ [][CallsNext]_<<calls, clock, limiter>> /\ CallsFairness

-----------------------------------------------------------------------------
(* Properties                                                              *)

(* The error complete throws is that of its last request, every earlier    *)
(* one was worth another try, and it gives up on an error worth a try only *)
(* after maxRetries more of them.                                          *)
LastErrorTold ==
  command \in {"complete", "probe"} /\ phase = "settled" =>
    /\ requests = Len(errors) + (IF result = "ok" THEN 1 ELSE 0)
    /\ result # "ok" => result = errors[Len(errors)]
    /\ \A i \in 1 .. Len(errors) :
         ~ isRetryable(errors[i]) => i = Len(errors) /\ result # "ok"
    /\ isRetryable(result) => requests = MaxRetries + 1

(* A platform is asked only with its credential and, but for a test of it, *)
(* only in a mode that has real channels.                                  *)
AskedOnlyWithCredential ==
  \A p \in Platforms :
    wire[p] > 0 => p \in creds /\ (mode \in {"real", "mixed"} \/ command = "test")

(* A probe and a test call nothing retryable but what answered and was, by *)
(* the client's own rule, worth another try; the probe then has had them   *)
(* all, and the test counts a platform that was asked just once.           *)
VerdictsEarned ==
  phase = "settled" =>
    /\ command = "probe" =>
         /\ probeLlm(result).retryable =>
              /\ probeLlm(result).reachable /\ ~ probeLlm(result).ok
              /\ isRetryable(result) /\ requests = MaxRetries + 1
         /\ probeLlm(result).ok => requests = Len(errors) + 1
    /\ command = "test" =>
         LET told == channelHealth(result)
             sum  == summarizeChannelHealth(<<result>>)
         IN  /\ told.skippedReason = "auth" <=> requests = 0
             /\ told.skippedReason = None => requests = 1 /\ result = status
             /\ sum.okCount + sum.failCount = 1
             /\ sum.retryableCount <= sum.failCount

(* Nothing leaves the process but what the caller learns of and has        *)
(* credentials for.                                                        *)
CallsAccounted == LastErrorTold /\ AskedOnlyWithCredential /\ VerdictsEarned

(* What the comment on createRegistryFromEnv says of the modes `real' and  *)
(* `mixed': where the environment has the credential, the real channel     *)
(* takes precedence, so that a post on record went over the wire.  (It     *)
(* does not hold: in the mode `mixed' the stubs are registered last.)      *)
RealTakesPrecedence ==
  \A p \in Platforms :
    /\ command \in {"publish", "postAll"} /\ mode \in {"real", "mixed"} /\ p \in creds
    /\ records[p] \in {"posted", "noId"}
    => wire[p] > 0

(* Whatever the peer does, a call of the model and a crawl end: the        *)
(* pipeline never waits for them for ever.  Nothing of the kind holds of a *)
(* post, which has no timer.                                               *)
CallsSettle ==
  command \in {"complete", "probe", "crawl"} ~> phase = "settled"
=============================================================================
