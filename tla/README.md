# A TLA+ model of influencer-multi-agent

This directory holds the formal model of the repository: TLA+ modules written
from the code under `packages/` and `apps/`, TLC configurations that
model-check them on small instances, and proofs that TLAPS checks for every
instance. Source paths below are relative to `packages/` unless they start with
`docs/`, `apps/` or name the repository's `README.md`.

## 1. The system and its parts

The program takes a topic through a pipeline (research, ideas, draft,
translation, review, publication, audit), publishes the result on social
platforms, measures it, and keeps everything as files under `.ima/`. There is
no database and no lock: every command (`ima run`, `ima step`, `ima queue
work`, `ima queue prune`, `ima feedback`, `ima reply`, ...), the web server and
the queue daemon are separate processes that read, change in memory and write
back the same files.

| part | code | state | operations | what makes it correct |
|---|---|---|---|---|
| publish queue rows | `core/src/publish-queue.ts` | one record per row: status, attempts, next attempt, error, post id | create, record a failure or a success, due rows, `processQueue` | attempts, status and error agree; terminal rows stay terminal |
| queue store, worker, prune | `cli/src/queue-store.ts`, `queue-worker.ts`, `index.ts` | files `.ima/queue/*.json`; a snapshot per process | list, replaceAll, write, remove; `runOnce`; prune | a row is published once unless something fails; no row is lost |
| worker loop | `cli/src/queue-worker-loop.ts` | `running`, one remembered timer | start, stop, runOnceAndWait, ticks, timers | keeps ticking until stopped, stops when told, one chain of ticks |
| queue daemon | `cli/src/queue-daemon.ts`, `docs/queue-daemon.*` | the process | launch, signals, exit, supervision | keeps working; a stop loses nothing |
| pipeline and state machine | `core/src/pipeline.ts`, `state-machine.ts` | a content: stage, results of the agents, revision count | `step`, `run`, `dispatch` | legal transitions; nothing unreviewed is published; runs end |
| agents | `core/src/agents/*` | none | one call per stage | the publish agent posts and leaves a queue row per platform |
| texts | `core/src/translate.ts`, `platform-adapter.ts`, `dry-run.ts` | translations and overrides of a draft | translate, adapt, preview | what is previewed is what is posted, and it fits |
| content commands | `cli/src/index.ts`, `app.ts` | files `.ima/content/*.json` | run, step, feedback, reply, ... | overlapping commands do not break the above |
| web server | `cli/src/web-server.ts` | none of its own | bulk actions, lists, statistics, event stream, production panel | bulk edits follow the rules; a broken file costs one answer |
| web page and helpers | `apps/web/app.js`, `core/src/web-console.ts`, `web-stats.ts` | panels, a live badge, an `EventSource` | buttons, refreshes, the events of the stream | the panels show the files as they are in the end |
| model client | `core/src/llm.ts` | attempt, abort timer | complete, probe | retries bounded; the last error is the one told; it returns |
| rate limiter | `core/src/rate-limit.ts` | token buckets | tryAcquire, getStats, reset | never more than the bucket and the time since are worth |
| channels, registry, channel test | `publisher/src/*`, `core/src/channel-test.ts` | channel table | post, postAll, doctor, probe | the intended channel is asked, and only with a credential |
| crawler | `crawler/src/*` | none | fetch with fallbacks | it ends; the first backend that answers wins |
| browser MCP server | `browser-mcp/src/*` | the listening socket, SSE sessions, a browser | start, stop, GET, POST, DELETE; JSON-RPC also over stdio | an event stream ends exactly once; stop completes; an answer per message |
| feedback, metrics, ledgers, vault, personas | `core/src/feedback-store.ts`, `persistent-metrics.ts`, `roadmap.ts`, `cli/src/v12-helpers.ts`, `app.ts` | six files of `.ima`, and the contents | read, change, write back | a loss has a cause, and is not hidden |
| experiments and ranking | `core/src/ab-test.ts`, `idea-ranker.ts`, `production-automation.ts` | measurements, weights | aggregate, decide, rank | decisions follow what was measured |
| replies and budget | `core/src/roadmap.ts`, `production-automation.ts` | reply queue, token ledger | draft, work; spend, degrade | in order of priority, each once; one verdict on a budget |
| delivery evidence | `core/src/delivery-evidence.ts`, `production-automation.ts` | gates, CI run, history | acceptance, plans, compaction | nothing goes forward unless everything passed |
| production operations | `core/src/production-ops.ts` | credentials, approvals, artifacts | a dozen views, safe execution | the views tell one story; nothing risky is executed |

What is hard here is seldom a single function. It is the order in which several
processes touch one file; a process that dies between a post, which cannot be
undone, and the save that records it; a file caught half-written; timers that
outlive what armed them; answers that overtake each other; several views of one
state, each with a rule of its own; and long sequences of legal commands.
`PROJECT.json` lists these hazards one by one, each with its line and the
properties that watch over it.

## 2. The modules

```
PublishQueue            rows and the pure functions on them
  QueueWorker           the directory and its processes       (MCQueueWorker)
    QueueDaemon         loop + worker + process + supervisor  (MCQueueDaemon, MCWorkerLoop)
  ContentPipeline       one content from intake to done       (MCContentPipeline)
WorkerLoop              the loop; extended by QueueDaemon
QueueLifecycle          what the queue promises per row; QueueWorker implements it
WebConsole              page, server, files                   (MCWebConsole)
McpHttp, McpStdio       the browser server's two transports   (MCMcpHttp)
Process                 the parts of a process                (MCProcess)
  RateLimiter           token buckets
    OutboundCalls       calls to the network; implements RateLimiter
  DeliveryEvidence      gates, plans, history
    ProductionOps       the operator's panel
  SharedFiles           the contents and six more files that commands share
  Sorting               what Array.prototype.sort comes to
    Growth              decisions on measurements
    Drafts              the text each platform gets
```

Proofs are in `PublishQueueProofs`, `QueueWorkerProofs` (also of the daemon),
`WorkerLoopProofs`, `ContentPipelineProofs`, `McpProofs` (both transports),
`OperationsProofs` (shared files, release and panel; and what sums and sorts
give), `ProcessProofs` (calls and limiter, texts, numbers, and the process they
are parts of) and `WebConsoleProofs`.

`PublishQueue` is extended by the queue and by the pipeline, so that the rows
the pipeline leaves behind and the rows the worker takes up are made by the
same operators. `QueueDaemon` extends both `QueueWorker` and `WorkerLoop`: the
workers are among the chains of the loop, and a step of the daemon is a step of
both. `OutboundCalls` extends `RateLimiter`: a post acquires from the limiter in the
same step in which it is sent or refused. `Process` puts components next to
each other that share nothing; a behaviour moves one of them (`doing`), so that
the state space is their sum and not their product. `MCMcpHttp` does so with the
two transports, `MCWorkerLoop` with the loop in other hands and the daemon, and
`MCWebConsole` with the console and the other files that commands share.

A name with a suffix after an underscore, placed before the definition it
resembles (`isDue_postedToo`, `start_unchecked`), is a deliberately wrong
variant: no specification uses it. It shows which slip in the code a property
would notice.

### PublishQueue

`RowType` is `QueueItem` without what never changes (content, platform and
payload: the row's identity stands for them) and without what nothing reads
back (`url`, `postedAt`, `enqueuedAt`). Times are natural numbers. `postId` is
`"id"` or `None`. `createQueueItem`, `recordAttemptFailure`,
`recordAttemptSuccess` and `isDue` are the functions of the same names.

### QueueWorker

`disk[r]` is the file of a row: `Absent`, `Torn` (empty or unparsable) or a
row. Each process has a program counter `pc`, the snapshot `snap` that
`list()` returned, the rows `todo` it has left in its current phase, the time
`started` read by `processQueue`, and the row file `fd` it has open.

| actions | code |
|---|---|
| `StartList`, `ListRow`, `ListThrows` | `QueueStore.list`: readdirSync, then one readFileSync after the other |
| `ScanEmpty`, `SelectDue`, `Post`, `EndPosting` | `PublishWorker.runOnce` and `processQueue` |
| `OpenRow`, `WriteRow` | `replaceAll`, one writeFileSync per row of the snapshot, the untouched ones too |
| `SelectDead`, `RemoveRow` | `ima queue prune` |
| `EnqueueFresh`, `SinkPosted`, `SinkFailed`, `CrashInEnqueue` | the writers of new rows: `queue-smoke.ts` and the publish agent's sink |
| `Crash`, `Tick` | a process is killed; the clock moves |

The steps are as fine as another process can observe them: a write is an open
that truncates and a write that fills. Two writers of one file may leave a text
that does not parse (`Written`); a file removed under a writer goes on as an
`Orphan` without a name. A call of a channel ends `"ok"`, by an exception
(`"throw"`), with the post published and the answer lost (`"lost"`), or with a
record of status failed and no exception (`"failed_record"`).

`QueueLifecycle` is the abstract specification: a row waits, is posted, or is
dead after exactly `MaxAttempts` tries; posted is final, and a dead row may only
be pruned. `QueueWorker` with one worker implements it, also next to a prune and
crashes: the refinement mapping reads a row from its file or, while the file is
being written, from what is about to be in it (`View`). Because `replaceAll`
does not look whether a file is still there, a pruned row may reappear; the
abstract specification says that it does so dead and not waiting to be posted
again.

### WorkerLoop and QueueDaemon

JavaScript runs one callback at a time, so that an action of `WorkerLoop` is
the code between two returns to the event loop. A *chain* is what one `start()`
begins: tick, timer, tick, ... The code has no name for it; it matters because
`stop()` then `start()` during a tick leads to two.

In `QueueDaemon` a chain ticks while its worker is inside `runOnce`. `Drained`
is Node's own exit with status 0 when nothing is armed and nothing in flight;
`Supervise` is systemd (`Restart=on-failure`) or pm2 (`autorestart`), by the
constant `RestartAlways`. Calls of a channel never wait for ever here: each is a
fetch that ends or fails. (The code gives it no timeout; `OutboundCalls` keeps
that, and promises no end of a post.)

### ContentPipeline

`file` is `.ima/content/<id>.json`. A command loads it into `mem`, works, and
saves; `left` is the `safety` counter of `Pipeline.run`, or `None` in a single
`step`. Every stage of `Pipeline.dispatch` is an action of that name;
`BeginPublish`, `PostOne`, `EndPublish` split the publish stage at the awaits of
the publish agent, where other processes and crashes come in between.
`StartBulk` is the web server's `apiBulk` for one content, `StartEngagement`
the load of `ima feedback`. The worker of the queue appears as
`WorkerAttempt` and `WorkerCrash` on the rows that were sunk.

What is abstracted:

- A text is `"good"` or `"poor"`, by whether the four checks of the review
  agent pass. Prompts, audit notes and history are left out; translations,
  schedules and what the text becomes on a platform are in `Drafts`.
- The ideas count by the platforms they target.
- A save of a content is one step that may tear the file when it is killed;
  overlapping writes of one file are modelled in `QueueWorker` and `SharedFiles`.
- The worker attempts a row "some time later": the times of the rows are left
  out. What it does to one row is what `QueueLifecycle` allows, and that is
  checked of one worker.
- Here a channel posts or throws; a channel that returns a failed record
  without throwing is modelled in `QueueWorker`. A refusal by the rate limiter
  is a `"throw"`.
- Row identifiers are unique: the code's (a second and four random characters)
  may in principle collide.

### McpHttp and McpStdio

`stage[c]` follows a request: its body is read, its handler is under way, it is
a stream, or it has its plain answer. `socket` is Node's server and `listening`
the field of that name, which lags behind it while `stop()` waits. `sessions`
is the map of that name; `sid[c]` is what `startSseSession` drew for `c`, from a
set as small as one wishes because the code's draw is not unique. `closed`,
`beating` and `aging` are what each session's closure holds: its `closed` flag,
its interval, its age timer, which is never cleared. `cleanup` is one operator
called by four actions, as in the code. Node is external: it reports `"close"`
of a request when the connection breaks or when the request is complete, so
that a session may be created after its only `"close"`; whether `server.close`
still waits for such a connection is left open (`Open`, `Stopped`).

Left out: `/health`, unknown paths and methods, which are answered at once and
change nothing; the content of what is answered; a DELETE with an unknown
identifier, for the same reason.

`McpStdio` is the line loop of `cli.ts` with `server.ts` and the stub browser:
`ReadLine` collects lines until one ends in `}`, and takes what it has for a
message; `dispatch` begins the handler in the same step, because a handler runs
synchronously up to its first await; `Settles` is its answer, in any order. A
message is represented by how many lines it takes and which of them end in `}`.

### WebConsole

The page sends requests one after the other for a button (`Press`, `Loaded`) and
all at once for a snapshot of the event stream (`Snapshot`, `Refreshed`); the
server runs one handler at a time, which lists a directory and reads file by
file (`Serve`, `ListNext`, `ReadFile`, `Answer`), while other processes truncate,
fill and remove files, or die doing it. A file that does not parse, or a row
that is gone, makes the answer a 500. `/api/events` answers with one event and
ends. The page takes that as three events of its `EventSource`, with other work
in between: `open` (`StreamOpens`), `snapshot` (`Snapshot`) and, because the
answer has ended, `error` (`StreamEnds`), after which the browser asks again
(`Connect`). Each of them writes the live badge, `shown["badge"]`, as the code's
listeners do: "connected", the counts, "reconnecting"; a panel load that fails
during the refresh writes "parse error" (`Refreshed`; `caught` keeps it to one
per refresh, as the `await` of `Promise.all` does). An answer that is not a
stream also ends in `error` (`StreamFails`), and the browser never asks again.

A bulk request comes from a button of the page or from another client
(`ClientAsks`), and `where` is the stage in its body: the page names "review"
for a pause and none for the rest, others may name any or none. `apiBulk` saves
one content before it reads the next (`SaveMoved`). `nextStage` and `reduced`
are core's `reduceBulkContentAction`, the second implementation of the bulk
buttons. The two differ in one case, a pause that takes in a content that is
done: the server takes it back to needs_revision, the reducer leaves it done.
`expected` states that difference. The tests pause with the stage "review" only
(`core/test/web-console.test.ts`), and no document says which of the two is
meant.

### RateLimiter and OutboundCalls

`RateLimiter` is `TokenBucketLimiter` with a clock that may be set back. Tokens
are counted in units small enough to be whole; `made`, `high` and `spent` are
history.

In `OutboundCalls` a process does one thing (`command`): it completes or probes
the model, crawls, publishes, posts to all channels, is the doctor, or tests a
channel. A request is sent, then a status arrives, then a body; `Ends(e)` says
which error each point may lead to, and which of them the abort timer makes.
The timer guards model and crawler and nothing else. `registered` is the table
that `ChannelRegistry`'s constructor leaves, `CallChannel` a post through it.
`probeLlm` and `channelHealth` are the verdicts the callers are shown. The
backoff between two attempts has no length here.

### SharedFiles

Files with one life: a command reads the whole file, changes it in memory and
writes it back (`Read`, `Open`, `Write`). They differ in what is made of a file
that does not parse: ledgers are appended to unread, a content and feedback.json
make their command throw, personas and secrets start anew. `Contents` is a file
by what can be parsed of it. `Kill` may leave a file blank or a beginning of
the text, `Written` the mixture of two. Commands on different files do not
meet, so that a behaviour of the run is about one of them; the contents and
feedback.json are the exception, as `ima feedback` goes from one to the other.

`ima feedback` is five steps: it loads the content (`LoadContents`), awaits the
tracker and pushes the metric to the content it has loaded (`Fetch`), saves that
content whole (`Open`, `Write`), then reads, merges and writes feedback.json
(`ReadFeedback` or `ReadThrows`, `Open`, `Write`). Of the contents there is one,
with one post, and of it the engagement: `ReadContent` is the load of a step or
of a bulk action, which saves the engagement as it was loaded, whatever else it
changes. Between a load and its save another command may save the content too,
and the later save drops the metric of the earlier, which feedback.json keeps.

### DeliveryEvidence, ProductionOps, Growth, Drafts

These files are pure functions for the most part, and here pure operators of the
same names. The steps around them are what happens between two calls: gates run
again, a CI run ends, a delivery is entered into the history; a token is set, an
action proposed, artifacts ingested; `ima feedback` fetches, a verdict is
applied, replies are worked, tokens are spent; a content is drafted again,
previewed, published. Numbers are kept where a rule compares them: scores in
twentieths, weights in hundredths, ideas in thousandths, texts by what they were
put together from and their length in UTF-16 units, with `"glue"` for what is put
in between. Wording, commands that are only listed, and layout are left out.

A sort of the code is `Sorted(S, order)`: the elements of a set, each at the place
that the number of those before it says; that a sort is stable is part of the
order. Queues are worked by position (`queued`, `selected`), because two replies
may have the same identifier.

## 3. What is checked

| run | instance | what it shows |
|---|---|---|
| `QueueSingle` | 2 rows, 1 worker, 1 prune, limit 1, 2 attempts, clock to 2, 2 faults | a row is published at most once per fault (`AtMostOncePerFault`), only when its file says it is due (`PublishesOnlyDueRows`); rows survive; a row posted under an identifier was published; rows live as `QueueLifecycle` allows (`LifecycleSpec`) |
| `DaemonPm2` | 2 rows, one without a channel, limit 1, 1 daemon, 1 prune, 1 crash, operator may stop; or the loop in other hands, 3 chains, ticks that throw | chains are bounded by the stops that left one behind (`ChainsBounded`); no tick begins after `stop()` (`NoTickAfterStop`); a loop keeps ticking (`KeepsTicking`); a stopped loop ends (`StopsAll`); a daemon that is always restarted keeps working (`DaemonKeepsWorking`); every due row is attempted, also behind one that fails again and again (`DaemonAttemptsDueRows`) |
| `PipelineShared` | 2 platforms, 2 commands at once and 4 in all, 4 rows, 2 faults, all bulk actions | only reviewed drafts are published; at most one publication per entry of the publish stage and fault; failed posts are queued; done has a reason; the safety counter never decides |
| `McpSessions` | HTTP: 3 requests, 2 identifiers; stdio: 3 messages in 4 layouts, 4 methods | a stream is ended once and never written to afterwards; the map is exact, up to colliding identifiers; every stream ends, also one that missed its `"close"`; `stop()` completes; a message laid out as the loop expects is answered once; a snapshot shows the last page before it |
| `Process` | see `Process.cfg` | network: `AcquiredWithinRate`, `CallsAccounted`, `CallsSettle`; release: `ForwardOnlyWhenAllPass`, `HistoryKept`; panel and budget: `ViewsAgree`, `ExecutesOnlyHarmless`; experiments and replies: `FollowsTheNumbers`; texts: `TextsAsPrepared` |
| `WebConsole` | 1 content, 1 row, 2 panels and the badge, 1 other client, 2 events from outside; or the shared files: 2 processes, 3 commands, 2 kills, clock to 2 | the panels show the files in the end although loads fail and answers overtake each other, and the badge tells the counts again and again, which is all it can (`PageCatchesUp`, of the parts `PanelsCatchUp` and `BadgeComesBack`); a bulk request does what core's reducer does, but for done contents (`BulkAsReduced`). Of the files, a loss has a cause, an overlap or a kill, and a half-written ledger is not hidden (`LossesHaveACause`); a record of feedback.json was saved with its content first and is lost there only for such a cause (`FeedbackBackedByContent`) |

Properties that are conjunctions gather one hazard each:

- `CallsAccounted`: the error told is that of the last request, retries stop
  where they should (`LastErrorTold`); nothing leaves the process without a
  credential, nor in the mode `stub` but by the channel test
  (`AskedOnlyWithCredential`); the verdicts of probe and
  channel test are earned (`VerdictsEarned`).
- `ViewsAgree`: every view of the panel counts the same credentials, approvals
  and runs, ready means ready, and the budget breaker and the provider plan
  decide alike (`PanelViewsAgree`, `BudgetViewsAgree`).
- `FollowsTheNumbers`: a verdict raises one variant, is not contradicted by the
  report for equally sampled variants, and never pushes the winner's ideas back;
  history moves an idea past a better one by three tenths at most; replies go out
  by priority, each copy once (`DecisionsFollowEvidence`, `RepliesInOrder`).
- `TextsAsPrepared`: texts fit, each locale has one entry and the fallbacks are
  told, and what a dry run shows is what is posted (`TextsFit`,
  `TranslationsTold`, `PreviewedAsPosted`).

Six more runs state what a document or a comment of the repository says and
find that the code does otherwise:

| run | the statement | what happens |
|---|---|---|
| `QueueRace` | posted and failed_dead are terminal (`core/src/publish-queue.ts:19-26`) | of two overlapping workers the slower one writes a posted row back as failed_retry |
| `DaemonSystemd` | "daemon must not die on a single bad cycle" (`cli/src/queue-worker-loop.ts:49`) | a throwing tick schedules no successor; the process exits with status 0 and systemd leaves it at that |
| `DaemonStop` | SIGINT and SIGTERM stop gracefully (the repository's `README.md:283`) | `process.exit(0)` between a post and the save: the next daemon posts the row again |
| `PipelineBulk` | any illegal transition throws (`docs/architecture.md:85`) | a bulk pause saves a stage that TRANSITIONS does not allow |
| `PipelineRepost` | one row per content and platform (`core/src/publish-queue.ts:20`) | a step after all posts failed posts again and sinks a second row |
| `ChannelsMixed` | in the modes real and mixed the real channel takes precedence (`publisher/src/registry.ts:93`) | in the mode mixed the stubs are registered last and win: with a credential set, a post is on record that nobody sent |

**Bounds.** `MaxTime` and `MaxClock` stop the clock, `MaxFaults` bounds crashes,
lost answers and failed sinks, `MaxSent` is where the history `sent` stops
counting (larger than any count the property of the run could miss),
`MaxCommands` bounds the commands started, `MaxLeftovers` the stops that leave a
chain. Two attempts are enough for a first failure, a backoff and a dead row;
two rows with limit 1 are enough for one row to be passed over and for a save to
rewrite a row it did not touch; two workers for any overtaking. `MaxRevisions =
1` gives both an uncapped and a capped revision; the code uses 2. A run takes at
most `6 + 3 * MaxRevisions` rounds: the `Safety = 10` of `PipelineShared` is one
more than that, so that one superfluous round would show, and the code's 32
covers up to 8 revisions. `BaseDelay = 1` and `MaxDelay = 2` make the third
attempt meet the cap of the backoff. Three requests and two identifiers are the
least with which two streams share an identifier while a third has its own;
after its second signal a request has sent both its `"close"` and its `"error"`.
Three messages are enough for a badly laid out one to spoil its successor and
for a third to be whole again.

In `Process.cfg`: `MaxRetries = 2` is the code's default; two publish rounds
meet a bucket that the first has emptied (`Capacity = Cost`) and a clock set
back (`MaxClock = 2`); two platforms, of which the doctor asks only `x`; two
gates, one CI job, two proposals (one to confirm the other with); three rows of
history, split at every place. Two variants over three posts are sampled unevenly, two fetches and two
decisions let a later verdict meet the weights of an earlier one; the ideas lie
a rounding apart (650 and 651) and against the cap (900, 901). The lengths of
drafts lie just below and beyond the limits of the platforms. Constants that are
records or sequences are the definitions `MC...` of `MCProcess`.

The shared files take two commands and one kill in `Process.cfg`, for types and for
their steps next to the rest. What becomes of them is checked in `WebConsole.cfg`:
two processes with three commands in all are the least with which one overlaps
another and a third comes after, and two kills leave one file torn twice or two
files torn. A window of 1 on a clock to 2 lets a record age out; the clock counts
days, and stands still while a command is under way. The processes are alike, so
that of two idle ones only the first begins a command.

In `WebConsole.cfg` the other client asks for a pause without a stage, the one
request for which server and reducer differ; the page's own pause, with the
stage "review", is beside it. Three stages are those that pause, resume and the
difference between the two implementations tell apart.

Deadlock is checked except where the model really stops: the pipeline after
`MaxCommands` commands with all rows terminal, a command of `Process` that has
ended, a console whose stream was refused with nothing left to press.

**Fairness.** `LoopFairness` assumes that an armed timer fires and a tick ends,
and `MCSpec` of `MCWorkerLoop` the same of the loop in other hands.
`DaemonFairness` assumes it of the daemon together with its supervisor, and
that time passes. `McpHttp!Fairness` assumes that a handler settles, an age timer
fires, `server.close` calls back once no connection can be left, and a body ends
or Node's request timeout gives it up; nobody is assumed to close or delete a
stream, so that the age timer alone carries `StreamsEnd`: without it
`StopCompletes` fails too. `CallsFairness` assumes that the process runs and its
abort timer fires, and nothing of the peer: that is why `CallsSettle` speaks of
the model and the crawler, and of no post. `ConsoleFairness` assumes that the
server works, answers arrive and the browser reconnects; nobody presses a
button, restarts the server or repairs a file. No fairness is assumed of a
crash, a prune, an operator, a new row, or of one outcome rather than another.

## 4. What is proved

The proofs are checked by TLAPS with Z3, Zenon and LS4, for any sets of rows,
workers, prunes, commands, platforms, requests, messages, processes, gates,
connectors and actions and any bounds, from the assumptions named in the modules
(`QueueAssumption`, `WorkerAssumption`, `LoopAssumption`, `PipelineAssumption`,
`McpAssumption`, `StdioAssumption`, `LimiterAssumption`, `CallsAssumption`,
`FilesAssumption`, `DeliveryAssumption`, `ProductionAssumption`,
`GrowthAssumption`, `DraftsAssumption`, `ConsoleAssumption`, `DaemonAssumption`), which TLC evaluates on every run. `QueueAssumption`
includes that `3^n` is a natural number, as the provers do not know
exponentiation. A theorem with a hypothesis of its own says so below:
`OneWorker` is one worker process, `~ MayStop` a daemon that nobody signals, and
the runs `QueueRace` and `DaemonStop` show what happens without them.

**The queue** (`QueueWorkerProofs`).

- `TypeCorrect` and `RowsAlwaysConsistent` follow from the inductive invariant
  `RowInv`. `RowsConsistent` is not inductive alone: that a failed attempt leaves
  a consistent row needs that the row taken up was due, hence not terminal and
  with attempts left, hence that `todo` holds rows of the snapshot and, while
  posting, due ones only. That in turn needs where each process is (`pc`) and
  what it holds there. The lemmas go phase by phase: creation, listing, posting,
  saving, pruning, crashes. They hold for any number of overlapping workers,
  which the runs check only of one.
- `PublishedAtMostOnce` assumes `OneWorker` and rests on `SentInv`, an invariant
  that relates how often a row was published to its file and to the worker's
  copy: published and not yet saved, published and saved, or published and lost
  with a fault to show for it. The crux is that the single worker's snapshot of
  a row is never older than the file, because only a prune changes files beside
  it, and a prune only removes.
- `PostedRowsWerePublished` follows from `HonestInv`, which says of every copy of
  a row, in a file or in a process, that a post identifier stands for a
  publication; it needs no assumption on the number of workers, only that the
  history `sent` counts at all (`MaxSent > 0`). `NoRowIsLost` assumes `OneWorker`
  and follows from `KeepInv` together with `RowInv` and `SentInv`: a file open
  for writing is empty, so that what is written into it is whole.
- `PublishedOnlyWhenDue` and `QueueImplementsLifecycle`, both with `OneWorker`,
  are about steps. The first is read off the invariants: what is posted is a row
  of a snapshot that still agrees with the file. The second is the refinement,
  action by action: the mapping shows a row as its file has it, except between
  the open and the write of a save, where the file is empty and the row is what
  the worker is about to write; each action then changes what one row shows
  along a step of `QueueLifecycle`, or changes nothing that shows.
- `DaemonKeepsPromises` and `DaemonImplementsLifecycle` carry these over to the
  long-running process, with `OneWorker` and `~ MayStop`: every step of the daemon
  is a step of the queue or one that only records a fault. Its invariant adds
  that loop and worker agree on whether a tick is under way.

**The loop** (`WorkerLoopProofs`). `NoTickOnceStopped` is about steps. The
bound of `ChainsAreBounded` is not inductive: `ChainInv` counts the running
chain only while `running` holds, because that is what allows `start` to add
one.

**The pipeline** (`ContentPipelineProofs`).

- `PipelineTypeCorrect` and `ReviewedBeforePublished` follow from `PubInv`:
  wherever a content of stage publish is (in the file, in a command's memory,
  between load and save), its draft is good, and so is the draft of every row.
  The bulk actions matter here: none of them leads to publish.
- `FailedPostsAreQueued`, `DoneHasAReason` and `EveryRunEndsByItself` follow from
  `HistInv`. It says of the file and of every command's copy what their records
  promise (`Explained`, `Reasoned`), and of a run that it has more rounds left
  than the stages before it can use (`Need`, a measure that every dispatch
  lowers). What a record promises is never taken back, because publications, rows
  and faults only accumulate (`Kept`). `EveryRunEndsByItself` assumes
  `Safety > 6 + 3 * MaxRevisions`, which the code's 32 satisfies for every
  `MaxRevisions` up to 8. `PublishedOncePerEntry` follows from `OnceInv`, an
  account per platform: publications made, rows still to be attempted and posts
  still to be made together never exceed the entries of the publish stage and the
  faults.

**The browser server** (`McpProofs`).

- HTTP: `TypeCorrect`, `EveryStreamEndsOnce` and `MapIsExact` from `HttpInv`: a
  session that does not exist yet has left no trace, its `closed` flag counts the
  ends of its stream, a stream has drawn an identifier, and the map holds it,
  beating and aging, until `cleanup` has run for it.
- stdio: `MessagesAreAnswered` and `SnapshotsAreInOrder` from `StdioInv`. What
  the loop has collected since the last message it took is described line by line
  (`BufferHolds`), so that it is known which message a line that ends in `}`
  completes or spoils. The browser shows the page after the messages before the
  one being read (`ShownBefore`), and a snapshot keeps what it saw when it began.

**The network** (`ProcessProofs`).

- `LimiterTypeCorrect` and `LimiterHolds` from `LimiterInv`, whose heart is the
  account of a key: what was spent and what is left is at most the capacity and
  what the time from the making of the bucket to its last refill is worth; a
  refill never precedes the latest clock. The lemma `RateIsMonotonic` supplies the
  one fact of arithmetic that the solver does not find.
- `CallsTypeCorrect` and `CallsAreAccounted` from `CallsInv`, which ties the
  attempt, the errors met and the requests sent together phase by phase, for any
  number of retries. Inductive is that nothing is asked but in the mode `real` or
  by the channel test (`AskedOnlyIfReal`), which is more than the code promises
  and what the run `ChannelsMixed` is about. `CallsImplementLimiter` shows that each step of the process
  is a step of `RateLimiter` or leaves it alone, so that `CallsWithinRate`
  inherits the limiter's bound.

**What an operator works with** (`OperationsProofs`).

- `FilesTypeCorrect`; `LossesExplained` from `LossInv`, which says of each file
  what every command at work on it carries (`Carries`), that without an overlap
  it is alone (`Alone`), and what the file holds while nobody writes it (`Rests`).
- `FeedbackAlwaysBacked` from `LossInv` and `SavedInv`: whatever feedback.json
  holds, and whatever a command is about to write to it, was recorded with the
  content before (`Saved`), because a feedback reaches feedback.json only from the
  write of its content. That the content has it still is then the account that
  `LossInv` gives of the content, as of any file.
- `OperationsTypeCorrect` is inductive as it stands, for `OperationsSpec`, the
  release and the panel side by side. `ForwardOnlyAfterGates`,
  `HistoryIsNeverLost`, `OnlyHarmlessIsExecuted` and `PanelTellsOneStory` hold of
  every typed state: what takes work is to know what the operators return. The
  failed gates are those that ran and did not pass (`FailedGatesAre`). Rows
  counted on both sides of a split add up (`CountSplit`, by a bijection), and the
  last good row lies on the side where it lies (`LastDeliverableIs`). The queue of
  approvals is a sorted enumeration of the actions, each at the place that the
  number of actions before it says (`RanksAre`, `QueueIs`), which needs that the
  order is strict (`BeforeIsOrder`), hence that no identifier is proposed twice.
  Hence the first row that waits is of high risk if any is (`PreviewIs`).
- Two facts that several of these proofs need come first. `SortedIs`: of a finite
  set and a strict order, `Sorted` lists every element once, and in order;
  it counts those before each element (`PlacesAre`), by the pigeonhole principle.
  `SumIsNat`: a sum of natural numbers is one. The community modules fold with a
  recursive function that CHOOSE picks, so that there is one has to be shown
  first (`SumsExist`); both go by the least counterexample, as the theorems about
  induction are out of reach.

**The web console** (`WebConsoleProofs`). `BulkDoesAsReduced` from `HandlerInv`:
a bulk handler reads each content once, and what it has saved is what core's
reducer makes of what it has read, but for the content it is about to save.
`SameStage` compares the two implementations of a button, of which `expected`
states the one difference. It holds for any set of clients, each with an action
and a stage or none.

**Texts** (`ProcessProofs`). `TextsAlwaysAsPrepared` from `DraftsInv`, for any
lengths, tags, locales and answers of the model: what is in a draft are texts
(`WellWritten`), its translations have one entry for each locale (`Told`), and
what was last shown and handed over was adapted from a draft of its version
(`Shows`). Then lengths are arithmetic (`TruncateFits`, `AdaptedFits`,
`RequestFits`), the entries follow from how locales are made unique (`OnceEach`),
and `OwnSlots` shows that no two platforms share a slot. This proof corrected the
property: a first `TranslationsTold` promised every platform its own language,
which holds of the instance that was checked, but of the code only if that
language is among the targets; where it is not, the source stands in and nothing
is reported as fallen back.

**Numbers** (`ProcessProofs`). `ProcessFollowsTheNumbers`, for any number of posts,
variants, fetches, ideas, comments and decisions, and any weights they lead to.

- Of verdicts (`NumbersAreFollowed`, its first half) the invariant is little more
  than the types (`MeasuredInv`, `WeightsInv`). The work is in the arithmetic, all
  of it in whole numbers: fractions are compared by their products, so that the
  order by rate is transitive only because no count is zero (`Cross`,
  `RateOrders`); among evenly sampled variants it is the order by score
  (`ReportAgrees`); a weight only grows (`GainIs`), and rounding and the cap never
  turn an idea behind one it was listed before (`ListedStill`); a history
  multiplies a score by 1.3 at most (`AdjustedIs`, `HistoryMoves`).
- Of replies the invariant is `RepliesInv`: copies share their status, what waits
  was never sent, and nothing was sent more often than it is listed. It is what
  makes the bound on `sent` inductive: a reply that is sent again would be one
  that waited, of which a copy was done.
- `BudgetAlwaysAgrees`: the cost of a day is a sum over part of the ledger.

**The process** (`ProcessProofs`). `ProcessImplementsParts`: every step of `Process`
is a step of each part or leaves it alone, so that it implements the
specification of each, fairness included. `ProcessTypeCorrect`,
`ViewsAlwaysAgree`, `TextsAlwaysAsPrepared`, `ProcessFollowsTheNumbers` and
`ProcessKeepsItsPromises` then state every safety property of the run `Process`,
and those of the shared files, of the specification of the process, without the
bounds of the runs on the clock.

Only model-checked:

- Liveness under fairness (`KeepsTicking`, `StopsAll`, `DaemonKeepsWorking`,
  `DaemonAttemptsDueRows`, `StreamsEnd`, `StopCompletes`, `CallsSettle`,
  `PageCatchesUp`), which is outside what TLAPS can do.

Every safety invariant and every action property of the passing runs is proved.
The runs that expect a violation are about what the code does not keep.

## 5. Where documents and code part

Beside the six findings, which runs show, the following came up in writing the
model. No run is about them; the model follows the code.

- `docs/architecture.md:202` has `PublishAgent` post the localized body of
  `platformOverrides`; the agent never reads them, nor translations
  (`core/src/agents/publish.ts:17-24`).
- The tag and title limits of `docs/architecture.md:266` are not applied; X
  prepends the title to the adapted body and slices to 280; Weibo and YouTube add
  title or tags to a body that may be full. A dry run previews the body only.
- No idea is ever aimed at YouTube, and the default target of `deriveTargets` is
  unreachable.
- The idea agent hands the ranker a callback that finds no idea for any record,
  so that feedback never influences the ranking.
- The `timeoutMs` of the channel test is never used; an unknown platform is
  reported as `auth`; an answer that does not parse counts as ok.
- `probeLlm` calls a server unreachable that answers with an error in its body.
- A torn line of `token-ledger.jsonl` makes `ima token-ledger` append its entry
  and then throw; the metrics snapshot and `ima production` throw as well.
- A post that is fetched twice counts as two samples (`core/src/ab-test.ts:18`
  speaks of posts), and its comments are drafted twice under the same
  identifiers. A rehearsal in the sandbox marks replies as skipped.
- The page's live badge says "reconnecting" between any two snapshots, as every
  answer of `/api/events` ends after its one event; after one answer that is not a
  stream it goes on saying so and never does reconnect. `/api/run` creates nothing
  (the repository's `README.md:139` says it does). The snapshot counts blank and torn contents, the other views skip them.
- A vault keeps the fingerprint of its first passphrase; another one reads
  nothing or garbage, without a word.
- `isRetryable` and `isLlmUnavailableError` disagree on network errors and
  aborts.
- A rejected health check of X leaves `doctor` without any report.
- The budget breaker (the repository's `README.md:62`) is handed no days by the
  CLI and the web server, and the ledger records no costs: the daily budget
  never triggers.
- Nothing takes an approval from pending to approved, and three different
  tokens are asked for in three places (`APPROVE`, `APPROVED`, `EXECUTE`); `ima
  delivery safe-forward --execute` never passes a confirmation. A blank
  credential counts as present, except for the probe.

## 6. What is not modelled, and what could come next

Not modelled, because it keeps no state and decides nothing: prompts, wording
and layout; the plans of `roadmap.ts`, `production-automation.ts` and
`sandbox-publish.ts` that only list commands; the parsing of a model's lists,
of trackers' answers and of pages; the crypto of the vault; the choice of a
provider; `rate-limit-policy.ts`, which reads numbers from the environment and
is wired in by nothing; the smoke and bootstrap scripts; the remaining panels of
the web page, which load like those that are modelled.

What could come next: a composition of `ContentPipeline` with the files of
`SharedFiles`, so that a content's save is as fine as a row's; the daemon's
worker with the calls of `OutboundCalls`, where a post may never end.
