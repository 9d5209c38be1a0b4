----------------------------- MODULE QueueWorker -----------------------------
(***************************************************************************)
(* The durable queue in `.ima/queue' and the operating-system processes    *)
(* that share it: publish workers (`ima queue work', `npm run queue:work', *)
(* the daemon), `ima queue prune', and the writers of new rows.  Nothing   *)
(* in the code locks the directory, so the steps of the processes          *)
(* interleave freely; a process may also be killed between any two steps.  *)
(*                                                                         *)
(*   packages/cli/src/queue-store.ts     QueueStore: list, replaceAll, ... *)
(*   packages/cli/src/queue-worker.ts    PublishWorker.runOnce             *)
(*   packages/core/src/publish-queue.ts  processQueue (see PublishQueue)   *)
(*   packages/cli/src/index.ts           the `queue prune' command         *)
(*   packages/core/src/storage.ts        JsonStore: write, remove          *)
(*   packages/core/src/agents/publish.ts the rows sunk by PublishAgent     *)
(***************************************************************************)
EXTENDS PublishQueue, FiniteSets

CONSTANTS
  Rows,        \* identities of queue rows, each used at most once
  Workers,     \* processes running PublishWorker.runOnce
  Pruners,     \* processes running `ima queue prune'
  Unroutable,  \* rows for whose platform the registry has no channel
  Outcomes,    \* what a channel call may do: see Post
  Limit,       \* opts.limit; 0 means no limit
  MaxTime,     \* bound: the clock stops here
  MaxFaults,   \* bound: crashes and lost answers
  MaxSent,     \* bound: `sent' counts to here, no further
  Absent,      \* no such file
  Torn,        \* an empty or half-written file
  Orphan       \* a descriptor of a file that was removed

Procs == Workers \cup Pruners

ASSUME WorkerAssumption ==
  /\ Workers \cap Pruners = {}
  /\ Unroutable \subseteq Rows
  /\ Outcomes \subseteq {"ok", "throw", "lost", "failed_record"}
  /\ Outcomes # {}
  /\ Limit \in Nat /\ MaxTime \in Nat /\ MaxFaults \in Nat /\ MaxSent \in Nat
  /\ Absent \notin RowType /\ Torn \notin RowType /\ Absent # Torn
  /\ None \notin Rows /\ Orphan \notin Rows /\ None # Orphan
  /\ IsFiniteSet(Rows)

VARIABLES
  disk,     \* the file of each row: Absent, Torn or a row
  now,      \* the clock
  pc,       \* where each process is in its command
  todo,     \* rows the current phase of a process still has to visit
  snap,     \* the rows a process holds in memory
  started,  \* processQueue's `now', read once per run
  fd,       \* the row file a process has open for writing
  life,     \* history: has the row been created, has prune removed it
  sent,     \* history: how often the platform accepted a post of the row
  faults    \* history: crashes and lost answers so far

locals == <<pc, todo, snap, started, fd>>
vars   == <<disk, now, locals, life, sent, faults>>

isRow(file) == file \notin {Absent, Torn}

(* What list() may return: some rows, by identity.                         *)
IsSnapshot(s) == DOMAIN s \subseteq Rows /\ s \in [DOMAIN s -> RowType]

NoRows == [r \in {} |-> None]

TypeOK ==
  /\ disk \in [Rows -> RowType \cup {Absent, Torn}]
  /\ now \in Nat
  /\ pc \in [Procs -> {"idle", "listing", "posting", "saving", "pruning"}]
  /\ todo \in [Procs -> SUBSET Rows]
  /\ snap = [p \in Procs |-> snap[p]]
  /\ \A p \in Procs : IsSnapshot(snap[p])
  /\ started \in [Procs -> Nat]
  /\ fd \in [Procs -> Rows \cup {None, Orphan}]
  /\ life \in [Rows -> {"new", "enqueued", "pruned"}]
  /\ sent \in [Rows -> Nat]
  /\ faults \in Nat

Init ==
  /\ disk    = [r \in Rows |-> Absent]
  /\ now     = 0
  /\ pc      = [p \in Procs |-> "idle"]
  /\ todo    = [p \in Procs |-> {}]
  /\ snap    = [p \in Procs |-> NoRows]
  /\ started = [p \in Procs |-> 0]
  /\ fd      = [p \in Procs |-> None]
  /\ life    = [r \in Rows |-> "new"]
  /\ sent    = [r \in Rows |-> 0]
  /\ faults  = 0

-----------------------------------------------------------------------------
(* The writers of new rows.  The file of a new row is open and empty for a *)
(* moment; a reader skips it then as if it were not there, so its creation *)
(* is one step unless the writer dies in between (CrashInEnqueue).         *)

Create(r, file) ==
  /\ life[r] = "new"
  /\ life' = [life EXCEPT ![r] = "enqueued"]
  /\ disk' = [disk EXCEPT ![r] = file]
  /\ UNCHANGED <<now, locals>>

(* A row written to be attempted by a worker (queue-smoke.ts).             *)
EnqueueFresh(r) ==
  /\ Create(r, createQueueItem(now))
  /\ UNCHANGED <<sent, faults>>

(* PublishAgent posted by itself and sinks the outcome for the record: the *)
(* attempt counter of the row stays 0.                                     *)
SinkPosted(r) ==
  /\ Create(r, [createQueueItem(now) EXCEPT !.status = "posted", !.postId = "id"])
  /\ sent' = [sent EXCEPT ![r] = 1]
  /\ UNCHANGED faults

(* PublishAgent's own post threw (rate limit, channel error): the row it   *)
(* sinks counts that attempt and is left to the worker.                    *)
SinkFailed(r) ==
  /\ Create(r, recordAttemptFailure(createQueueItem(now), now))
  /\ UNCHANGED <<sent, faults>>

CrashInEnqueue(r) ==
  /\ faults < MaxFaults
  /\ faults' = faults + 1
  /\ Create(r, Torn)
  /\ UNCHANGED sent

-----------------------------------------------------------------------------
(* One run of a command.  Leaving a command forgets everything it held.    *)

Forget(p) ==
  /\ pc'      = [pc EXCEPT ![p] = "idle"]
  /\ todo'    = [todo EXCEPT ![p] = {}]
  /\ snap'    = [snap EXCEPT ![p] = NoRows]
  /\ started' = [started EXCEPT ![p] = 0]

(* QueueStore.list, the readdirSync.                                       *)
StartList(p) ==
  /\ pc[p] = "idle"
  /\ pc'   = [pc EXCEPT ![p] = "listing"]
  /\ todo' = [todo EXCEPT ![p] = {r \in Rows : disk[r] # Absent}]
  /\ UNCHANGED <<disk, now, snap, started, fd, life, sent, faults>>

(* QueueStore.list, one readFileSync.  An empty or unparsable file is      *)
(* skipped; a file removed since readdirSync makes readFileSync throw,     *)
(* which ends the command.                                                 *)
ListRow(p, r) ==
  /\ pc[p] = "listing" /\ r \in todo[p]
  /\ disk[r] # Absent
  /\ todo' = [todo EXCEPT ![p] = @ \ {r}]
  /\ snap' = IF isRow(disk[r])
             THEN [snap EXCEPT ![p] = [s \in DOMAIN @ \cup {r} |->
                                         IF s = r THEN disk[r] ELSE @[s]]]
             ELSE snap
  /\ UNCHANGED <<disk, now, pc, started, fd, life, sent, faults>>

ListThrows(p, r) ==
  /\ pc[p] = "listing" /\ r \in todo[p]
  /\ disk[r] = Absent
  /\ Forget(p)
  /\ UNCHANGED <<disk, now, fd, life, sent, faults>>

(* runOnce returns at once when there is nothing to scan.                  *)
ScanEmpty(p) ==
  /\ p \in Workers
  /\ pc[p] = "listing" /\ todo[p] = {}
  /\ DOMAIN snap[p] = {}
  /\ Forget(p)
  /\ UNCHANGED <<disk, now, fd, life, sent, faults>>

(* mutants: rows are taken before they are due, or one moment too late.    *)
Batches_undue(rows, t) == {{r \in DOMAIN rows : ~ isTerminal(rows[r])}}
Batches_late(rows, t) ==
  {{r \in DOMAIN rows : ~ isTerminal(rows[r]) /\ rows[r].nextAttemptAt < t}}

(* The rows processQueue may attempt in one run: all the due ones, or the  *)
(* first Limit of them in the order of nextAttemptAt.                      *)
Batches(rows, t) ==
  LET due == {r \in DOMAIN rows : isDue(rows[r], t)}
  IN  {batch \in SUBSET due :
         /\ \/ Limit = 0 /\ batch = due
            \/ Limit > 0 /\ Cardinality(batch) =
                 IF Cardinality(due) < Limit THEN Cardinality(due) ELSE Limit
         /\ \A r \in batch, s \in due \ batch :
              rows[r].nextAttemptAt <= rows[s].nextAttemptAt}

(* processQueue reads the clock and selects; replaceAll will write back    *)
(* every row of the snapshot, the untouched ones included.                 *)
SelectDue(p) ==
  /\ p \in Workers
  /\ pc[p] = "listing" /\ todo[p] = {}
  /\ DOMAIN snap[p] # {}
  /\ pc'      = [pc EXCEPT ![p] = "posting"]
  /\ started' = [started EXCEPT ![p] = now]
  /\ \E batch \in Batches(snap[p], now) : todo' = [todo EXCEPT ![p] = batch]
  /\ UNCHANGED <<disk, now, snap, fd, life, sent, faults>>

(* mutant: a throwing channel is recorded as a success.                    *)
Attempted_throwIsOk(row, outcome, t) == recordAttemptSuccess(row, "id")

(* The row after an attempt that ended with `outcome'.  "posting" is only  *)
(* ever the status of the copy in flight: the row that comes out has       *)
(* another status, and that is the one written.                            *)
Attempted(row, outcome, t) ==
  LET inFlight == [row EXCEPT !.status = "posting"]
  IN  CASE outcome = "ok"            -> recordAttemptSuccess(inFlight, "id")
        [] outcome = "failed_record" -> recordAttemptSuccess(inFlight, None)
        [] OTHER                     -> recordAttemptFailure(inFlight, t)

(* What the channel call for row r may do.                                 *)
(*   "ok"            the platform published the post and said so           *)
(*   "throw"         channel.post threw and nothing was published          *)
(*   "lost"          the post was published but the answer was lost, so    *)
(*                   channel.post threw                                    *)
(*   "failed_record" channel.post returned a PostRecord of status failed   *)
(*                   (AlwaysFailChannel); processQueue ignores its status  *)
(*   "no_channel"    resolver.resolve returned null                        *)
PossibleOutcomes(r) == IF r \in Unroutable THEN {"no_channel"} ELSE Outcomes

Post(p, r, outcome) ==
  /\ pc[p] = "posting"
  /\ isFirst(r, todo[p], snap[p])
  /\ outcome = "lost" => faults < MaxFaults
  /\ snap' = [snap EXCEPT ![p][r] = Attempted(@, outcome, started[p])]
  /\ sent' = IF outcome \in {"ok", "lost"} /\ sent[r] < MaxSent
             THEN [sent EXCEPT ![r] = @ + 1]
             ELSE sent
  /\ faults' = IF outcome = "lost" THEN faults + 1 ELSE faults
  /\ todo' = [todo EXCEPT ![p] = @ \ {r}]
  /\ UNCHANGED <<disk, now, pc, started, fd, life>>

EndPosting(p) ==
  /\ pc[p] = "posting" /\ todo[p] = {}
  /\ pc'   = [pc EXCEPT ![p] = "saving"]
  /\ todo' = [todo EXCEPT ![p] = DOMAIN snap[p]]
  /\ UNCHANGED <<disk, now, snap, started, fd, life, sent, faults>>

(* writeFileSync opens the file, creating or truncating it, ...            *)
OpenRow(p, r) ==
  /\ pc[p] = "saving" /\ fd[p] = None /\ r \in todo[p]
  /\ disk' = [disk EXCEPT ![r] = Torn]
  /\ fd'   = [fd EXCEPT ![p] = r]
  /\ todo' = [todo EXCEPT ![p] = @ \ {r}]
  /\ UNCHANGED <<now, pc, snap, started, life, sent, faults>>

(* mutant: the write may fail unnoticed.                                   *)
Written_unchecked(r, row) == {row, Torn}

(* ... and then writes it.  Over the contents of a second writer that has  *)
(* truncated and written meanwhile, a shorter text leaves a tail of the    *)
(* longer one behind: the file no longer parses.                           *)
Written(r, row) == IF disk[r] = Torn THEN {row} ELSE {row, Torn}

WriteRow(p) ==
  /\ pc[p] = "saving" /\ fd[p] # None
  /\ IF fd[p] = Orphan
     THEN UNCHANGED disk
     ELSE \E file \in Written(fd[p], snap[p][fd[p]]) :
            disk' = [disk EXCEPT ![fd[p]] = file]
  /\ fd' = [fd EXCEPT ![p] = None]
  /\ IF todo[p] = {} THEN Forget(p) ELSE UNCHANGED <<pc, todo, snap, started>>
  /\ UNCHANGED <<now, life, sent, faults>>

-----------------------------------------------------------------------------
(* `ima queue prune': list first, then remove what was dead in the list.   *)

Prunable(rows) == {r \in DOMAIN rows : rows[r].status = "failed_dead"}

SelectDead(p) ==
  /\ p \in Pruners
  /\ pc[p] = "listing" /\ todo[p] = {}
  /\ LET dead == Prunable(snap[p])
     IN  IF dead = {}
         THEN Forget(p)
         ELSE /\ pc'   = [pc EXCEPT ![p] = "pruning"]
              /\ todo' = [todo EXCEPT ![p] = dead]
              /\ UNCHANGED <<snap, started>>
  /\ UNCHANGED <<disk, now, fd, life, sent, faults>>

(* JsonStore.remove.  A writer that holds the file open goes on writing to *)
(* a file that no longer has a name.                                       *)
RemoveRow(p, r) ==
  /\ pc[p] = "pruning" /\ r \in todo[p]
  /\ disk' = [disk EXCEPT ![r] = Absent]
  /\ life' = [life EXCEPT ![r] = "pruned"]
  /\ fd'   = [q \in Procs |-> IF fd[q] = r THEN Orphan ELSE fd[q]]
  /\ IF todo[p] = {r}
     THEN Forget(p)
     ELSE todo' = [todo EXCEPT ![p] = @ \ {r}] /\ UNCHANGED <<pc, snap, started>>
  /\ UNCHANGED <<now, sent, faults>>

-----------------------------------------------------------------------------
(* A process is killed (SIGKILL, SIGTERM of the daemon, power): what it    *)
(* held in memory is gone, an open file stays truncated.                   *)
Crash(p) ==
  /\ pc[p] # "idle"
  /\ faults < MaxFaults
  /\ faults' = faults + 1
  /\ Forget(p)
  /\ fd' = [fd EXCEPT ![p] = None]
  /\ UNCHANGED <<disk, now, life, sent>>

Tick ==
  /\ now < MaxTime
  /\ now' = now + 1
  /\ UNCHANGED <<disk, locals, life, sent, faults>>

Run(p) ==
  \/ StartList(p)
  \/ \E r \in Rows : ListRow(p, r)
  \/ \E r \in Rows : ListThrows(p, r)
  \/ ScanEmpty(p)
  \/ SelectDue(p)
  \/ \E r \in Rows : \E outcome \in PossibleOutcomes(r) : Post(p, r, outcome)
  \/ EndPosting(p)
  \/ \E r \in Rows : OpenRow(p, r)
  \/ WriteRow(p)
  \/ SelectDead(p)
  \/ \E r \in Rows : RemoveRow(p, r)

Enqueue(r) ==
  \/ EnqueueFresh(r)
  \/ SinkPosted(r)
  \/ SinkFailed(r)
  \/ CrashInEnqueue(r)

Next ==
  \/ \E r \in Rows : Enqueue(r)
  \/ \E p \in Procs : Run(p)
  \/ \E p \in Procs : Crash(p)
  \/ Tick

Spec == Init /\ [][Next]_vars

-----------------------------------------------------------------------------
(* Properties                                                              *)

(* One worker process: the deployment of the README, where either the      *)
(* daemon or a cron job runs the worker.                                   *)
OneWorker == \A p, q \in Workers : p = q

(* A row of the queue is consistent: its status, attempt counter, error    *)
(* and post identifier tell one story.  "posting" never reaches the disk,  *)
(* a row that may still be attempted has attempts left, a dead row used    *)
(* exactly all of them, and only a posted row may carry a post identifier  *)
(* (publish-queue.ts, recordAttemptFailure and recordAttemptSuccess).      *)
RowConsistent(row) ==
  /\ row.status # "posting"
  /\ row.attempts <= MaxAttempts
  /\ row.status = "pending"      => row.attempts = 0
  /\ row.status = "failed_retry" => row.attempts \in 1 .. MaxAttempts - 1
  /\ row.status = "failed_dead"  => row.attempts = MaxAttempts
  /\ (row.lastError = "error") <=> (row.status \in {"failed_retry", "failed_dead"})
  /\ row.postId = "id" => row.status = "posted"

(* Every row on disk and every row a process holds is consistent, whatever *)
(* the processes, crashes and torn files: replaceAll writes back whole     *)
(* rows, so no interleaving mixes two of them.                             *)
RowsConsistent ==
  /\ \A r \in Rows : isRow(disk[r]) => RowConsistent(disk[r])
  /\ \A p \in Procs : \A r \in DOMAIN snap[p] : RowConsistent(snap[p][r])

(* A row recorded as posted with a post identifier was published: the      *)
(* platform accepted it.  (Without one, a channel may only have reported a *)
(* failure without throwing: the outcome "failed_record".)                 *)
PostedWasPublished ==
  \A r \in Rows :
    isRow(disk[r]) /\ disk[r].status = "posted" /\ disk[r].postId = "id" => sent[r] > 0

(* With one worker, a row is published at most once, plus once per crash   *)
(* or lost answer: the retry after a failure, the rewriting of untouched   *)
(* rows and a concurrent prune never publish it again.                     *)
AtMostOncePerFault == \A r \in Rows : sent[r] <= 1 + faults

(* With one worker, a channel is called for a row only while the file of   *)
(* that row says it is unfinished and due: the backoff is waited out and   *)
(* the snapshot the worker acts on is not stale.                           *)
PublishesOnlyDueRows ==
  [][\A r \in Rows : sent'[r] > sent[r] /\ life[r] = "enqueued" =>
        isRow(disk[r]) /\ isDue(disk[r], now)]_vars

(* A row ends posted or failed_dead and stays so ("terminal", header of    *)
(* publish-queue.ts): no save brings a terminal row back.                  *)
TerminalRowsFinal ==
  [][\A p \in Procs : \A r \in Rows :
        fd[p] = None /\ fd'[p] = r /\ isRow(disk[r]) /\ isTerminal(disk[r]) =>
          snap[p][r].status = disk[r].status]_vars

(* A created row stays in the queue until prune takes it; without a crash  *)
(* its file is whole whenever no process is writing it.                    *)
RowsSurvive ==
  \A r \in Rows :
    life[r] = "enqueued" /\ (\A p \in Procs : fd[p] # r) =>
      isRow(disk[r]) \/ (disk[r] = Torn /\ faults > 0)

(* The row as the one worker will leave it: while it is being written, the *)
(* contents to come.                                                       *)
View(r) == IF \E p \in Procs : fd[p] = r
           THEN LET p == CHOOSE p \in Procs : fd[p] = r IN snap[p][r]
           ELSE disk[r]

(* A due row that has had k attempts, and one that has had another, or was *)
(* torn by a crash: what a daemon leads the one to (module QueueDaemon).   *)
DueAfter(r, k) ==
  IF isRow(View(r)) THEN isDue(View(r), now) /\ View(r).attempts = k ELSE FALSE
TriedAfter(r, k) ==
  IF isRow(View(r)) THEN View(r).attempts > k ELSE View(r) = Torn

(* With one worker, each row lives as QueueLifecycle says: replaceAll may   *)
(* bring a row back that prune has removed, but never one that is waiting  *)
(* to be posted again.                                                     *)
StageOf(r, file) ==
  CASE file = Absent -> IF life[r] = "pruned" THEN "pruned" ELSE "new"
    [] file = Torn   -> "lost"
    [] isRow(file)   -> CASE file.status = "posted"      -> "posted"
                          [] file.status = "failed_dead" -> "dead"
                          [] OTHER                       -> "waiting"

Lifecycle ==
  INSTANCE QueueLifecycle WITH
    stage <- [r \in Rows |-> StageOf(r, View(r))],
    tries <- [r \in Rows |-> LET file == View(r)
                             IN  IF isRow(file) THEN file.attempts ELSE 0]

LifecycleSpec == Lifecycle!Spec
=============================================================================
