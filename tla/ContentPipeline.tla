--------------------------- MODULE ContentPipeline ---------------------------
(***************************************************************************)
(* One content on its way from intake to done: the file                    *)
(* `.ima/content/<id>.json', the commands that load it, work on their copy *)
(* and save it back, and the queue rows its publication leaves behind.     *)
(*                                                                         *)
(*   packages/core/src/state-machine.ts  TRANSITIONS                       *)
(*   packages/core/src/pipeline.ts       Pipeline.run, step, dispatch      *)
(*   packages/core/src/agents/*.ts       what each agent needs and returns *)
(*   packages/cli/src/index.ts           `ima run', `ima step'             *)
(*   packages/cli/src/web-server.ts      apiBulk: pause, resume, ...       *)
(*   packages/cli/src/app.ts             fetchAndAppendEngagement          *)
(*                                                                         *)
(* A command is an operating-system process; between its load and its save *)
(* the file may change under it.  Texts are abstract: a draft is "good"    *)
(* when it passes the four checks of the review agent and "poor" when it   *)
(* does not.  The worker of the queue is the one of QueueWorker, reduced   *)
(* to what QueueLifecycle says of it, with its publications counted.       *)
(***************************************************************************)
EXTENDS PublishQueue, FiniteSets

CONSTANTS
  Platforms,        \* the platforms an idea may target
  DefaultPlatform,  \* "x": the target when no idea names one
  MaxRevisions,     \* maxRevisionRounds: 2 in createApp, 3 by default
  Safety,           \* the bound of the loop in Pipeline.run: 32 in the code
  Commands,         \* processes that run `ima run', `ima step' and the like
  BulkActions,      \* what the web console may ask for
  Outcomes,         \* what publisher.post may do: "ok", "throw", "lost"
  RowIds,           \* identities of queue rows, each used at most once
  MaxCommands,      \* bound: commands started
  MaxFaults,        \* bound: crashes, lost answers and failed writes
  NoContent,        \* no file
  TornContent       \* a file that does not parse

VARIABLES
  file,      \* the content on disk
  pc,        \* where each command is
  mem,       \* the copy of the content a command works on
  left,      \* what remains of `safety' in a run; None in a single step
  todo,      \* platforms the publish agent still has to post to
  recs,      \* its PostRecords so far
  rows,      \* the queue rows of this content
  commands,  \* history: commands started
  begun,     \* history: publish steps begun
  sent,      \* history: how often each platform accepted a post
  shown,     \* history: the drafts that some platform accepted
  faults     \* history: crashes, lost answers and failed writes

locals == <<pc, mem, left, todo, recs>>
vars == <<file, locals, rows, commands, begun, sent, shown, faults>>

Stages == {"intake", "research", "ideas", "draft", "review", "needs_revision",
           "publish", "done"}

Contents ==
  [stage         : Stages,
   sources       : BOOLEAN,                       \* some were captured
   ideas         : SUBSET Platforms,              \* {}: no ideas yet
   draft         : {"none", "good", "poor"},
   review        : {"none", "approve", "revise"}, \* "reject" acts as "revise"
   revisionCount : 0 .. MaxRevisions,
   posts         : [Platforms -> {"none", "posted", "failed"}]]

(* A row knows the platform and the text it is for.                        *)
QueueRows == [platform : Platforms, draft : {"good", "poor"}, item : RowType]

ASSUME PipelineAssumption ==
  /\ DefaultPlatform \in Platforms
  /\ MaxRevisions \in Nat /\ Safety \in Nat \ {0}
  /\ BulkActions \subseteq {"pause", "resume", "retry", "cancel"}
  /\ Outcomes \subseteq {"ok", "throw", "lost"}
  /\ MaxCommands \in Nat /\ MaxFaults \in Nat
  /\ NoContent \notin Contents /\ TornContent \notin Contents
  /\ NoContent # TornContent
  /\ IsFiniteSet(RowIds) /\ None \notin QueueRows

NoPosts == [p \in Platforms |-> "none"]

createContent ==
  [stage |-> "intake", sources |-> FALSE, ideas |-> {}, draft |-> "none",
   review |-> "none", revisionCount |-> 0, posts |-> NoPosts]

isContent(f) == f \notin {NoContent, TornContent}

TypeOK ==
  /\ file \in Contents \cup {NoContent, TornContent}
  /\ pc \in [Commands -> {"idle", "working", "publishing", "saving"}]
  /\ mem \in [Commands -> Contents \cup {NoContent}]
  /\ left \in [Commands -> (0 .. Safety) \cup {None}]
  /\ todo \in [Commands -> SUBSET Platforms]
  /\ recs \in [Commands -> [Platforms -> {"none", "posted", "failed"}]]
  /\ rows \in [RowIds -> QueueRows \cup {None}]
  /\ commands \in Nat
  /\ begun \in Nat
  /\ sent \in [Platforms -> Nat]
  /\ shown \subseteq {"good", "poor"}
  /\ faults \in Nat

Init ==
  /\ file = NoContent
  /\ pc = [c \in Commands |-> "idle"]
  /\ mem = [c \in Commands |-> NoContent]
  /\ left = [c \in Commands |-> None]
  /\ todo = [c \in Commands |-> {}]
  /\ recs = [c \in Commands |-> NoPosts]
  /\ rows = [i \in RowIds |-> None]
  /\ commands = 0
  /\ begun = 0
  /\ sent = [p \in Platforms |-> 0]
  /\ shown = {}
  /\ faults = 0

-----------------------------------------------------------------------------
(* The state machine of the stages.                                        *)

TRANSITIONS ==
  [intake         |-> {"research", "paused"},
   research       |-> {"ideas", "paused"},
   ideas          |-> {"draft", "paused"},
   draft          |-> {"review", "paused"},
   review         |-> {"publish", "needs_revision", "paused"},
   needs_revision |-> {"draft", "paused"},
   publish        |-> {"done", "needs_revision", "paused"},
   done           |-> {"paused"},
   paused         |-> Stages \ {"done"}]

canTransition(from, to) == to \in TRANSITIONS[from]

isTerminalStage(stage) == TRANSITIONS[stage] \ {"paused"} = {}

-----------------------------------------------------------------------------
(* Commands load, work and save.                                           *)

Load(c, content, place, rounds) ==
  /\ pc[c] = "idle" /\ commands < MaxCommands
  /\ commands' = commands + 1
  /\ pc'   = [pc EXCEPT ![c] = place]
  /\ mem'  = [mem EXCEPT ![c] = content]
  /\ left' = [left EXCEPT ![c] = rounds]
  /\ UNCHANGED <<file, todo, recs, rows, begun, sent, shown, faults>>

(* `ima run': a new content, kept in memory until the run is over.         *)
StartRun(c) ==
  /\ file = NoContent /\ commands = 0
  /\ Load(c, createContent, "working", Safety)

(* `ima step': a file that is missing or torn is an error.                 *)
StartStep(c) ==
  /\ isContent(file)
  /\ Load(c, file, IF isTerminalStage(file.stage) THEN "saving" ELSE "working", None)

(* `ima feedback' loads the contents, awaits the metrics of every post     *)
(* and saves: the metrics aside, what it writes is what it had loaded.     *)
StartEngagement(c) ==
  /\ isContent(file) /\ file.posts # NoPosts
  /\ Load(c, file, "saving", None)

(* mutants: a resumed content goes straight on to publish; a wrong name.   *)
bulkNextStage_toPublish(action, stage) ==
  CASE action \in {"pause", "cancel"}                   -> "needs_revision"
    [] action = "resume" /\ stage = "needs_revision"    -> "publish"
    [] action = "retry" /\ stage = "needs_revision"     -> "draft"
    [] OTHER                                            -> stage
bulkNextStage_misspelt(action, stage) ==
  IF action \in {"pause", "cancel"} THEN "revision" ELSE stage

bulkNextStage(action, stage) ==
  CASE action \in {"pause", "cancel"}                   -> "needs_revision"
    [] action = "resume" /\ stage = "needs_revision"    -> "review"
    [] action = "retry" /\ stage = "needs_revision"     -> "draft"
    [] OTHER                                            -> stage

(* apiBulk sets the stage as it finds it, without assertTransition.        *)
StartBulk(c, action) ==
  /\ isContent(file)
  /\ LET next == bulkNextStage(action, file.stage)
     IN  /\ next # file.stage
         /\ Load(c, [file EXCEPT !.stage = next], "saving", None)

Forget(c) ==
  /\ pc'   = [pc EXCEPT ![c] = "idle"]
  /\ mem'  = [mem EXCEPT ![c] = NoContent]
  /\ left' = [left EXCEPT ![c] = None]
  /\ todo' = [todo EXCEPT ![c] = {}]
  /\ recs' = [recs EXCEPT ![c] = NoPosts]

Save(c) ==
  /\ pc[c] = "saving"
  /\ file' = mem[c]
  /\ Forget(c)
  /\ UNCHANGED <<rows, commands, begun, sent, shown, faults>>

-----------------------------------------------------------------------------
(* Pipeline.run and Pipeline.step.                                         *)

(* A dispatch that advanced.  A run goes on while its stage is not         *)
(* terminal and its safety counter not used up, a single step ends.        *)
Advanced(c, content) ==
  /\ mem' = [mem EXCEPT ![c] = content]
  /\ IF left[c] = None
     THEN /\ pc' = [pc EXCEPT ![c] = "saving"] /\ UNCHANGED left
     ELSE /\ left' = [left EXCEPT ![c] = @ - 1]
          /\ pc'   = [pc EXCEPT ![c] = IF isTerminalStage(content.stage) \/ left[c] = 1
                                       THEN "saving" ELSE "working"]

(* A dispatch that did not: the content is saved as it was.                *)
Refused(c) ==
  /\ pc' = [pc EXCEPT ![c] = "saving"]
  /\ UNCHANGED <<mem, left>>

(* applyOk and simpleTransition: an edge that TRANSITIONS lacks blocks.    *)
applyOk(c, to, content) ==
  IF canTransition(mem[c].stage, to)
  THEN Advanced(c, [content EXCEPT !.stage = to])
  ELSE Refused(c)

At(c, stage) == pc[c] = "working" /\ mem[c].stage = stage

Elsewhere == UNCHANGED <<file, todo, recs, rows, commands, begun, sent, shown, faults>>

(* The crawler or the model behind an agent threw, or returned nothing.    *)
AgentFails(c) ==
  /\ \E stage \in {"research", "ideas", "draft"} : At(c, stage)
  /\ Refused(c)
  /\ Elsewhere

Intake(c) ==
  /\ At(c, "intake")
  /\ applyOk(c, "research", mem[c])
  /\ Elsewhere

Research(c) ==
  /\ At(c, "research")
  /\ applyOk(c, "ideas", [mem[c] EXCEPT !.sources = TRUE])
  /\ Elsewhere

(* The ideas matter through the platforms they target: one at least.       *)
Ideas(c) ==
  /\ At(c, "ideas")
  /\ IF mem[c].sources
     THEN \E targets \in SUBSET Platforms \ {{}} :
            applyOk(c, "draft", [mem[c] EXCEPT !.ideas = targets])
     ELSE Refused(c)
  /\ Elsewhere

(* Whether or not the translation that follows succeeds.                   *)
Draft(c) ==
  /\ At(c, "draft")
  /\ IF mem[c].ideas # {}
     THEN \E d \in {"good", "poor"} :
            applyOk(c, "review", [mem[c] EXCEPT !.draft = d])
     ELSE Refused(c)
  /\ Elsewhere

Review(c) ==
  /\ At(c, "review")
  /\ CASE mem[c].draft = "none" -> Refused(c)
       [] mem[c].draft = "good" -> applyOk(c, "publish", [mem[c] EXCEPT !.review = "approve"])
       [] mem[c].draft = "poor" -> applyOk(c, "needs_revision", [mem[c] EXCEPT !.review = "revise"])
  /\ Elsewhere

(* mutant: the cap on revisions is never met.                              *)
capped_never(content) == content.revisionCount > Safety

capped(content) == content.revisionCount >= MaxRevisions

(* The cap goes to done past assertTransition, which would refuse it.      *)
Revise(c) ==
  /\ At(c, "needs_revision")
  /\ IF capped(mem[c])
     THEN Advanced(c, [mem[c] EXCEPT !.stage = "done"])
     ELSE applyOk(c, "draft", [mem[c] EXCEPT !.revisionCount = @ + 1, !.review = "none"])
  /\ Elsewhere

-----------------------------------------------------------------------------
(* The publish stage: PublishAgent posts to one platform after the other.  *)

(* The fallback is for the record: a draft is made from ideas, which name  *)
(* a platform each, so that there are some by now.                         *)
deriveTargets(content) ==
  (IF content.ideas = {} THEN {DefaultPlatform} ELSE content.ideas)
    \cup {p \in Platforms : content.posts[p] # "none"}

BeginPublish(c) ==
  /\ At(c, "publish")
  /\ IF mem[c].draft = "none"
     THEN Refused(c) /\ UNCHANGED <<todo, recs, begun>>
     ELSE /\ pc'    = [pc EXCEPT ![c] = "publishing"]
          /\ todo'  = [todo EXCEPT ![c] = deriveTargets(mem[c])]
          /\ recs'  = [recs EXCEPT ![c] = NoPosts]
          /\ begun' = begun + 1
          /\ UNCHANGED <<mem, left>>
  /\ UNCHANGED <<file, rows, commands, sent, shown, faults>>

(* mutants: the row of a success is sunk as it was created; only successes *)
(* are sunk.                                                               *)
Sunk_asCreated(outcome) ==
  IF outcome = "ok" THEN {createQueueItem(0)} ELSE {recordAttemptFailure(createQueueItem(0), 0)}
Sunk_okOnly(outcome) ==
  IF outcome = "ok"
  THEN {[createQueueItem(0) EXCEPT !.status = "posted", !.postId = "id"]}
  ELSE {}

(* The row that goes to the queue for a post that ended with `outcome'.    *)
Sunk(outcome) ==
  {IF outcome = "ok"
   THEN [createQueueItem(0) EXCEPT !.status = "posted", !.postId = "id"]
   ELSE recordAttemptFailure(createQueueItem(0), 0)}

Publication(p, draft, outcome) ==
  IF outcome \in {"ok", "lost"}
  THEN /\ sent'  = [sent EXCEPT ![p] = @ + 1]
       /\ shown' = shown \cup {draft}
  ELSE UNCHANGED <<sent, shown>>

(* One post and its row.  An error of the sink is swallowed: the row is    *)
(* then missing.  "throw" stands for the rate limiter's refusal as well.   *)
PostOne(c, p, outcome) ==
  /\ pc[c] = "publishing" /\ p \in todo[c]
  /\ todo' = [todo EXCEPT ![c] = @ \ {p}]
  /\ recs' = [recs EXCEPT ![c][p] = IF outcome = "ok" THEN "posted" ELSE "failed"]
  /\ Publication(p, mem[c].draft, outcome)
  /\ \E sinkFails \in BOOLEAN :
       /\ faults' = faults + (IF outcome = "lost" THEN 1 ELSE 0) + (IF sinkFails THEN 1 ELSE 0)
       /\ faults' <= MaxFaults
       /\ IF sinkFails \/ Sunk(outcome) = {}
          THEN UNCHANGED rows
          ELSE \E i \in RowIds, item \in Sunk(outcome) :
                 /\ rows[i] = None
                 /\ rows' = [rows EXCEPT ![i] =
                      [platform |-> p, draft |-> mem[c].draft, item |-> item]]
  /\ UNCHANGED <<file, pc, mem, left, commands, begun>>

(* mutant: one failure does not count as long as there are records.        *)
allFailed_never(records) == \A p \in Platforms : records[p] = "none"

allFailed(records) == \A p \in Platforms : records[p] # "posted"

(* When every post failed the stage stays publish and the records are      *)
(* dropped; otherwise the content is done, failed posts and all.           *)
EndPublish(c) ==
  /\ pc[c] = "publishing" /\ todo[c] = {}
  /\ IF allFailed(recs[c])
     THEN Refused(c)
     ELSE applyOk(c, "done", [mem[c] EXCEPT !.posts = recs[c]])
  /\ recs' = [recs EXCEPT ![c] = NoPosts]
  /\ UNCHANGED <<file, todo, rows, commands, begun, sent, shown, faults>>

-----------------------------------------------------------------------------
(* The worker of the queue, one attempt at a time and some time later.     *)

WorkerAttempt(i, outcome) ==
  /\ rows[i] # None /\ ~ isTerminal(rows[i].item)
  /\ Publication(rows[i].platform, rows[i].draft, outcome)
  /\ faults' = faults + (IF outcome = "lost" THEN 1 ELSE 0)
  /\ faults' <= MaxFaults
  /\ rows' = [rows EXCEPT ![i].item = IF outcome = "ok"
                                      THEN recordAttemptSuccess(@, "id")
                                      ELSE recordAttemptFailure(@, 0)]
  /\ UNCHANGED <<file, locals, commands, begun>>

(* It dies between the post and the save of the row.                       *)
WorkerCrash(i) ==
  /\ rows[i] # None /\ ~ isTerminal(rows[i].item)
  /\ faults < MaxFaults
  /\ faults' = faults + 1
  /\ Publication(rows[i].platform, rows[i].draft, "lost")
  /\ UNCHANGED <<file, locals, rows, commands, begun>>

-----------------------------------------------------------------------------
(* A command is killed, while it saves possibly leaving a torn file.       *)
Crash(c) ==
  /\ pc[c] # "idle" /\ faults < MaxFaults
  /\ faults' = faults + 1
  /\ Forget(c)
  /\ file' \in {file} \cup (IF pc[c] = "saving" THEN {TornContent} ELSE {})
  /\ UNCHANGED <<rows, commands, begun, sent, shown>>

Start(c) ==
  \/ StartRun(c)
  \/ StartStep(c)
  \/ StartEngagement(c)
  \/ \E action \in BulkActions : StartBulk(c, action)

Work(c) ==
  \/ Intake(c)
  \/ Research(c)
  \/ Ideas(c)
  \/ Draft(c)
  \/ Review(c)
  \/ Revise(c)
  \/ AgentFails(c)
  \/ BeginPublish(c)
  \/ \E p \in Platforms, outcome \in Outcomes : PostOne(c, p, outcome)
  \/ EndPublish(c)
  \/ Save(c)

Worker ==
  \/ \E i \in RowIds, outcome \in Outcomes : WorkerAttempt(i, outcome)
  \/ \E i \in RowIds : WorkerCrash(i)

Next ==
  \/ \E c \in Commands : Start(c)
  \/ \E c \in Commands : Work(c)
  \/ \E c \in Commands : Crash(c)
  \/ Worker

Spec == Init /\ [][Next]_vars

-----------------------------------------------------------------------------
(* Properties                                                              *)

(* Only drafts that passed every check of the review reach a platform,     *)
(* however the commands overlap, whatever stage the web console sets a     *)
(* content to, and however late the worker posts the row.                  *)
OnlyReviewedPublished == shown \subseteq {"good"}

(* A platform accepts the content at most once for each time its publish   *)
(* stage was entered, plus once for each fault: neither the order of posts *)
(* and rows nor the worker's retries add to that.                          *)
AtMostOncePerPublish == \A p \in Platforms : sent[p] <= begun + faults

(* A post that a saved content records as failed is in the queue for the   *)
(* worker to repeat, unless the row could not be written.                  *)
FailedPostsQueued ==
  isContent(file) /\ faults = 0 =>
    \A p \in Platforms : file.posts[p] = "failed" =>
      \E i \in RowIds : rows[i] # None /\ rows[i].platform = p

(* A content is done because it was published somewhere or because its     *)
(* revisions were used up, never otherwise.                                *)
DoneForAReason ==
  isContent(file) /\ file.stage = "done" =>
    \/ \E p \in Platforms : file.posts[p] = "posted" /\ sent[p] > 0
    \/ file.revisionCount = MaxRevisions

(* The safety counter of Pipeline.run never decides: whatever the reviews  *)
(* say, a run has ended, done or refused, while rounds were left.  The     *)
(* longest run takes 6 + 3 * MaxRevisions rounds: checked with a Safety of *)
(* one more, which the code's 32 is for every MaxRevisions up to 8.        *)
RunsEndByThemselves == \A c \in Commands : left[c] # 0

(* Every change of a saved stage is an edge of TRANSITIONS ("任何非法转移抛  *)
(* InvalidTransition": any illegal transition throws, docs/architecture.md)*)
(* or the cap on revisions.                                                *)
LegalTransitionsOnly ==
  [][isContent(file) /\ isContent(file') /\ file'.stage # file.stage =>
        \/ canTransition(file.stage, file'.stage)
        \/ file.stage = "needs_revision" /\ file'.stage = "done"]_vars

(* One row per content and platform (header of publish-queue.ts).          *)
OneRowPerPlatform ==
  \A i, j \in RowIds :
    rows[i] # None /\ rows[j] # None /\ rows[i].platform = rows[j].platform => i = j
=============================================================================
