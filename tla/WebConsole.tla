----------------------------- MODULE WebConsole -----------------------------
(***************************************************************************)
(* The web console: the page (apps/web/app.js) and the server behind it    *)
(* (packages/cli/src/web-server.ts), over the content and queue files that *)
(* other `ima' processes write meanwhile.                                  *)
(*                                                                         *)
(*   the page    loads panels one after the other at a click, and all at   *)
(*               once at each snapshot of /api/events; the answer to that  *)
(*               is a single event, after which the browser reports an     *)
(*               error and asks again.  One badge tells all of that, and   *)
(*               whoever writes it last is read                            *)
(*   the server  runs one handler at a time; a handler lists a directory,  *)
(*               then reads the files one by one.  A file that does not    *)
(*               parse, or a row that is gone by the time it is read, makes*)
(*               the answer a 500                                          *)
(*                                                                         *)
(* Other clients than the page send bulk requests too.  The panels that    *)
(* show other files (feedback, metrics, production) load the same way and  *)
(* are left out.                                                           *)
(***************************************************************************)
EXTENDS Naturals, FiniteSets, Sequences, TLC

CONSTANTS
  Contents, Rows,    \* the files in `content' and `queue'
  Stages, Statuses,  \* bound: the stages and statuses the files tell
  Panels,            \* bound: the panels that are loaded
  Buttons,           \* "refresh", "run", "work" and the four bulk buttons
  Clients,           \* bound: bulk requests of others, an action and the
                     \* stage the body names, or None
  MaxEvents,         \* bound: buttons pressed, and what other processes do:
                     \* files opened or removed, processes killed
  Absent, Empty, Half, None

PageFiles == Contents \cup Rows
Whole(f)  == IF f \in Contents THEN Stages ELSE Statuses

BulkActions == {"pause", "resume", "retry", "cancel"}
Paths    == Panels \cup {"events", "run", "work"} \cup BulkActions
Events   == <<"source", "events">>
Requests == ({"click"} \X Paths) \cup {Events} \cup ({"live"} \X Panels)
            \cup {<<"client", c[1], c[2]>> : c \in Clients}   \* by who asks

ASSUME ConsoleAssumption ==
  /\ Contents \cap Rows = {}
  /\ None \notin PageFiles \cup Requests
  /\ Buttons \subseteq {"refresh", "run", "work"} \cup BulkActions
  /\ Clients \subseteq BulkActions \X (Stages \cup {None})
  /\ {Absent, Empty, Half} \cap (Stages \cup Statuses) = {}
  /\ MaxEvents \in Nat

VARIABLES
  store,     \* each file: Absent, Empty, Half or what it tells
  writing,   \* the files other processes have opened and truncated
  up,        \* the server runs
  serving,   \* the request its handler is at, or None
  dirs,      \* the directories the handler still has to list
  left,      \* the listed files it still has to read
  got,       \* what it has read
  saving,    \* the content a bulk handler is about to save, or None
  moved,     \* the stages it has saved
  net,       \* each request: "none", "sent", "lost", "error" or "answered"
  answer,    \* what the handler of an answered request had read
  todo,      \* what the button that was pressed still has to load
  stream,    \* the EventSource: "waiting", "asked", "open", "ended" or
             \* "refused"
  caught,    \* a load of the refresh under way has failed
  shown,     \* what each panel shows, and the live badge
  happened   \* events so far

handler == <<serving, dirs, left, got, saving, moved>>
wire    == <<net, answer>>
page    == <<todo, stream, caught, shown>>
consoleVars == <<store, writing, up, handler, wire, page, happened>>

NothingRead == [f \in {} |-> None]

AtRest ==
  /\ store \in [PageFiles -> {"review", "failed_dead"}]
  /\ \A f \in PageFiles : store[f] \in Whole(f)
  /\ writing = {}
  /\ serving = None /\ dirs = <<>> /\ left = {} /\ got = NothingRead
  /\ saving = None /\ moved = NothingRead
  /\ net = [r \in Requests |-> "none"]
  /\ answer = [r \in Requests |-> NothingRead]
  /\ todo = <<>> /\ stream = "waiting" /\ caught = FALSE
  /\ shown = [p \in Panels \cup {"badge"} |-> IF p = "badge" THEN <<"connecting">> ELSE <<>>]
  /\ happened = 0

ConsoleInit == AtRest /\ up = TRUE

Happens == happened < MaxEvents /\ happened' = happened + 1

-----------------------------------------------------------------------------
(* Other processes.                                                        *)

OpenFile(f) ==
  /\ f \notin writing /\ Happens
  /\ store' = [store EXCEPT ![f] = Empty]
  /\ writing' = writing \cup {f}
  /\ UNCHANGED <<up, handler, wire, page>>

FillFile(f) ==
  /\ f \in writing
  /\ \E told \in Whole(f) : store' = [store EXCEPT ![f] = told]
  /\ writing' = writing \ {f}
  /\ UNCHANGED <<up, handler, wire, page, happened>>

WriterDies(f) ==
  /\ f \in writing /\ Happens
  /\ \E rest \in {Empty, Half} : store' = [store EXCEPT ![f] = rest]
  /\ writing' = writing \ {f}
  /\ UNCHANGED <<up, handler, wire, page>>

(* Only prune removes files: dead rows.                                    *)
RemoveFile(f) ==
  /\ f \in Rows \ writing /\ store[f] = "failed_dead" /\ Happens
  /\ store' = [store EXCEPT ![f] = Absent]
  /\ UNCHANGED <<writing, up, handler, wire, page>>

-----------------------------------------------------------------------------
(* The server.                                                             *)

(* The directories each handler walks, in order.  The realtime snapshot    *)
(* lists the contents as well, but reads none of them.                     *)
apiContents == <<Contents>>
apiQueue    == <<Rows>>
apiStats    == <<Contents, Rows>>
apiBulk     == <<Contents>>
buildRealtimeSnapshot == <<Rows>>

Walk(path) ==
  CASE path = "contents"     -> apiContents
    [] path = "queue"        -> apiQueue
    [] path = "stats"        -> apiStats
    [] path = "events"       -> buildRealtimeSnapshot
    [] path \in BulkActions  -> apiBulk
    [] OTHER                 -> <<>>

Listed(dir) == {f \in dir : store[f] # Absent}

(* What is known, and that f tells this.                                   *)
Also(known, f, told) == [g \in DOMAIN known \cup {f} |-> IF g = f THEN told ELSE known[g]]

(* A handler begins.  /api/run and /api/queue/work answer without reading  *)
(* or writing a file: nothing is created, nothing worked.                  *)
Serve(r) ==
  /\ up /\ serving = None /\ net[r] = "sent"
  /\ serving' = r
  /\ LET walk == Walk(r[2])
     IN  IF walk = <<>>
         THEN UNCHANGED <<dirs, left>>
         ELSE left' = Listed(Head(walk)) /\ dirs' = Tail(walk)
  /\ got' = IF r[2] = "events" THEN [c \in Listed(Contents) |-> "file"] ELSE NothingRead
  /\ UNCHANGED <<store, writing, up, saving, moved, wire, page, happened>>

ListNext ==
  /\ serving # None /\ left = {} /\ saving = None /\ dirs # <<>>
  /\ left' = Listed(Head(dirs))
  /\ dirs' = Tail(dirs)
  /\ UNCHANGED <<store, writing, up, serving, got, saving, moved, wire, page, happened>>

Free ==
  /\ serving' = None /\ dirs' = <<>> /\ left' = {}
  /\ got' = NothingRead /\ saving' = None /\ moved' = NothingRead

(* The catch of createServer.                                              *)
Fails ==
  /\ net' = [net EXCEPT ![serving] = "error"]
  /\ Free
  /\ UNCHANGED answer

(* mutant: pause and resume are mixed up.                                  *)
bulkNextStage_swapped(action, stage) ==
  CASE action = "pause"  -> IF stage = "needs_revision" THEN "review" ELSE stage
    [] action = "resume" -> "needs_revision"
    [] action = "retry"  -> IF stage = "needs_revision" THEN "draft" ELSE stage
    [] action = "cancel" -> "needs_revision"

bulkNextStage(action, stage) ==
  CASE action = "pause"  -> "needs_revision"
    [] action = "resume" -> IF stage = "needs_revision" THEN "review" ELSE stage
    [] action = "retry"  -> IF stage = "needs_revision" THEN "draft" ELSE stage
    [] action = "cancel" -> "needs_revision"

(* The stage in the body of a bulk request: of the page's buttons only     *)
(* pause has one.  (A body may name contents too, which narrows it down    *)
(* the same way; the page never does.)                                     *)
named(r) ==
  CASE r[1] = "client"                    -> r[3]
    [] r[1] # "client" /\ r[2] = "pause" -> "review"
    [] OTHER                              -> None

where(r, stage) == named(r) \in {None, stage}

(* A content that is gone or blank is skipped; so is a blank row, but a row*)
(* is read without a look whether it is still there.                       *)
ReadFile(f) ==
  /\ f \in left /\ saving = None
  /\ IF store[f] = Half \/ (store[f] = Absent /\ f \in Rows)
     THEN Fails
     ELSE /\ left' = left \ {f}
          /\ IF store[f] \in {Absent, Empty}
             THEN UNCHANGED <<got, saving>>
             ELSE /\ got' = Also(got, f, store[f])
                  /\ IF /\ serving[2] \in BulkActions
                        /\ where(serving, store[f])
                        /\ bulkNextStage(serving[2], store[f]) # store[f]
                     THEN saving' = f
                     ELSE UNCHANGED saving
          /\ UNCHANGED <<serving, dirs, moved, wire>>
  /\ UNCHANGED <<store, writing, up, page, happened>>

(* apiBulk saves one content before it reads the next.                     *)
SaveMoved ==
  /\ saving # None
  /\ LET next == bulkNextStage(serving[2], got[saving])
     IN  /\ store' = [store EXCEPT ![saving] = next]
         /\ moved' = Also(moved, saving, next)
  /\ saving' = None
  /\ UNCHANGED <<writing, up, serving, dirs, left, got, wire, page, happened>>

Answer ==
  /\ serving # None /\ dirs = <<>> /\ left = {} /\ saving = None
  /\ net' = [net EXCEPT ![serving] = "answered"]
  /\ answer' = [answer EXCEPT ![serving] = got]
  /\ Free
  /\ UNCHANGED <<store, writing, up, page, happened>>

(* The connections of the requests break.                                  *)
KillServer ==
  /\ up /\ Happens
  /\ up' = FALSE
  /\ Free
  /\ net' = [r \in Requests |-> IF net[r] = "sent" THEN "lost" ELSE net[r]]
  /\ UNCHANGED <<store, writing, answer, page>>

StartServer ==
  /\ ~ up
  /\ up' = TRUE
  /\ UNCHANGED <<store, writing, handler, wire, page, happened>>

NobodyListens(r) ==
  /\ ~ up /\ net[r] = "sent"
  /\ net' = [net EXCEPT ![r] = "lost"]
  /\ UNCHANGED <<store, writing, up, handler, answer, page, happened>>

-----------------------------------------------------------------------------
(* The page.                                                               *)

behind == <<store, writing, up, handler>>

Failed(r) == net[r] \in {"lost", "error"}
Came(r)   == Failed(r) \/ net[r] = "answered"

(* The page takes an answer and perhaps asks for more.                     *)
Takes(r, asked) ==
  /\ net' = [q \in Requests |-> IF q \in asked THEN "sent"
                                ELSE IF q = r THEN "none" ELSE net[q]]
  /\ answer' = [answer EXCEPT ![r] = NothingRead]

Told(files, seen, values) ==
  [v \in values |-> Cardinality({f \in files \cap DOMAIN seen : seen[f] = v})]

(* The counts of the statistics panel, and the badges made from them.      *)
computeWebStats(seen) ==
  [contentsByStage |-> Told(Contents, seen, Stages),
   queueByStatus   |-> Told(Rows, seen, Statuses)]
buildWebConsoleSnapshot(seen) ==
  [contents |-> Cardinality(Contents \cap DOMAIN seen),
   queue    |-> Cardinality(Rows \cap DOMAIN seen),
   pending  |-> Cardinality({q \in Rows \cap DOMAIN seen : seen[q] = "pending"})]

(* What the page makes of what a handler has read.                         *)
Rendered(panel, seen) ==
  CASE panel = "contents" -> seen
    [] panel = "queue"    -> <<seen, Told(Rows, seen, Statuses)>>
    [] panel = "stats"    -> <<computeWebStats(seen), buildWebConsoleSnapshot(seen)>>
    [] panel = "badge"    -> <<Cardinality(Contents \cap DOMAIN seen),
                               Told(Rows, seen, Statuses)>>

(* What a button asks for: main(), runBulk and the two submit handlers.    *)
Plan(button) ==
  LET all == CASE button = "refresh" -> <<"contents", "queue", "stats">>
               [] button = "run"     -> <<"run", "contents">>
               [] button = "work"    -> <<"work", "queue">>
               [] OTHER              -> <<button, "contents", "queue">>
  IN  SelectSeq(all, LAMBDA path : path \in Panels \cup (Paths \ {"contents", "queue", "stats"}))

(* Bound: a button is pressed when the one before is through.              *)
Press(button) ==
  /\ todo = <<>> /\ Happens
  /\ todo' = Plan(button)
  /\ net' = [net EXCEPT ![<<"click", Head(Plan(button))>>] = "sent"]
  /\ UNCHANGED <<answer, stream, caught, shown, behind>>

(* The answer to a button: each panel waits for the one before, and the    *)
(* first that fails ends the rest.                                         *)
Loaded ==
  /\ todo # <<>>
  /\ LET r    == <<"click", Head(todo)>>
         rest == IF Failed(r) THEN <<>> ELSE Tail(todo)
     IN  /\ Came(r)
         /\ todo' = rest
         /\ Takes(r, IF rest = <<>> THEN {} ELSE {<<"click", Head(rest)>>})
         /\ IF Failed(r) \/ r[2] \notin Panels
            THEN UNCHANGED shown
            ELSE shown' = [shown EXCEPT ![r[2]] = Rendered(r[2], answer[r])]
  /\ UNCHANGED <<stream, caught, behind, happened>>

(* Another client sends a bulk request, and takes note of the answer.      *)
ClientAsks(r) ==
  /\ r[1] = "client" /\ net[r] = "none" /\ Happens
  /\ net' = [net EXCEPT ![r] = "sent"]
  /\ UNCHANGED <<answer, page, behind>>

ClientHears(r) ==
  /\ r[1] = "client" /\ Came(r)
  /\ Takes(r, {})
  /\ UNCHANGED <<page, behind, happened>>

(* mutant: the error listener closes the source.                           *)
StreamEnds_closes ==
  /\ stream = "ended"
  /\ stream' = "closed"
  /\ shown' = [shown EXCEPT !["badge"] = <<"reconnecting">>]
  /\ UNCHANGED <<wire, todo, caught, behind, happened>>

(* EventSource connects, and connects again after its answer has ended.    *)
Connect ==
  /\ stream = "waiting"
  /\ stream' = "asked"
  /\ net' = [net EXCEPT ![Events] = "sent"]
  /\ UNCHANGED <<answer, todo, caught, shown, behind, happened>>

(* The answer is taken in three events, between which the page does other  *)
(* things: `open' at its head, ...                                         *)
StreamOpens ==
  /\ stream = "asked" /\ net[Events] = "answered"
  /\ stream' = "open"
  /\ shown' = [shown EXCEPT !["badge"] = <<"connected">>]
  /\ UNCHANGED <<wire, todo, caught, behind, happened>>

(* ... `snapshot', which refreshes every panel at once, ...  Bound: the    *)
(* refresh before it is over.                                              *)
Snapshot ==
  /\ stream = "open"
  /\ \A panel \in Panels : net[<<"live", panel>>] = "none"
  /\ stream' = "ended"
  /\ shown' = [shown EXCEPT !["badge"] = Rendered("badge", answer[Events])]
  /\ Takes(Events, {"live"} \X Panels)
  /\ UNCHANGED <<todo, caught, behind, happened>>

(* ... and `error' at its end, for the server ends it after that one       *)
(* snapshot.                                                               *)
StreamEnds ==
  /\ stream = "ended"
  /\ stream' = "waiting"
  /\ shown' = [shown EXCEPT !["badge"] = <<"reconnecting">>]
  /\ UNCHANGED <<wire, todo, caught, behind, happened>>

(* An answer that is not a stream ends the source for good, a network      *)
(* error does not; the listener says the same of both.                     *)
StreamFails ==
  /\ stream = "asked" /\ Failed(Events)
  /\ stream' = IF net[Events] = "error" THEN "refused" ELSE "waiting"
  /\ shown' = [shown EXCEPT !["badge"] = <<"reconnecting">>]
  /\ Takes(Events, {})
  /\ UNCHANGED <<todo, caught, behind, happened>>

(* The answers to a refresh come in any order; one that failed leaves its  *)
(* panel as it was.  The first to fail rejects the whole of it, which the  *)
(* snapshot listener takes for a parse error; what the others do after     *)
(* that concerns nobody.                                                   *)
Refreshed(panel) ==
  LET r == <<"live", panel>>
  IN  /\ Came(r)
      /\ Takes(r, {})
      /\ shown' = IF ~ Failed(r) THEN [shown EXCEPT ![panel] = Rendered(panel, answer[r])]
                  ELSE IF caught THEN shown
                  ELSE [shown EXCEPT !["badge"] = <<"parse error">>]
      /\ caught' = /\ caught \/ Failed(r)
                   /\ \E other \in Panels \ {panel} : net[<<"live", other>>] # "none"
      /\ UNCHANGED <<todo, stream, behind, happened>>

-----------------------------------------------------------------------------

Server ==
  \/ \E r \in Requests : Serve(r)
  \/ ListNext
  \/ \E f \in PageFiles : ReadFile(f)
  \/ SaveMoved
  \/ Answer
  \/ \E r \in Requests : NobodyListens(r)

ConsoleNext ==
  \/ \E f \in PageFiles : OpenFile(f)
  \/ \E f \in PageFiles : FillFile(f)
  \/ \E f \in PageFiles : WriterDies(f)
  \/ \E f \in Rows : RemoveFile(f)
  \/ Server
  \/ KillServer
  \/ StartServer
  \/ \E button \in Buttons : Press(button)
  \/ Loaded
  \/ \E r \in Requests : ClientAsks(r) \/ ClientHears(r)
  \/ Connect
  \/ StreamOpens
  \/ Snapshot
  \/ StreamEnds
  \/ StreamFails
  \/ \E panel \in Panels : Refreshed(panel)

(* The server works, answers arrive, the browser reconnects.  Nobody has   *)
(* to press a button, start the server again or finish a file.             *)
ConsoleFairness ==
  /\ WF_consoleVars(Server)
  /\ WF_consoleVars(Loaded)
  /\ WF_consoleVars(Connect \/ StreamOpens \/ Snapshot \/ StreamEnds \/ StreamFails)
  /\ WF_consoleVars(\E panel \in Panels : Refreshed(panel))

ConsoleSpec == ConsoleInit /\ [][ConsoleNext]_consoleVars /\ ConsoleFairness

-----------------------------------------------------------------------------
(* Properties                                                              *)

Tells(files) == [f \in {g \in files : store[g] \in Whole(g)} |-> store[f]]

(* What a panel would show if it were loaded now.                          *)
Current(panel) ==
  Rendered(panel,
    CASE panel = "contents" -> Tells(Contents)
      [] panel = "queue"    -> Tells(Rows)
      [] panel = "stats"    -> Tells(PageFiles)
      [] panel = "badge"    -> [c \in Listed(Contents) |-> "file"] @@ Tells(Rows))

(* The live updates are at work: the server runs, no file is unparsable    *)
(* and no refused stream has ended them.                                   *)
Live == up /\ stream # "refused" /\ \A f \in PageFiles : store[f] # Half

(* Without a click, every panel comes to show the files as they are and    *)
(* goes on doing so, although the answers overtake each other, single      *)
(* loads fail and a bulk action may end half-way: unless the live updates  *)
(* have stopped.                                                           *)
PanelsCatchUp == <>[](Live => \A p \in Panels : shown[p] = Current(p))

(* The badge has no such rest: whatever it told of the snapshot, `error'   *)
(* writes over it before the next one.  But it comes back to the counts as *)
(* they are again and again, unless the live updates have stopped.         *)
BadgeComesBack == []<>(Live => shown["badge"] = Current("badge"))

(* The live updates of the page do both.                                   *)
PageCatchesUp == PanelsCatchUp /\ BadgeComesBack

(* nextStage of core's reduceBulkContentAction, the second implementation  *)
(* of the bulk buttons.                                                    *)
nextStage(stage, kind) ==
  CASE kind = "pause"  -> IF stage = "done" THEN "done" ELSE "needs_revision"
    [] kind = "resume" -> IF stage = "needs_revision" THEN "review" ELSE stage
    [] kind = "retry"  -> IF stage = "needs_revision" THEN "draft" ELSE stage
    [] kind = "cancel" -> "needs_revision"

(* The one case that the two decide differently: the server pauses a       *)
(* content that is done.                                                   *)
expected(stage, kind) ==
  IF kind = "pause" /\ stage = "done" THEN "needs_revision" ELSE nextStage(stage, kind)

(* The contents the request should change, of those it is given.           *)
reduced(stages, r) ==
  [c \in {b \in DOMAIN stages : where(r, stages[b]) /\ expected(stages[b], r[2]) # stages[b]}
     |-> expected(stages[c], r[2])]

(* When a bulk request is answered, the server has saved exactly what      *)
(* reduceBulkContentAction makes of the contents it read, and the done     *)
(* ones back to needs_revision that a pause without a stage, or of that    *)
(* stage, takes in -- no matter what other processes wrote between its     *)
(* reads and its saves.  Other requests save nothing.                      *)
BulkAsReduced ==
  serving # None /\ saving = None /\ left = {} =>
    IF serving[2] \in BulkActions THEN moved = reduced(got, serving) ELSE moved = NothingRead
=============================================================================
