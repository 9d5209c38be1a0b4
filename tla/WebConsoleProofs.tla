-------------------------- MODULE WebConsoleProofs --------------------------
(***************************************************************************)
(* The bulk requests of the web console, for any contents, panels, buttons,*)
(* clients and events: what a bulk request has saved when it is answered   *)
(* is what core's reducer makes of what it read, but for the done contents *)
(* that only the server pauses.                                            *)
(*                                                                         *)
(* The invariant follows the handler through its loop: what it has saved   *)
(* is what the reducer makes of what it has read, but for the one content  *)
(* that it is about to save, and it reads each content once.  What others  *)
(* write in between touches the files, and neither of these.               *)
(***************************************************************************)
EXTENDS WebConsole, TLAPS

(* What the handler has read, but for one content.                         *)
Without(seen, f) == [c \in DOMAIN seen \ {f} |-> seen[c]]

(* The content that is about to be saved is one the action changes.        *)
Changes(r, stage) == where(r, stage) /\ bulkNextStage(r[2], stage) # stage

Idle == left = {} /\ saving = None /\ got = NothingRead /\ moved = NothingRead

(* Other handlers save nothing.                                            *)
Reads == saving = None /\ moved = NothingRead

(* The handler of a bulk request between two of its steps.                 *)
Bulk(r) ==
  /\ dirs = <<>>
  /\ left \subseteq Contents
  /\ left \cap DOMAIN got = {}
  /\ got = [c \in DOMAIN got |-> got[c]]
  /\ saving = None => moved = reduced(got, r)
  /\ saving # None =>
       /\ saving \in DOMAIN got
       /\ Changes(r, got[saving])
       /\ moved = reduced(Without(got, saving), r)

HandlerInv ==
  /\ serving = None \/ serving \in Requests
  /\ serving = None => Idle
  /\ serving # None /\ serving[2] \notin BulkActions => Reads
  /\ serving # None /\ serving[2] \in BulkActions => Bulk(serving)

-----------------------------------------------------------------------------
(* The two implementations of the bulk actions                             *)

(* The server and the reducer name the same stage, but for the one case.   *)
LEMMA SameStage ==
  ASSUME NEW kind \in BulkActions, NEW stage
  PROVE  /\ bulkNextStage(kind, stage) = expected(stage, kind)
         /\ ~ (kind = "pause" /\ stage = "done") => bulkNextStage(kind, stage) = nextStage(stage, kind)
BY DEF BulkActions, bulkNextStage, nextStage, expected

(* Nothing read, nothing changed.                                          *)
LEMMA NothingReduced ==
  ASSUME NEW r
  PROVE  reduced(NothingRead, r) = NothingRead
BY DEF reduced, NothingRead

(* The contents that the action changes, of those that were read.          *)
Changed(seen, r) == {c \in DOMAIN seen : Changes(r, seen[c])}

LEMMA ReducedIs ==
  ASSUME NEW r, r[2] \in BulkActions, NEW seen
  PROVE  reduced(seen, r) = [c \in Changed(seen, r) |-> bulkNextStage(r[2], seen[c])]
<1> DEFINE S == {c \in DOMAIN seen : where(r, seen[c]) /\ expected(seen[c], r[2]) # seen[c]}
<1>1. S = Changed(seen, r)
  BY SameStage DEF Changed, Changes
<1>2. \A c \in S : expected(seen[c], r[2]) = bulkNextStage(r[2], seen[c])
  BY SameStage
<1>3. reduced(seen, r) = [c \in S |-> expected(seen[c], r[2])]
  BY DEF reduced
<1> HIDE DEF S
<1> QED
  BY <1>1, <1>2, <1>3

(* A content is read that the action leaves alone.                         *)
LEMMA ReadUnchanged ==
  ASSUME NEW r, r[2] \in BulkActions, NEW seen, NEW f, NEW told,
         f \notin DOMAIN seen, ~ Changes(r, told)
  PROVE  reduced(Also(seen, f, told), r) = reduced(seen, r)
<1> DEFINE more == Also(seen, f, told)
<1>1. /\ DOMAIN more = DOMAIN seen \cup {f}
      /\ more[f] = told
      /\ \A c \in DOMAIN seen : more[c] = seen[c]
  BY DEF Also
<1> HIDE DEF more
<1>2. Changed(more, r) = Changed(seen, r)
  BY <1>1 DEF Changed
<1>3. \A c \in Changed(seen, r) : more[c] = seen[c]
  BY <1>1 DEF Changed
<1>4. [c \in Changed(more, r) |-> bulkNextStage(r[2], more[c])]
        = [c \in Changed(seen, r) |-> bulkNextStage(r[2], seen[c])]
  BY <1>2, <1>3
<1> QED
  BY <1>4, ReducedIs DEF more

(* Without the content that was read last, it is what was read before.     *)
LEMMA WithoutLast ==
  ASSUME NEW seen, NEW f, NEW told, f \notin DOMAIN seen, seen = [c \in DOMAIN seen |-> seen[c]]
  PROVE  Without(Also(seen, f, told), f) = seen
<1> DEFINE more == Also(seen, f, told)
<1>1. DOMAIN more = DOMAIN seen \cup {f} /\ \A c \in DOMAIN seen : more[c] = seen[c]
  BY DEF Also
<1> HIDE DEF more
<1>2. DOMAIN more \ {f} = DOMAIN seen
  BY <1>1
<1>3. Without(more, f) = [c \in DOMAIN seen |-> more[c]]
  BY <1>2 DEF Without
<1> QED
  BY <1>1, <1>3 DEF more

(* The content that was left out is saved.                                 *)
LEMMA SavedLast ==
  ASSUME NEW r, r[2] \in BulkActions, NEW seen, NEW f \in DOMAIN seen, Changes(r, seen[f])
  PROVE  Also(reduced(Without(seen, f), r), f, bulkNextStage(r[2], seen[f]))
           = reduced(seen, r)
<1> DEFINE less == Without(seen, f)
           before == reduced(less, r)
           after == Also(before, f, bulkNextStage(r[2], seen[f]))
<1>1. DOMAIN less = DOMAIN seen \ {f} /\ \A c \in DOMAIN less : less[c] = seen[c]
  BY DEF Without
<1> HIDE DEF less
<1>2. Changed(seen, r) = Changed(less, r) \cup {f} /\ f \notin Changed(less, r)
  BY <1>1 DEF Changed
<1>3. before = [c \in Changed(less, r) |-> bulkNextStage(r[2], less[c])]
  BY ReducedIs
<1> HIDE DEF before
<1>4. DOMAIN before = Changed(less, r)
      /\ \A c \in Changed(less, r) : before[c] = bulkNextStage(r[2], seen[c])
  BY <1>1, <1>3 DEF Changed
<1>5. after = [c \in Changed(seen, r) |-> IF c = f THEN bulkNextStage(r[2], seen[f]) ELSE before[c]]
  BY <1>2, <1>4 DEF Also
<1>6. after = [c \in Changed(seen, r) |-> bulkNextStage(r[2], seen[c])]
  BY <1>2, <1>4, <1>5
<1> QED
  BY <1>6, ReducedIs DEF before, less

-----------------------------------------------------------------------------
(* The handler                                                             *)

LEMMA InitHandler == ConsoleInit => HandlerInv
BY DEF ConsoleInit, AtRest, HandlerInv, Idle

(* A handler that is done leaves nothing behind.                           *)
LEMMA FreeIsIdle == Free => HandlerInv'
BY DEF Free, HandlerInv, Idle

LEMMA ServeKeeps ==
  ASSUME HandlerInv, NEW r \in Requests, Serve(r)
  PROVE  HandlerInv'
<1>1. serving = None /\ serving' = r /\ r # None
  BY ConsoleAssumption DEF Serve
<1>2. saving' = None /\ moved' = NothingRead
  BY <1>1 DEF Serve, HandlerInv, Idle
<1>3. CASE r[2] \notin BulkActions
  BY <1>1, <1>2, <1>3 DEF HandlerInv, Reads
<1>4. CASE r[2] \in BulkActions
  <2>1. Walk(r[2]) = <<Contents>>
    BY <1>4 DEF Walk, BulkActions, apiBulk
  <2>2. left' = Listed(Contents) /\ dirs' = <<>>
    BY <2>1 DEF Serve
  <2>3. got' = NothingRead
    BY <1>4 DEF Serve, BulkActions
  <2>4. left' \subseteq Contents
    BY <2>2 DEF Listed
  <2>5. moved' = reduced(got', r)
    BY <1>2, <2>3, NothingReduced
  <2>6. DOMAIN got' = {} /\ got' = [c \in DOMAIN got' |-> got'[c]]
    BY <2>3 DEF NothingRead
  <2>7. Bulk(serving)'
    BY <1>1, <1>2, <2>2, <2>4, <2>5, <2>6 DEF Bulk
  <2> QED
    BY <1>1, <1>4, <2>7 DEF HandlerInv
<1> QED
  BY <1>3, <1>4

(* A bulk handler has one directory only.                                  *)
LEMMA ListNextKeeps ==
  ASSUME HandlerInv, ListNext
  PROVE  HandlerInv'
<1>1. serving[2] \notin BulkActions
  BY DEF HandlerInv, Bulk, ListNext
<1> QED
  BY <1>1 DEF HandlerInv, Reads, ListNext

LEMMA ReadFileKeeps ==
  ASSUME HandlerInv, NEW f \in PageFiles, ReadFile(f)
  PROVE  HandlerInv'
<1> DEFINE kind == serving[2]
<1>1. CASE Fails
  BY <1>1, FreeIsIdle DEF Fails
<1>2. ASSUME ~ Fails PROVE HandlerInv'
  <2>1. /\ f \in left /\ saving = None /\ left' = left \ {f}
        /\ UNCHANGED <<serving, dirs, moved>>
    BY <1>2 DEF ReadFile, Fails
  <2>2. serving # None /\ serving \in Requests
    BY <2>1 DEF HandlerInv, Idle
  <2>3. CASE UNCHANGED <<got, saving>>
    BY <2>1, <2>2, <2>3 DEF HandlerInv, Reads, Bulk
  <2>4. ASSUME ~ UNCHANGED <<got, saving>> PROVE HandlerInv'
    <3>1. got' = Also(got, f, store[f])
      BY <1>2, <2>4 DEF ReadFile
    <3>2. saving' = IF kind \in BulkActions /\ Changes(serving, store[f]) THEN f ELSE None
      BY <1>2, <2>1, <2>4 DEF ReadFile, Changes
    <3>3. CASE kind \notin BulkActions
      BY <2>1, <2>2, <3>2, <3>3 DEF HandlerInv, Reads
    <3>4. CASE kind \in BulkActions
      <4>1. /\ Bulk(serving) /\ f \notin DOMAIN got
            /\ got = [c \in DOMAIN got |-> got[c]] /\ moved = reduced(got, serving)
            /\ dirs = <<>> /\ left \subseteq Contents /\ left \cap DOMAIN got = {}
        BY <2>1, <2>2, <3>4 DEF HandlerInv, Bulk
      <4>2. /\ DOMAIN got' = DOMAIN got \cup {f}
            /\ got'[f] = store[f]
            /\ got' = [c \in DOMAIN got' |-> got'[c]]
        BY <3>1 DEF Also
      <4>3. left' \subseteq Contents /\ left' \cap DOMAIN got' = {}
        BY <2>1, <4>1, <4>2
      <4>4. saving' = None => moved' = reduced(got', serving)
        <5>1. ASSUME saving' = None PROVE ~ Changes(serving, store[f])
          BY <3>2, <3>4, <5>1, ConsoleAssumption
        <5> QED
          BY <2>1, <3>1, <3>4, <4>1, <5>1, ReadUnchanged
      <4>5. saving' # None => /\ saving' \in DOMAIN got'
                              /\ Changes(serving, got'[saving'])
                              /\ moved' = reduced(Without(got', saving'), serving)
        <5> SUFFICES ASSUME saving' # None
                     PROVE  /\ saving' \in DOMAIN got'
                            /\ Changes(serving, got'[saving'])
                            /\ moved' = reduced(Without(got', saving'), serving)
          OBVIOUS
        <5>1. saving' = f /\ Changes(serving, store[f])
          BY <3>2
        <5>2. Without(got', f) = got
          BY <3>1, <4>1, WithoutLast
        <5> QED
          BY <2>1, <4>1, <4>2, <5>1, <5>2
      <4>6. Bulk(serving)'
        BY <2>1, <4>1, <4>2, <4>3, <4>4, <4>5 DEF Bulk, Changes
      <4> QED
        BY <2>1, <2>2, <3>4, <4>6 DEF HandlerInv
    <3> QED
      BY <3>3, <3>4
  <2> QED
    BY <2>3, <2>4
<1> QED
  BY <1>1, <1>2

LEMMA SaveMovedKeeps ==
  ASSUME HandlerInv, SaveMoved
  PROVE  HandlerInv'
<1> DEFINE kind == serving[2]
<1>1. /\ saving # None /\ saving' = None
      /\ moved' = Also(moved, saving, bulkNextStage(kind, got[saving]))
      /\ UNCHANGED <<serving, dirs, left, got>>
  BY DEF SaveMoved
<1>2. serving # None /\ serving \in Requests /\ kind \in BulkActions /\ Bulk(serving)
  BY <1>1 DEF HandlerInv, Idle, Reads
<1>3. saving \in DOMAIN got /\ Changes(serving, got[saving]) /\ moved = reduced(Without(got, saving), serving)
  BY <1>1, <1>2 DEF Bulk
<1>4. moved' = reduced(got, serving)
  BY <1>1, <1>2, <1>3, SavedLast
<1>5. Bulk(serving)'
  BY <1>1, <1>2, <1>4 DEF Bulk
<1> QED
  BY <1>1, <1>2, <1>5 DEF HandlerInv

(* Nobody else touches the handler.                                        *)
LEMMA OthersKeep ==
  ASSUME HandlerInv, UNCHANGED handler
  PROVE  HandlerInv'
BY DEF HandlerInv, handler, Idle, Reads, Bulk

LEMMA NextHandler == HandlerInv /\ [ConsoleNext]_consoleVars => HandlerInv'
<1> SUFFICES ASSUME HandlerInv, [ConsoleNext]_consoleVars PROVE HandlerInv'
  OBVIOUS
<1> USE OthersKeep
<1>1. CASE \E f \in PageFiles : OpenFile(f) \/ FillFile(f) \/ WriterDies(f)
  BY <1>1 DEF OpenFile, FillFile, WriterDies
<1>2. CASE \E f \in Rows : RemoveFile(f)
  BY <1>2 DEF RemoveFile
<1>3. CASE Server
  <2>1. CASE Answer
    BY <2>1, FreeIsIdle DEF Answer
  <2>2. CASE \E r \in Requests : NobodyListens(r)
    BY <2>2 DEF NobodyListens
  <2> QED
    BY <1>3, <2>1, <2>2, ServeKeeps, ListNextKeeps, ReadFileKeeps, SaveMovedKeeps DEF Server
<1>4. CASE KillServer
  BY <1>4, FreeIsIdle DEF KillServer
<1>5. CASE StartServer
  BY <1>5 DEF StartServer
<1>6. CASE \E button \in Buttons : Press(button)
  BY <1>6 DEF Press, behind
<1>7. CASE Loaded \/ Connect \/ StreamOpens \/ Snapshot \/ StreamEnds \/ StreamFails
  BY <1>7 DEF Loaded, Connect, StreamOpens, Snapshot, StreamEnds, StreamFails, behind
<1>8. CASE \E panel \in Panels : Refreshed(panel)
  BY <1>8 DEF Refreshed, behind
<1>9. CASE \E r \in Requests : ClientAsks(r) \/ ClientHears(r)
  BY <1>9 DEF ClientAsks, ClientHears, behind
<1>10. CASE UNCHANGED consoleVars
  BY <1>10 DEF consoleVars
<1> QED
  BY <1>1, <1>2, <1>3, <1>4, <1>5, <1>6, <1>7, <1>8, <1>9, <1>10 DEF ConsoleNext

(* Whatever other processes write, open or remove between its reads and    *)
(* its saves, whoever is killed and whatever else is asked for, by the     *)
(* page or by others, with a stage or without: when a handler is through   *)
(* with what it read, a bulk one has saved what the reducer of core makes  *)
(* of that and has paused the done contents it took in besides, and any    *)
(* other has saved nothing.                                                *)
THEOREM BulkDoesAsReduced == ConsoleSpec => []BulkAsReduced
<1>1. HandlerInv => BulkAsReduced
  BY DEF HandlerInv, Bulk, Reads, BulkAsReduced
<1> QED
  BY <1>1, InitHandler, NextHandler, PTL DEF ConsoleSpec
=============================================================================
