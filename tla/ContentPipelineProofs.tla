------------------------ MODULE ContentPipelineProofs ------------------------
(***************************************************************************)
(* Theorems about ContentPipeline, for any set of platforms and commands   *)
(* and any cap on revisions: what a content is, what it says of its past   *)
(* (the posts it records, why it is done), and that a run ends by itself.  *)
(***************************************************************************)
EXTENDS ContentPipeline, PublishQueueProofs, FiniteSetTheorems

-----------------------------------------------------------------------------
(* The inductive invariant.                                                *)

Places == {"idle", "working", "publishing", "saving"}
Rounds == (0 .. Safety) \cup {None}

(* Whoever is at the publish stage has a draft that passed the review.     *)
Reviewed(content) == content.stage = "publish" => content.draft = "good"

(* What a command holds at each place.                                     *)
Fits(place, content, rounds) ==
  /\ place # "idle" => content \in Contents /\ Reviewed(content)
  /\ place = "publishing" => content.stage = "publish"
  /\ place \in {"working", "publishing"} => rounds # 0

(* What commands share: the file, the queue rows, the history.             *)
SharedOK ==
  /\ file \in Contents \cup {NoContent, TornContent}
  /\ isContent(file) => Reviewed(file)
  /\ rows \in [RowIds -> QueueRows \cup {None}]
  /\ \A i \in RowIds : rows[i] # None => rows[i].draft = "good"
  /\ commands \in Nat /\ begun \in Nat /\ faults \in Nat
  /\ sent \in [Platforms -> Nat]
  /\ shown \subseteq {"good"}

(* The variables of the commands.                                          *)
LocalsOK ==
  /\ pc \in [Commands -> Places]
  /\ mem \in [Commands -> Contents \cup {NoContent}]
  /\ left \in [Commands -> Rounds]
  /\ todo \in [Commands -> SUBSET Platforms]
  /\ recs \in [Commands -> [Platforms -> {"none", "posted", "failed"}]]
  /\ \A c \in Commands : Fits(pc[c], mem[c], left[c])

PubInv == SharedOK /\ LocalsOK

-----------------------------------------------------------------------------
(* What a step of command c must establish for LocalsOK.                   *)
LEMMA LocalStep ==
  ASSUME LocalsOK, NEW c \in Commands,
         NEW place \in Places, NEW content \in Contents \cup {NoContent},
         NEW rounds \in Rounds, NEW T \in SUBSET Platforms,
         NEW R \in [Platforms -> {"none", "posted", "failed"}],
         pc' = [pc EXCEPT ![c] = place],
         mem' = [mem EXCEPT ![c] = content],
         left' = [left EXCEPT ![c] = rounds],
         todo' = [todo EXCEPT ![c] = T],
         recs' = [recs EXCEPT ![c] = R],
         Fits(place, content, rounds)
  PROVE  LocalsOK'
<1>1. /\ pc' \in [Commands -> Places]
      /\ mem' \in [Commands -> Contents \cup {NoContent}]
      /\ left' \in [Commands -> Rounds]
      /\ todo' \in [Commands -> SUBSET Platforms]
      /\ recs' \in [Commands -> [Platforms -> {"none", "posted", "failed"}]]
  BY DEF LocalsOK
<1>2. ASSUME NEW d \in Commands
      PROVE  Fits(pc'[d], mem'[d], left'[d])
  <2>1. CASE d = c
    BY <2>1 DEF LocalsOK
  <2>2. CASE d # c
    BY <2>2 DEF LocalsOK
  <2> QED BY <2>1, <2>2
<1>3. (\A d \in Commands : Fits(pc[d], mem[d], left[d]))'
  BY <1>2 DEF Fits, Reviewed
<1> QED BY <1>1, <1>3 DEF LocalsOK

(* What the variables of c are while c leaves them alone.                  *)
LEMMA Unmoved ==
  ASSUME LocalsOK, NEW c \in Commands
  PROVE  /\ pc[c] \in Places /\ left[c] \in Rounds /\ todo[c] \in SUBSET Platforms
         /\ mem[c] \in Contents \cup {NoContent}
         /\ recs[c] \in [Platforms -> {"none", "posted", "failed"}]
         /\ Fits(pc[c], mem[c], left[c])
         /\ pc = [pc EXCEPT ![c] = pc[c]]
         /\ mem = [mem EXCEPT ![c] = mem[c]]
         /\ left = [left EXCEPT ![c] = left[c]]
         /\ todo = [todo EXCEPT ![c] = todo[c]]
         /\ recs = [recs EXCEPT ![c] = recs[c]]
BY DEF LocalsOK

(* A dispatch that advanced: the new content must be reviewed if it is to  *)
(* be published.                                                           *)
LEMMA AdvancedOK ==
  ASSUME LocalsOK, NEW c \in Commands, NEW content \in Contents,
         pc[c] \in {"working", "publishing"},
         Reviewed(content),
         Advanced(c, content), UNCHANGED todo,
         NEW R \in [Platforms -> {"none", "posted", "failed"}],
         recs' = [recs EXCEPT ![c] = R]
  PROVE  LocalsOK'
<1>1. left[c] \in Rounds /\ left[c] # 0
  BY Unmoved DEF Fits
<1>2. mem' = [mem EXCEPT ![c] = content]
  BY DEF Advanced
<1>3. CASE left[c] = None
  <2>1. pc' = [pc EXCEPT ![c] = "saving"] /\ UNCHANGED left
    BY <1>3 DEF Advanced
  <2>2. Fits("saving", content, left[c])
    BY DEF Fits
  <2> QED BY <1>2, <2>1, <2>2, Unmoved, LocalStep DEF Places
<1>4. CASE left[c] # None
  <2> DEFINE place == IF isTerminalStage(content.stage) \/ left[c] = 1 THEN "saving" ELSE "working"
             n     == left[c] - 1
  <2>1. left' = [left EXCEPT ![c] = n] /\ pc' = [pc EXCEPT ![c] = place]
    BY <1>4 DEF Advanced
  <2>2. left[c] \in 1 .. Safety
    BY <1>1, <1>4, PipelineAssumption DEF Rounds
  <2>3. n \in Rounds /\ (left[c] # 1 => n # 0)
    BY <2>2, PipelineAssumption DEF Rounds
  <2> HIDE DEF n
  <2>4. Fits(place, content, n)
    BY <2>3 DEF Fits
  <2>5. place \in Places
    BY DEF Places
  <2> HIDE DEF place
  <2> QED BY <1>2, <2>1, <2>3, <2>4, <2>5, Unmoved, LocalStep
<1> QED BY <1>3, <1>4

(* A dispatch that refused: the content is saved as it was.                *)
LEMMA RefusedOK ==
  ASSUME LocalsOK, NEW c \in Commands,
         pc[c] \in {"working", "publishing"},
         Refused(c), UNCHANGED todo,
         NEW R \in [Platforms -> {"none", "posted", "failed"}],
         recs' = [recs EXCEPT ![c] = R]
  PROVE  LocalsOK'
<1>1. Fits("saving", mem[c], left[c])
  BY Unmoved DEF Fits
<1>2. /\ pc' = [pc EXCEPT ![c] = "saving"]
      /\ mem' = [mem EXCEPT ![c] = mem[c]]
      /\ left' = [left EXCEPT ![c] = left[c]]
      /\ todo' = [todo EXCEPT ![c] = todo[c]]
  BY Unmoved DEF Refused
<1>3. /\ mem[c] \in Contents \cup {NoContent}
      /\ left[c] \in Rounds /\ todo[c] \in SUBSET Platforms
      /\ "saving" \in Places
  BY Unmoved DEF Places
<1> QED BY <1>1, <1>2, <1>3, LocalStep

(* A copy of a reviewed content with another stage.                        *)
LEMMA WithStage ==
  ASSUME NEW content \in Contents, NEW to \in Stages
  PROVE  /\ [content EXCEPT !.stage = to] \in Contents
         /\ to # "publish" => Reviewed([content EXCEPT !.stage = to])
         /\ [content EXCEPT !.stage = to].draft = content.draft
BY DEF Contents, Reviewed

(* An agent that leads to another stage than publish.                      *)
LEMMA ToStage ==
  ASSUME LocalsOK, NEW c \in Commands, NEW content \in Contents,
         NEW to \in Stages \ {"publish"},
         pc[c] = "working",
         applyOk(c, to, content), UNCHANGED <<todo, recs>>
  PROVE  LocalsOK'
<1> DEFINE next == [content EXCEPT !.stage = to]
<1>1. next \in Contents /\ Reviewed(next)
  BY WithStage
<1>2. /\ recs[c] \in [Platforms -> {"none", "posted", "failed"}]
      /\ recs' = [recs EXCEPT ![c] = recs[c]]
  BY Unmoved
<1>3. CASE canTransition(mem[c].stage, to)
  <2>1. Advanced(c, next)
    BY <1>3 DEF applyOk
  <2> HIDE DEF next
  <2> QED BY <1>1, <1>2, <2>1, AdvancedOK
<1>4. CASE ~ canTransition(mem[c].stage, to)
  <2>1. Refused(c)
    BY <1>4 DEF applyOk
  <2> QED BY <1>2, <2>1, RefusedOK
<1> QED BY <1>3, <1>4

(* The agents before the publish stage.  Only Review leads there, with a   *)
(* good draft.                                                             *)
LEMMA AgentsOK ==
  ASSUME LocalsOK, NEW c \in Commands,
         \/ AgentFails(c) \/ Intake(c) \/ Research(c) \/ Ideas(c)
         \/ Draft(c) \/ Review(c) \/ Revise(c)
  PROVE  LocalsOK'
<1>1. /\ pc[c] = "working" /\ mem[c] \in Contents
      /\ recs[c] \in [Platforms -> {"none", "posted", "failed"}]
      /\ recs' = [recs EXCEPT ![c] = recs[c]]
      /\ UNCHANGED <<todo, recs>>
  BY Unmoved DEF Fits, AgentFails, Intake, Research, Ideas, Draft, Review, Revise, At, Elsewhere
<1>2. CASE AgentFails(c)
  BY <1>1, <1>2, RefusedOK DEF AgentFails
<1>3. CASE Intake(c)
  <2>1. applyOk(c, "research", mem[c])
    BY <1>3 DEF Intake
  <2> QED BY <1>1, <2>1, ToStage DEF Stages
<1>4. CASE Research(c)
  <2>1. [mem[c] EXCEPT !.sources = TRUE] \in Contents
    BY <1>1 DEF Contents
  <2>2. applyOk(c, "ideas", [mem[c] EXCEPT !.sources = TRUE])
    BY <1>4 DEF Research
  <2> QED BY <1>1, <2>1, <2>2, ToStage DEF Stages
<1>5. CASE Ideas(c)
  <2>1. CASE mem[c].sources
    <3>1. PICK targets \in SUBSET Platforms :
            applyOk(c, "draft", [mem[c] EXCEPT !.ideas = targets])
      BY <1>5, <2>1 DEF Ideas
    <3>2. [mem[c] EXCEPT !.ideas = targets] \in Contents
      BY <1>1 DEF Contents
    <3> QED BY <1>1, <3>1, <3>2, ToStage DEF Stages
  <2>2. CASE ~ mem[c].sources
    BY <1>1, <1>5, <2>2, RefusedOK DEF Ideas
  <2> QED BY <2>1, <2>2
<1>6. CASE Draft(c)
  <2>1. CASE mem[c].ideas # {}
    <3>1. PICK d \in {"good", "poor"} :
            applyOk(c, "review", [mem[c] EXCEPT !.draft = d])
      BY <1>6, <2>1 DEF Draft
    <3>2. [mem[c] EXCEPT !.draft = d] \in Contents
      BY <1>1 DEF Contents
    <3> QED BY <1>1, <3>1, <3>2, ToStage DEF Stages
  <2>2. CASE mem[c].ideas = {}
    BY <1>1, <1>6, <2>2, RefusedOK DEF Draft
  <2> QED BY <2>1, <2>2
<1>7. CASE Review(c)
  <2>1. mem[c].draft \in {"none", "good", "poor"}
    BY <1>1 DEF Contents
  <2>2. CASE mem[c].draft = "none"
    BY <1>1, <1>7, <2>2, RefusedOK DEF Review
  <2>3. CASE mem[c].draft = "good"
    <3> DEFINE approved == [mem[c] EXCEPT !.review = "approve"]
               next     == [approved EXCEPT !.stage = "publish"]
    <3>1. approved \in Contents /\ approved.draft = "good"
      BY <1>1, <2>3 DEF Contents
    <3>2. applyOk(c, "publish", approved)
      BY <1>7, <2>3 DEF Review
    <3> HIDE DEF approved
    <3>3. next \in Contents /\ Reviewed(next)
      BY <3>1, WithStage DEF Stages, Reviewed
    <3>4. CASE canTransition(mem[c].stage, "publish")
      <4>1. Advanced(c, next)
        BY <3>2, <3>4 DEF applyOk
      <4> HIDE DEF next
      <4> QED BY <1>1, <3>3, <4>1, AdvancedOK
    <3>5. CASE ~ canTransition(mem[c].stage, "publish")
      <4>1. Refused(c)
        BY <3>2, <3>5 DEF applyOk
      <4> QED BY <1>1, <4>1, RefusedOK
    <3> QED BY <3>4, <3>5
  <2>4. CASE mem[c].draft = "poor"
    <3>1. [mem[c] EXCEPT !.review = "revise"] \in Contents
      BY <1>1 DEF Contents
    <3>2. applyOk(c, "needs_revision", [mem[c] EXCEPT !.review = "revise"])
      BY <1>7, <2>4 DEF Review
    <3> QED BY <1>1, <3>1, <3>2, ToStage DEF Stages
  <2> QED BY <2>1, <2>2, <2>3, <2>4
<1>8. CASE Revise(c)
  <2>1. CASE capped(mem[c])
    <3> DEFINE next == [mem[c] EXCEPT !.stage = "done"]
    <3>1. Advanced(c, next)
      BY <1>8, <2>1 DEF Revise
    <3>2. next \in Contents /\ Reviewed(next)
      BY <1>1, WithStage DEF Stages
    <3> HIDE DEF next
    <3> QED BY <1>1, <3>1, <3>2, AdvancedOK
  <2>2. CASE ~ capped(mem[c])
    <3> DEFINE next == [mem[c] EXCEPT !.revisionCount = mem[c].revisionCount + 1, !.review = "none"]
    <3>1. mem[c].revisionCount + 1 \in 0 .. MaxRevisions
      BY <1>1, <2>2, PipelineAssumption DEF Contents, capped
    <3>2. next \in Contents
      BY <1>1, <3>1 DEF Contents
    <3>3. applyOk(c, "draft", next)
      BY <1>8, <2>2 DEF Revise
    <3> HIDE DEF next
    <3> QED BY <1>1, <3>2, <3>3, ToStage DEF Stages
  <2> QED BY <2>1, <2>2
<1> QED BY <1>2, <1>3, <1>4, <1>5, <1>6, <1>7, <1>8

(* Loading a reviewed content, and forgetting it.                          *)
LEMMA LoadOK ==
  ASSUME LocalsOK, NEW c \in Commands, NEW content \in Contents,
         NEW place \in {"working", "saving"}, NEW rounds \in {Safety, None},
         Reviewed(content),
         Load(c, content, place, rounds)
  PROVE  LocalsOK'
<1>1. rounds \in Rounds /\ rounds # 0
  BY PipelineAssumption, QueueAssumption DEF Rounds
<1>2. Fits(place, content, rounds)
  BY <1>1 DEF Fits
<1>3. /\ pc' = [pc EXCEPT ![c] = place]
      /\ mem' = [mem EXCEPT ![c] = content]
      /\ left' = [left EXCEPT ![c] = rounds]
      /\ todo' = [todo EXCEPT ![c] = todo[c]]
      /\ recs' = [recs EXCEPT ![c] = recs[c]]
  BY Unmoved DEF Load
<1>4. /\ place \in Places /\ todo[c] \in SUBSET Platforms
      /\ recs[c] \in [Platforms -> {"none", "posted", "failed"}]
  BY Unmoved DEF Places
<1> QED BY <1>1, <1>2, <1>3, <1>4, LocalStep

(* A command that ends leaves its locals well typed, and no copy behind.   *)
LEMMA ForgetOK ==
  ASSUME LocalsOK, NEW c \in Commands, Forget(c)
  PROVE  LocalsOK'
<1>1. NoPosts \in [Platforms -> {"none", "posted", "failed"}]
  BY DEF NoPosts
<1>2. Fits("idle", NoContent, None)
  BY QueueAssumption DEF Fits
<1>3. /\ pc' = [pc EXCEPT ![c] = "idle"]
      /\ mem' = [mem EXCEPT ![c] = NoContent]
      /\ left' = [left EXCEPT ![c] = None]
      /\ todo' = [todo EXCEPT ![c] = {}]
      /\ recs' = [recs EXCEPT ![c] = NoPosts]
  BY DEF Forget
<1>4. "idle" \in Places /\ None \in Rounds /\ {} \in SUBSET Platforms
  BY DEF Places, Rounds
<1> QED BY <1>1, <1>2, <1>3, <1>4, LocalStep

(* A bulk action never leads to the publish stage.                         *)
LEMMA BulkStage ==
  ASSUME NEW content \in Contents, NEW action \in BulkActions,
         bulkNextStage(action, content.stage) # content.stage
  PROVE  bulkNextStage(action, content.stage) \in Stages \ {"publish"}
BY PipelineAssumption DEF bulkNextStage, Stages

(* The commands start with what they load, which is reviewed.              *)
LEMMA StartInv ==
  ASSUME PubInv, NEW c \in Commands, Start(c)
  PROVE  PubInv'
<1>1. SharedOK /\ LocalsOK
  BY DEF PubInv
<1>2. SharedOK'
  <2>1. /\ commands' = commands + 1
        /\ UNCHANGED <<file, rows, begun, sent, shown, faults>>
    BY DEF Start, StartRun, StartStep, StartEngagement, StartBulk, Load
  <2>2. commands' \in Nat
    BY <1>1, <2>1 DEF SharedOK
  <2> QED BY <1>1, <2>1, <2>2 DEF SharedOK, isContent, Reviewed
<1>3. isContent(file) => file \in Contents /\ Reviewed(file)
  BY <1>1 DEF SharedOK, isContent
<1>4. CASE StartRun(c)
  <2>1. createContent \in Contents /\ Reviewed(createContent)
    BY PipelineAssumption DEF createContent, Contents, NoPosts, Reviewed, Stages
  <2> QED BY <1>1, <1>2, <1>4, <2>1, LoadOK DEF StartRun, PubInv
<1>5. CASE StartStep(c)
  <2> DEFINE place == IF isTerminalStage(file.stage) THEN "saving" ELSE "working"
  <2>1. Load(c, file, place, None) /\ isContent(file)
    BY <1>5 DEF StartStep
  <2>2. place \in {"working", "saving"}
    OBVIOUS
  <2> HIDE DEF place
  <2> QED BY <1>1, <1>2, <1>3, <2>1, <2>2, LoadOK DEF PubInv
<1>6. CASE StartEngagement(c)
  BY <1>1, <1>2, <1>3, <1>6, LoadOK DEF StartEngagement, PubInv
<1>7. ASSUME NEW action \in BulkActions, StartBulk(c, action)
      PROVE  PubInv'
  <2> DEFINE to   == bulkNextStage(action, file.stage)
             next == [file EXCEPT !.stage = to]
  <2>1. isContent(file) /\ to # file.stage /\ Load(c, next, "saving", None)
    BY <1>7 DEF StartBulk
  <2>2. to \in Stages \ {"publish"}
    BY <1>3, <2>1, BulkStage
  <2> HIDE DEF to
  <2>3. next \in Contents /\ Reviewed(next)
    BY <1>3, <2>1, <2>2, WithStage
  <2> HIDE DEF next
  <2> QED BY <1>1, <1>2, <2>1, <2>3, LoadOK DEF PubInv
<1> QED BY <1>4, <1>5, <1>6, <1>7 DEF Start

(* Saving writes a reviewed content; a crash at most tears the file.       *)
LEMMA SaveInv ==
  ASSUME PubInv, NEW c \in Commands, Save(c) \/ Crash(c)
  PROVE  PubInv'
<1>1. SharedOK /\ LocalsOK
  BY DEF PubInv
<1>2. LocalsOK'
  BY <1>1, ForgetOK DEF Save, Crash
<1>3. /\ file' \in Contents \cup {NoContent, TornContent}
      /\ isContent(file') => Reviewed(file')
  <2>1. CASE Save(c)
    <3>1. mem[c] \in Contents /\ Reviewed(mem[c])
      BY <1>1, <2>1, Unmoved DEF Save, Fits
    <3> QED BY <2>1, <3>1 DEF Save
  <2>2. CASE Crash(c)
    BY <1>1, <2>2 DEF Crash, SharedOK, isContent
  <2> QED BY <2>1, <2>2
<1>4. faults' \in Nat
  BY <1>1 DEF Save, Crash, SharedOK
<1>5. UNCHANGED <<rows, commands, begun, sent, shown>>
  BY DEF Save, Crash
<1> QED BY <1>1, <1>2, <1>3, <1>4, <1>5 DEF PubInv, SharedOK, isContent, Reviewed

(* A publication of a good draft keeps the history as it should be.        *)
LEMMA PublicationOK ==
  ASSUME SharedOK, NEW p \in Platforms, NEW outcome, Publication(p, "good", outcome)
  PROVE  sent' \in [Platforms -> Nat] /\ shown' \subseteq {"good"}
<1>1. sent \in [Platforms -> Nat] /\ shown \subseteq {"good"}
  BY DEF SharedOK
<1>2. CASE outcome \in {"ok", "lost"}
  <2>1. sent[p] + 1 \in Nat
    BY <1>1
  <2>2. sent' = [sent EXCEPT ![p] = sent[p] + 1] /\ shown' = shown \cup {"good"}
    BY <1>2 DEF Publication
  <2> QED BY <1>1, <2>1, <2>2
<1>3. CASE outcome \notin {"ok", "lost"}
  BY <1>1, <1>3 DEF Publication
<1> QED BY <1>2, <1>3

(* What goes to the queue is a row.                                        *)
LEMMA SunkType == ASSUME NEW outcome, NEW item \in Sunk(outcome) PROVE item \in RowType
<1>1. \A t \in Nat : createQueueItem(t) \in RowType
  BY CreatedType
<1>2. [createQueueItem(0) EXCEPT !.status = "posted", !.postId = "id"] \in RowType
  BY CreatedType
<1>3. recordAttemptFailure(createQueueItem(0), 0) \in RowType
  BY <1>1, FailureFields
<1> QED BY <1>2, <1>3 DEF Sunk

(* The publish stage works with the draft it began with, a good one.       *)
LEMMA PublishInv ==
  ASSUME PubInv, NEW c \in Commands,
         \/ BeginPublish(c)
         \/ \E p \in Platforms, outcome \in Outcomes : PostOne(c, p, outcome)
         \/ EndPublish(c)
  PROVE  PubInv'
<1>1. SharedOK /\ LocalsOK
  BY DEF PubInv
<1>2. /\ pc[c] \in {"working", "publishing"}
      /\ mem[c] \in Contents /\ mem[c].stage = "publish" /\ mem[c].draft = "good"
      /\ left[c] # 0 /\ left[c] \in Rounds
      /\ recs[c] \in [Platforms -> {"none", "posted", "failed"}]
      /\ todo[c] \in SUBSET Platforms
  BY <1>1, Unmoved DEF BeginPublish, PostOne, EndPublish, At, Fits, Reviewed
<1>3. NoPosts \in [Platforms -> {"none", "posted", "failed"}]
  BY DEF NoPosts
<1>4. CASE BeginPublish(c)
  <2>1. SharedOK'
    <3>1. /\ begun' = begun + 1
          /\ UNCHANGED <<file, rows, commands, sent, shown, faults>>
      BY <1>2, <1>4 DEF BeginPublish
    <3>2. begun' \in Nat
      BY <1>1, <3>1 DEF SharedOK
    <3> QED BY <1>1, <3>1, <3>2 DEF SharedOK, isContent, Reviewed
  <2>2. /\ pc' = [pc EXCEPT ![c] = "publishing"]
        /\ todo' = [todo EXCEPT ![c] = deriveTargets(mem[c])]
        /\ recs' = [recs EXCEPT ![c] = NoPosts]
        /\ mem' = [mem EXCEPT ![c] = mem[c]]
        /\ left' = [left EXCEPT ![c] = left[c]]
    BY <1>1, <1>2, <1>4, Unmoved DEF BeginPublish
  <2>3. deriveTargets(mem[c]) \in SUBSET Platforms
    BY <1>2, PipelineAssumption DEF deriveTargets, Contents
  <2>4. Fits("publishing", mem[c], left[c]) /\ "publishing" \in Places
    BY <1>2 DEF Fits, Reviewed, Places
  <2>5. LocalsOK'
    BY <1>1, <1>2, <1>3, <2>2, <2>3, <2>4, LocalStep
  <2> QED BY <2>1, <2>5 DEF PubInv
<1>5. ASSUME NEW p \in Platforms, NEW outcome \in Outcomes, PostOne(c, p, outcome)
      PROVE  PubInv'
  <2> DEFINE R == [recs[c] EXCEPT ![p] = IF outcome = "ok" THEN "posted" ELSE "failed"]
             T == todo[c] \ {p}
  <2>1. /\ recs' = [recs EXCEPT ![c] = R]
        /\ todo' = [todo EXCEPT ![c] = T]
        /\ UNCHANGED <<file, pc, mem, left, commands, begun>>
        /\ pc[c] = "publishing"
    BY <1>5 DEF PostOne
  <2>2. R \in [Platforms -> {"none", "posted", "failed"}] /\ T \in SUBSET Platforms
    BY <1>2
  <2> HIDE DEF R, T
  <2>3. /\ pc' = [pc EXCEPT ![c] = pc[c]]
        /\ mem' = [mem EXCEPT ![c] = mem[c]]
        /\ left' = [left EXCEPT ![c] = left[c]]
        /\ pc[c] \in Places /\ Fits(pc[c], mem[c], left[c])
    BY <1>1, <2>1, Unmoved
  <2>4. LocalsOK'
    BY <1>1, <1>2, <2>1, <2>2, <2>3, LocalStep
  <2>5. sent' \in [Platforms -> Nat] /\ shown' \subseteq {"good"}
    BY <1>1, <1>2, <1>5, PublicationOK DEF PostOne
  <2>6. /\ rows' \in [RowIds -> QueueRows \cup {None}]
        /\ \A i \in RowIds : rows'[i] # None => rows'[i].draft = "good"
    <3>1. CASE UNCHANGED rows
      BY <1>1, <3>1 DEF SharedOK
    <3>2. ASSUME NEW i \in RowIds, NEW item \in Sunk(outcome),
                 rows' = [rows EXCEPT ![i] =
                   [platform |-> p, draft |-> mem[c].draft, item |-> item]]
          PROVE  /\ rows' \in [RowIds -> QueueRows \cup {None}]
                 /\ \A j \in RowIds : rows'[j] # None => rows'[j].draft = "good"
      <4> DEFINE row == [platform |-> p, draft |-> "good", item |-> item]
      <4>1. row \in QueueRows /\ row.draft = "good"
        BY SunkType DEF QueueRows
      <4>2. rows' = [rows EXCEPT ![i] = row]
        BY <1>2, <3>2
      <4> HIDE DEF row
      <4> QED BY <1>1, <4>1, <4>2 DEF SharedOK
    <3> QED BY <1>5, <3>1, <3>2 DEF PostOne
  <2>7. faults' \in Nat
    <3>1. PICK sinkFails \in BOOLEAN :
            faults' = faults + (IF outcome = "lost" THEN 1 ELSE 0) + (IF sinkFails THEN 1 ELSE 0)
      BY <1>5 DEF PostOne
    <3> QED BY <1>1, <3>1 DEF SharedOK
  <2>8. SharedOK'
    BY <1>1, <2>1, <2>5, <2>6, <2>7 DEF SharedOK, isContent, Reviewed
  <2> QED BY <2>4, <2>8 DEF PubInv
<1>6. CASE EndPublish(c)
  <2>1. /\ recs' = [recs EXCEPT ![c] = NoPosts]
        /\ UNCHANGED <<file, todo, rows, commands, begun, sent, shown, faults>>
    BY <1>6 DEF EndPublish
  <2>2. SharedOK'
    BY <1>1, <2>1 DEF SharedOK, isContent, Reviewed
  <2> DEFINE next == [mem[c] EXCEPT !.posts = recs[c]]
             done == [next EXCEPT !.stage = "done"]
  <2>3. Refused(c) \/ Advanced(c, done)
    BY <1>6 DEF EndPublish, applyOk
  <2>4. done \in Contents /\ Reviewed(done)
    <3>1. next \in Contents
      BY <1>2 DEF Contents
    <3> HIDE DEF next
    <3> QED BY <3>1, WithStage DEF Stages
  <2> HIDE DEF done
  <2>5. LocalsOK'
    BY <1>1, <1>2, <1>3, <2>1, <2>3, <2>4, AdvancedOK, RefusedOK
  <2> QED BY <2>2, <2>5 DEF PubInv
<1> QED BY <1>4, <1>5, <1>6

(* The worker posts the draft that was posted, or failed to be, at first.  *)
LEMMA WorkerInv ==
  ASSUME PubInv, Worker
  PROVE  PubInv'
<1>1. SharedOK /\ LocalsOK
  BY DEF PubInv
<1>2. UNCHANGED <<file, pc, mem, left, todo, recs, commands, begun>>
  BY DEF Worker, WorkerAttempt, WorkerCrash, locals
<1>3. LocalsOK'
  BY <1>1, <1>2 DEF LocalsOK, Fits, Reviewed
<1>4. ASSUME NEW i \in RowIds, rows[i] # None
      PROVE  rows[i] \in QueueRows /\ rows[i].draft = "good" /\ rows[i].platform \in Platforms
  BY <1>1, <1>4 DEF SharedOK, QueueRows
<1>5. ASSUME NEW i \in RowIds, NEW outcome \in Outcomes, WorkerAttempt(i, outcome)
      PROVE  SharedOK'
  <2> DEFINE item == IF outcome = "ok" THEN recordAttemptSuccess(rows[i].item, "id")
                     ELSE recordAttemptFailure(rows[i].item, 0)
             row  == [rows[i] EXCEPT !.item = item]
  <2>1. rows[i] \in QueueRows /\ rows[i].draft = "good" /\ rows[i].item \in RowType
    BY <1>4, <1>5 DEF WorkerAttempt, QueueRows
  <2>2. item \in RowType
    BY <2>1, SuccessFields, FailureFields
  <2>3. rows' = [rows EXCEPT ![i] = row]
    BY <1>5 DEF WorkerAttempt
  <2> HIDE DEF item
  <2>4. row \in QueueRows /\ row.draft = "good"
    BY <2>1, <2>2 DEF QueueRows
  <2> HIDE DEF row
  <2>5. sent' \in [Platforms -> Nat] /\ shown' \subseteq {"good"}
    BY <1>1, <1>4, <1>5, PublicationOK DEF WorkerAttempt
  <2>6. faults' \in Nat
    BY <1>1, <1>5 DEF WorkerAttempt, SharedOK
  <2>7. /\ rows' \in [RowIds -> QueueRows \cup {None}]
        /\ \A j \in RowIds : rows'[j] # None => rows'[j].draft = "good"
    BY <1>1, <2>3, <2>4 DEF SharedOK
  <2> QED BY <1>1, <1>2, <2>5, <2>6, <2>7 DEF SharedOK, isContent, Reviewed
<1>6. ASSUME NEW i \in RowIds, WorkerCrash(i)
      PROVE  SharedOK'
  <2>1. sent' \in [Platforms -> Nat] /\ shown' \subseteq {"good"}
    BY <1>1, <1>4, <1>6, PublicationOK DEF WorkerCrash
  <2>2. faults' = faults + 1 /\ UNCHANGED rows
    BY <1>6 DEF WorkerCrash
  <2>3. faults' \in Nat
    BY <1>1, <2>2 DEF SharedOK
  <2> QED BY <1>1, <1>2, <2>1, <2>2, <2>3 DEF SharedOK, isContent, Reviewed
<1> QED BY <1>3, <1>5, <1>6 DEF Worker, PubInv

(* Initially there is no content, no command and no row.                   *)
LEMMA PubInvInit == Init => PubInv
<1> SUFFICES ASSUME Init PROVE PubInv
  OBVIOUS
<1>1. SharedOK
  BY DEF Init, SharedOK, isContent
<1>2. LocalsOK
  <2>1. NoPosts \in [Platforms -> {"none", "posted", "failed"}]
    BY DEF NoPosts
  <2>2. \A c \in Commands : Fits(pc[c], mem[c], left[c])
    BY DEF Init, Fits
  <2> QED BY <2>1, <2>2 DEF Init, LocalsOK, Places, Rounds
<1> QED BY <1>1, <1>2 DEF PubInv

(* Every step of the commands, the web console and the worker preserves    *)
(* PubInv, by the lemmas above.                                            *)
LEMMA PubInvNext == PubInv /\ [Next]_vars => PubInv'
<1> SUFFICES ASSUME PubInv, [Next]_vars PROVE PubInv'
  OBVIOUS
<1>1. ASSUME NEW c \in Commands, Start(c) PROVE PubInv'
  BY <1>1, StartInv
<1>2. ASSUME NEW c \in Commands, Work(c) PROVE PubInv'
  <2>1. CASE AgentFails(c) \/ Intake(c) \/ Research(c) \/ Ideas(c)
               \/ Draft(c) \/ Review(c) \/ Revise(c)
    <3>1. UNCHANGED <<file, rows, commands, begun, sent, shown, faults>>
      BY <2>1 DEF AgentFails, Intake, Research, Ideas, Draft, Review, Revise, Elsewhere
    <3>2. LocalsOK'
      BY <2>1, AgentsOK DEF PubInv
    <3> QED BY <3>1, <3>2 DEF PubInv, SharedOK, isContent, Reviewed
  <2> QED BY <1>2, <2>1, PublishInv, SaveInv DEF Work
<1>3. ASSUME NEW c \in Commands, Crash(c) PROVE PubInv'
  BY <1>3, SaveInv
<1>4. CASE Worker
  BY <1>4, WorkerInv
<1>5. CASE UNCHANGED vars
  BY <1>5 DEF vars, locals, PubInv, SharedOK, LocalsOK, Fits, isContent, Reviewed
<1> QED BY <1>1, <1>2, <1>3, <1>4, <1>5 DEF Next

(* PubInv holds of every reachable state.                                  *)
THEOREM PubInvariant == Spec => []PubInv
BY PubInvInit, PubInvNext, PTL DEF Spec

(* The variables keep their types.                                         *)
THEOREM PipelineTypeCorrect == Spec => []TypeOK
<1>1. PubInv => TypeOK
  BY DEF PubInv, SharedOK, LocalsOK, TypeOK, Places, Rounds
<1> QED BY <1>1, PubInvariant, PTL

(* Whatever the commands, the web console and the worker do to a content   *)
(* at the same time, no platform is ever given a draft that the review did *)
(* not pass.                                                               *)
THEOREM ReviewedBeforePublished == Spec => []OnlyReviewedPublished
<1>1. PubInv => OnlyReviewedPublished
  BY DEF PubInv, SharedOK, OnlyReviewedPublished
<1> QED BY <1>1, PubInvariant, PTL

-----------------------------------------------------------------------------
(* The past of a content.  The operators of its inductive invariant take   *)
(* the values they speak of as parameters, so that they serve for the      *)
(* state before and after.                                                 *)

PostRecords == [Platforms -> {"none", "posted", "failed"}]

(* The platforms that have a row in the queue.                             *)
Queued == {rows[i].platform : i \in {j \in RowIds : rows[j] # None}}

(* Records agree with what happened: a failed post has a row unless some   *)
(* fault prevented it, a successful one was accepted by the platform.      *)
Explained(posts, lost, accepted, queued) ==
  \A p \in Platforms :
    /\ posts[p] = "failed" /\ lost = 0 => p \in queued
    /\ posts[p] = "posted" => accepted[p] > 0

(* A done content was posted, or its revisions were used up.               *)
Reasoned(content) ==
  content.stage = "done" =>
    \/ \E p \in Platforms : content.posts[p] = "posted"
    \/ content.revisionCount = MaxRevisions

(* The longest way from each stage to the end: each revision still open    *)
(* adds a draft, a review and the stage needs_revision itself.             *)
Rest == [intake |-> 6, research |-> 5, ideas |-> 4, draft |-> 3, review |-> 2,
         needs_revision |-> 1, publish |-> 1, done |-> 0]

Need(content) ==
  IF content.stage \in {"publish", "done"}
  THEN Rest[content.stage]
  ELSE Rest[content.stage] + 3 * (MaxRevisions - content.revisionCount)

EnoughRounds(content, rounds) ==
  rounds # None /\ Safety > 6 + 3 * MaxRevisions => rounds > Need(content)

(* What a command holds.                                                   *)
Holds(place, content, rounds, records, lost, accepted, queued) ==
  /\ Explained(records, lost, accepted, queued)
  /\ place # "idle" => /\ Explained(content.posts, lost, accepted, queued)
                       /\ Reasoned(content)
                       /\ EnoughRounds(content, rounds)
  /\ place = "idle" => rounds = None

HistInv ==
  /\ isContent(file) => Explained(file.posts, faults, sent, Queued) /\ Reasoned(file)
  /\ \A c \in Commands :
       Holds(pc[c], mem[c], left[c], recs[c], faults, sent, Queued)

-----------------------------------------------------------------------------
(* What no step takes back.                                                *)

Kept ==
  /\ faults' = 0 => faults = 0
  /\ \A p \in Platforms : sent[p] > 0 => sent'[p] > 0
  /\ Queued \subseteq Queued'

(* Records that agreed with the past agree with a longer past.             *)
LEMMA StillExplained ==
  ASSUME Kept, NEW posts, Explained(posts, faults, sent, Queued)
  PROVE  Explained(posts, faults', sent', Queued')
BY DEF Kept, Explained

(* No record at all agrees with any past.                                  *)
LEMMA NothingToExplain ==
  ASSUME NEW lost, NEW accepted, NEW queued
  PROVE  Explained(NoPosts, lost, accepted, queued)
BY DEF Explained, NoPosts

(* A publication only adds.                                                *)
LEMMA PublicationKept ==
  ASSUME SharedOK, NEW p \in Platforms, NEW draft, NEW outcome,
         Publication(p, draft, outcome)
  PROVE  /\ \A q \in Platforms : sent[q] > 0 => sent'[q] > 0
         /\ outcome \in {"ok", "lost"} => sent'[p] > 0
<1>1. sent \in [Platforms -> Nat]
  BY DEF SharedOK
<1> QED BY <1>1 DEF Publication

(* Filling a free row or replacing the item of a used one keeps the queued *)
(* platforms, and the new row's platform is queued.                        *)
LEMMA RowKept ==
  ASSUME SharedOK, NEW i \in RowIds, NEW row \in QueueRows,
         rows' = [rows EXCEPT ![i] = row],
         rows[i] = None \/ row.platform = rows[i].platform
  PROVE  Queued \subseteq Queued' /\ row.platform \in Queued'
<1>1. rows \in [RowIds -> QueueRows \cup {None}] /\ row # None
  BY PipelineAssumption DEF SharedOK
<1>2. row.platform \in Queued'
  <2>1. rows'[i] = row
    BY <1>1
  <2> QED BY <1>1, <2>1 DEF Queued
<1>3. ASSUME NEW j \in RowIds, rows[j] # None PROVE rows[j].platform \in Queued'
  <2>1. CASE j = i
    BY <1>2, <1>3, <2>1
  <2>2. CASE j # i
    <3>1. rows'[j] = rows[j]
      BY <1>1, <2>2
    <3> QED BY <1>3, <3>1 DEF Queued
  <2> QED BY <2>1, <2>2
<1> QED BY <1>2, <1>3 DEF Queued

(* Every step keeps them.                                                  *)
LEMMA KeptNext ==
  ASSUME PubInv, Next
  PROVE  Kept
<1>1. SharedOK /\ LocalsOK /\ faults \in Nat
  BY DEF PubInv, SharedOK
<1>2. ASSUME UNCHANGED <<rows, sent>>, faults' = faults \/ faults' = faults + 1
      PROVE  Kept
  BY <1>1, <1>2 DEF Kept, Queued
<1>3. ASSUME NEW c \in Commands, Start(c) PROVE Kept
  BY <1>2, <1>3 DEF Start, StartRun, StartStep, StartEngagement, StartBulk, Load
<1>4. ASSUME NEW c \in Commands, Crash(c) PROVE Kept
  BY <1>2, <1>4 DEF Crash
<1>5. ASSUME NEW c \in Commands, NEW p \in Platforms, NEW outcome \in Outcomes,
             PostOne(c, p, outcome)
      PROVE  Kept
  <2>1. \A q \in Platforms : sent[q] > 0 => sent'[q] > 0
    BY <1>1, <1>5, PublicationKept DEF PostOne
  <2>2. faults' = 0 => faults = 0
    BY <1>1, <1>5 DEF PostOne
  <2>3. mem[c].draft = "good"
    BY <1>1, <1>5, Unmoved DEF PostOne, Fits, Reviewed
  <2>4. Queued \subseteq Queued'
    <3>1. CASE UNCHANGED rows
      BY <3>1 DEF Queued
    <3>2. ASSUME NEW i \in RowIds, NEW item \in Sunk(outcome), rows[i] = None,
                 rows' = [rows EXCEPT ![i] =
                   [platform |-> p, draft |-> mem[c].draft, item |-> item]]
          PROVE  Queued \subseteq Queued'
      <4> DEFINE row == [platform |-> p, draft |-> mem[c].draft, item |-> item]
      <4>1. row \in QueueRows
        BY <2>3, SunkType DEF QueueRows
      <4>2. rows' = [rows EXCEPT ![i] = row]
        BY <3>2
      <4> HIDE DEF row
      <4> QED BY <1>1, <3>2, <4>1, <4>2, RowKept
    <3> QED BY <1>5, <3>1, <3>2 DEF PostOne
  <2> QED BY <2>1, <2>2, <2>4 DEF Kept
<1>6. ASSUME NEW c \in Commands, Work(c) PROVE Kept
  <2>1. CASE \E p \in Platforms, outcome \in Outcomes : PostOne(c, p, outcome)
    BY <1>5, <2>1
  <2>2. CASE UNCHANGED <<rows, sent, faults>>
    BY <1>2, <2>2
  <2> QED BY <1>6, <2>1, <2>2
         DEF Work, Intake, Research, Ideas, Draft, Review, Revise, AgentFails,
             Elsewhere, BeginPublish, EndPublish, Save
<1>7. ASSUME NEW i \in RowIds, NEW outcome \in Outcomes, WorkerAttempt(i, outcome)
      PROVE  Kept
  <2> DEFINE item == IF outcome = "ok" THEN recordAttemptSuccess(rows[i].item, "id")
                     ELSE recordAttemptFailure(rows[i].item, 0)
             row  == [rows[i] EXCEPT !.item = item]
  <2>1. rows[i] \in QueueRows
    BY <1>1, <1>7 DEF WorkerAttempt, SharedOK
  <2>2. rows[i].item \in RowType /\ rows[i].platform \in Platforms
    BY <2>1 DEF QueueRows
  <2>3. item \in RowType
    BY <2>2, SuccessFields, FailureFields
  <2>4. rows' = [rows EXCEPT ![i] = row]
    BY <1>7 DEF WorkerAttempt
  <2> HIDE DEF item
  <2>5. row \in QueueRows /\ row.platform = rows[i].platform
    BY <2>1, <2>3 DEF QueueRows
  <2> HIDE DEF row
  <2>6. Queued \subseteq Queued'
    BY <1>1, <2>4, <2>5, RowKept
  <2>7. \A q \in Platforms : sent[q] > 0 => sent'[q] > 0
    BY <1>1, <1>7, <2>2, PublicationKept DEF WorkerAttempt
  <2>8. faults' = 0 => faults = 0
    BY <1>1, <1>7 DEF WorkerAttempt
  <2> QED BY <2>6, <2>7, <2>8 DEF Kept
<1>8. ASSUME NEW i \in RowIds, WorkerCrash(i) PROVE Kept
  <2>1. rows[i].platform \in Platforms
    BY <1>1, <1>8 DEF WorkerCrash, SharedOK, QueueRows
  <2>2. \A q \in Platforms : sent[q] > 0 => sent'[q] > 0
    BY <1>1, <1>8, <2>1, PublicationKept DEF WorkerCrash
  <2>3. faults' = faults + 1 /\ UNCHANGED rows
    BY <1>8 DEF WorkerCrash
  <2> QED BY <1>1, <2>2, <2>3 DEF Kept, Queued
<1> QED BY <1>3, <1>4, <1>6, <1>7, <1>8 DEF Next, Worker

-----------------------------------------------------------------------------
(* Steps of one command.                                                   *)

(* What a step of command c must establish for HistInv.                    *)
LEMMA CommandHist ==
  ASSUME LocalsOK, HistInv, Kept, NEW c \in Commands,
         NEW place, NEW content, NEW rounds, NEW R,
         pc' = [pc EXCEPT ![c] = place],
         mem' = [mem EXCEPT ![c] = content],
         left' = [left EXCEPT ![c] = rounds],
         recs' = [recs EXCEPT ![c] = R],
         Holds(place, content, rounds, R, faults', sent', Queued'),
         \/ file' = file
         \/ ~ isContent(file')
         \/ pc[c] # "idle" /\ file' = mem[c]
  PROVE  HistInv'
<1>1. ASSUME NEW d \in Commands
      PROVE  Holds(pc'[d], mem'[d], left'[d], recs'[d], faults', sent', Queued')
  <2>1. CASE d = c
    BY <2>1 DEF LocalsOK
  <2>2. CASE d # c
    <3>1. pc'[d] = pc[d] /\ mem'[d] = mem[d] /\ left'[d] = left[d] /\ recs'[d] = recs[d]
      BY <2>2 DEF LocalsOK
    <3>2. Holds(pc[d], mem[d], left[d], recs[d], faults, sent, Queued)
      BY DEF HistInv
    <3> QED BY <3>1, <3>2, StillExplained DEF Holds
  <2> QED BY <2>1, <2>2
<1>2. isContent(file') => Explained(file'.posts, faults', sent', Queued') /\ Reasoned(file')
  <2>1. CASE file' = file
    BY <2>1, StillExplained DEF HistInv
  <2>2. CASE ~ isContent(file')
    BY <2>2
  <2>3. CASE pc[c] # "idle" /\ file' = mem[c]
    <3>1. Explained(mem[c].posts, faults, sent, Queued) /\ Reasoned(mem[c])
      BY <2>3 DEF HistInv, Holds
    <3> QED BY <2>3, <3>1, StillExplained
  <2> QED BY <2>1, <2>2, <2>3
<1> QED BY <1>1, <1>2 DEF HistInv, isContent, Reasoned

(* A dispatch that advanced has come closer to the end.                    *)
LEMMA AdvancedHist ==
  ASSUME LocalsOK, HistInv, Kept, NEW c \in Commands, NEW content \in Contents,
         pc[c] \in {"working", "publishing"},
         Advanced(c, content), UNCHANGED file,
         Need(content) \in Nat, Need(mem[c]) \in Nat, Need(content) < Need(mem[c]),
         Explained(content.posts, faults', sent', Queued'), Reasoned(content),
         NEW R, recs' = [recs EXCEPT ![c] = R],
         Explained(R, faults', sent', Queued')
  PROVE  HistInv'
<1>1. left[c] \in Rounds
  BY Unmoved
<1>2. EnoughRounds(mem[c], left[c])
  BY DEF HistInv, Holds
<1>3. mem' = [mem EXCEPT ![c] = content]
  BY DEF Advanced
<1>4. CASE left[c] = None
  <2>1. pc' = [pc EXCEPT ![c] = "saving"] /\ left' = [left EXCEPT ![c] = left[c]]
    BY <1>4, Unmoved DEF Advanced
  <2>2. Holds("saving", content, left[c], R, faults', sent', Queued')
    BY <1>4 DEF Holds, EnoughRounds
  <2> QED BY <1>3, <2>1, <2>2, CommandHist
<1>5. CASE left[c] # None
  <2> DEFINE place == IF isTerminalStage(content.stage) \/ left[c] = 1 THEN "saving" ELSE "working"
             n     == left[c] - 1
  <2>1. left' = [left EXCEPT ![c] = n] /\ pc' = [pc EXCEPT ![c] = place]
    BY <1>5 DEF Advanced
  <2>2. left[c] \in Int
    BY <1>1, <1>5, PipelineAssumption DEF Rounds
  <2>3. EnoughRounds(content, n)
    BY <1>2, <1>5, <2>2 DEF EnoughRounds
  <2>5. place # "idle"
    OBVIOUS
  <2> HIDE DEF n, place
  <2>4. Holds(place, content, n, R, faults', sent', Queued')
    BY <2>3, <2>5 DEF Holds
  <2> QED BY <1>3, <2>1, <2>4, CommandHist
<1> QED BY <1>4, <1>5

(* A dispatch that refused keeps the content.                              *)
LEMMA RefusedHist ==
  ASSUME LocalsOK, HistInv, Kept, NEW c \in Commands,
         pc[c] \in {"working", "publishing"},
         Refused(c), UNCHANGED file,
         NEW R, recs' = [recs EXCEPT ![c] = R],
         Explained(R, faults', sent', Queued')
  PROVE  HistInv'
<1>1. /\ pc' = [pc EXCEPT ![c] = "saving"]
      /\ mem' = [mem EXCEPT ![c] = mem[c]]
      /\ left' = [left EXCEPT ![c] = left[c]]
  BY Unmoved DEF Refused
<1>2. Holds(pc[c], mem[c], left[c], recs[c], faults, sent, Queued) /\ pc[c] # "idle"
  BY DEF HistInv
<1>3. Holds("saving", mem[c], left[c], R, faults', sent', Queued')
  BY <1>2, StillExplained DEF Holds
<1> QED BY <1>1, <1>3, CommandHist

(* Need is a natural number, and the stage decides it.                     *)
LEMMA NeedType == ASSUME NEW content \in Contents PROVE Need(content) \in Nat
<1>1. content.stage \in Stages /\ content.revisionCount \in 0 .. MaxRevisions /\ MaxRevisions \in Nat
  BY PipelineAssumption DEF Contents
<1>2. Rest[content.stage] \in Nat
  BY <1>1 DEF Rest, Stages
<1>3. 3 * (MaxRevisions - content.revisionCount) \in Nat
  BY <1>1
<1> QED BY <1>2, <1>3 DEF Need

(* An agent that leads to another stage than done, a stage closer to the   *)
(* end, with the same posts and no revision begun.                         *)
LEMMA ToStageHist ==
  ASSUME LocalsOK, HistInv, Kept, NEW c \in Commands, NEW content \in Contents,
         NEW to \in Stages \ {"done"},
         pc[c] = "working", mem[c] \in Contents,
         applyOk(c, to, content), UNCHANGED <<file, recs>>,
         content.posts = mem[c].posts,
         Need([content EXCEPT !.stage = to]) < Need(mem[c])
  PROVE  HistInv'
<1> DEFINE next == [content EXCEPT !.stage = to]
<1>1. /\ next \in Contents /\ next.stage = to /\ next.posts = content.posts
  BY DEF Contents
<1>2. Reasoned(next)
  BY <1>1 DEF Reasoned
<1>3. recs' = [recs EXCEPT ![c] = recs[c]]
  BY Unmoved
<1>4. /\ Explained(next.posts, faults', sent', Queued')
      /\ Explained(recs[c], faults', sent', Queued')
  BY <1>1, StillExplained DEF HistInv, Holds
<1>5. /\ Need(next) \in Nat /\ Need(mem[c]) \in Nat /\ Need(next) < Need(mem[c])
      /\ UNCHANGED file /\ pc[c] \in {"working", "publishing"}
  BY <1>1, NeedType
<1>6. CASE canTransition(mem[c].stage, to)
  <2>1. Advanced(c, next)
    BY <1>6 DEF applyOk
  <2> HIDE DEF next
  <2> QED BY <1>1, <1>2, <1>3, <1>4, <1>5, <2>1, AdvancedHist
<1>7. CASE ~ canTransition(mem[c].stage, to)
  <2>1. Refused(c)
    BY <1>7 DEF applyOk
  <2> QED BY <1>3, <1>4, <2>1, RefusedHist
<1> QED BY <1>6, <1>7

(* The agents before the publish stage.                                    *)
LEMMA AgentsHist ==
  ASSUME LocalsOK, HistInv, Kept, NEW c \in Commands,
         \/ AgentFails(c) \/ Intake(c) \/ Research(c) \/ Ideas(c)
         \/ Draft(c) \/ Review(c) \/ Revise(c)
  PROVE  HistInv'
<1>1. /\ pc[c] = "working" /\ mem[c] \in Contents
      /\ recs' = [recs EXCEPT ![c] = recs[c]]
      /\ UNCHANGED <<file, recs>>
  BY Unmoved DEF Fits, AgentFails, Intake, Research, Ideas, Draft, Review, Revise, At, Elsewhere
<1>2. /\ Explained(recs[c], faults', sent', Queued')
      /\ Explained(mem[c].posts, faults', sent', Queued')
  BY <1>1, StillExplained DEF HistInv, Holds
<1>3. mem[c].revisionCount \in 0 .. MaxRevisions /\ MaxRevisions \in Nat
  BY <1>1, PipelineAssumption DEF Contents
<1>4. CASE Refused(c)
  BY <1>1, <1>2, <1>4, RefusedHist
<1>5. CASE Intake(c)
  <2>1. Need([mem[c] EXCEPT !.stage = "research"]) < Need(mem[c])
    BY <1>1, <1>3, <1>5 DEF Need, Rest, Contents, Intake, At
  <2> QED BY <1>1, <1>5, <2>1, ToStageHist DEF Intake, Stages
<1>6. CASE Research(c)
  <2> DEFINE content == [mem[c] EXCEPT !.sources = TRUE]
  <2>1. content \in Contents /\ content.posts = mem[c].posts
    BY <1>1 DEF Contents
  <2>2. Need([content EXCEPT !.stage = "ideas"]) < Need(mem[c])
    BY <1>1, <1>3, <1>6 DEF Need, Rest, Contents, Research, At
  <2>3. applyOk(c, "ideas", content)
    BY <1>6 DEF Research
  <2> HIDE DEF content
  <2> QED BY <1>1, <2>1, <2>2, <2>3, ToStageHist DEF Stages
<1>7. CASE Ideas(c) /\ mem[c].sources
  <2>1. PICK targets \in SUBSET Platforms :
          applyOk(c, "draft", [mem[c] EXCEPT !.ideas = targets])
    BY <1>7 DEF Ideas
  <2> DEFINE content == [mem[c] EXCEPT !.ideas = targets]
  <2>2. content \in Contents /\ content.posts = mem[c].posts
    BY <1>1 DEF Contents
  <2>3. Need([content EXCEPT !.stage = "draft"]) < Need(mem[c])
    BY <1>1, <1>3, <1>7 DEF Need, Rest, Contents, Ideas, At
  <2>4. applyOk(c, "draft", content)
    BY <2>1
  <2> HIDE DEF content
  <2> QED BY <1>1, <2>2, <2>3, <2>4, ToStageHist DEF Stages
<1>8. CASE Draft(c) /\ mem[c].ideas # {}
  <2>1. PICK d \in {"good", "poor"} : applyOk(c, "review", [mem[c] EXCEPT !.draft = d])
    BY <1>8 DEF Draft
  <2> DEFINE content == [mem[c] EXCEPT !.draft = d]
  <2>2. content \in Contents /\ content.posts = mem[c].posts
    BY <1>1 DEF Contents
  <2>3. Need([content EXCEPT !.stage = "review"]) < Need(mem[c])
    BY <1>1, <1>3, <1>8 DEF Need, Rest, Contents, Draft, At
  <2>4. applyOk(c, "review", content)
    BY <2>1
  <2> HIDE DEF content
  <2> QED BY <1>1, <2>2, <2>3, <2>4, ToStageHist DEF Stages
<1>9. CASE Review(c) /\ mem[c].draft = "good"
  <2> DEFINE content == [mem[c] EXCEPT !.review = "approve"]
  <2>1. content \in Contents /\ content.posts = mem[c].posts
    BY <1>1 DEF Contents
  <2>2. Need([content EXCEPT !.stage = "publish"]) < Need(mem[c])
    BY <1>1, <1>3, <1>9 DEF Need, Rest, Contents, Review, At
  <2>3. applyOk(c, "publish", content)
    BY <1>9 DEF Review
  <2> HIDE DEF content
  <2> QED BY <1>1, <2>1, <2>2, <2>3, ToStageHist DEF Stages
<1>10. CASE Review(c) /\ mem[c].draft = "poor"
  <2> DEFINE content == [mem[c] EXCEPT !.review = "revise"]
  <2>1. content \in Contents /\ content.posts = mem[c].posts
    BY <1>1 DEF Contents
  <2>2. Need([content EXCEPT !.stage = "needs_revision"]) < Need(mem[c])
    BY <1>1, <1>3, <1>10 DEF Need, Rest, Contents, Review, At
  <2>3. applyOk(c, "needs_revision", content)
    BY <1>10 DEF Review
  <2> HIDE DEF content
  <2> QED BY <1>1, <2>1, <2>2, <2>3, ToStageHist DEF Stages
<1>11. CASE Revise(c) /\ ~ capped(mem[c])
  <2> DEFINE content == [mem[c] EXCEPT !.revisionCount = mem[c].revisionCount + 1, !.review = "none"]
  <2>1. mem[c].revisionCount + 1 \in 0 .. MaxRevisions
    BY <1>3, <1>11 DEF capped
  <2>2. content \in Contents /\ content.posts = mem[c].posts
    BY <1>1, <2>1 DEF Contents
  <2>3. Need([content EXCEPT !.stage = "draft"]) < Need(mem[c])
    BY <1>1, <1>3, <1>11 DEF Need, Rest, Contents, Revise, At
  <2>4. applyOk(c, "draft", content)
    BY <1>11 DEF Revise
  <2> HIDE DEF content
  <2> QED BY <1>1, <2>2, <2>3, <2>4, ToStageHist DEF Stages
<1>12. CASE Revise(c) /\ capped(mem[c])
  <2> DEFINE content == [mem[c] EXCEPT !.stage = "done"]
  <2>1. content \in Contents /\ content.posts = mem[c].posts
    BY <1>1 DEF Contents, Stages
  <2>2. Reasoned(content)
    <3>1. mem[c].revisionCount = MaxRevisions
      BY <1>3, <1>12 DEF capped
    <3>2. content.revisionCount = mem[c].revisionCount
      BY <1>1 DEF Contents
    <3> QED BY <3>1, <3>2 DEF Reasoned
  <2>3. Need(content) < Need(mem[c])
    BY <1>1, <1>3, <1>12 DEF Need, Rest, Contents, Revise, At
  <2>4. Advanced(c, content)
    BY <1>12 DEF Revise
  <2> HIDE DEF content
  <2>5. Need(content) \in Nat /\ Need(mem[c]) \in Nat
    BY <1>1, <2>1, NeedType
  <2> QED BY <1>1, <1>2, <2>1, <2>2, <2>3, <2>4, <2>5, AdvancedHist
<1>13. mem[c].draft \in {"none", "good", "poor"}
  BY <1>1 DEF Contents
<1>14. CASE Review(c) /\ mem[c].draft = "none"
  BY <1>4, <1>14 DEF Review
<1>15. CASE AgentFails(c) \/ (Ideas(c) /\ ~ mem[c].sources) \/ (Draft(c) /\ mem[c].ideas = {})
  BY <1>4, <1>15 DEF AgentFails, Ideas, Draft
<1> QED BY <1>5, <1>6, <1>7, <1>8, <1>9, <1>10, <1>11, <1>12, <1>13, <1>14, <1>15

(* A command starts with the content it finds, at another stage at most;   *)
(* only a run counts rounds, and it starts with a new content.             *)
LEMMA StartHist ==
  ASSUME PubInv, HistInv, Kept, NEW c \in Commands, Start(c)
  PROVE  HistInv'
<1>1. /\ LocalsOK /\ UNCHANGED <<file, recs>>
      /\ recs' = [recs EXCEPT ![c] = recs[c]]
      /\ Explained(recs[c], faults', sent', Queued')
  BY Unmoved, StillExplained
     DEF PubInv, HistInv, Holds, Start, StartRun, StartStep, StartEngagement, StartBulk, Load
<1>2. ASSUME NEW content, NEW place, NEW rounds,
             Load(c, content, place, rounds), place # "idle",
             Explained(content.posts, faults', sent', Queued'), Reasoned(content),
             EnoughRounds(content, rounds)
      PROVE  HistInv'
  <2>1. Holds(place, content, rounds, recs[c], faults', sent', Queued')
    BY <1>1, <1>2 DEF Holds
  <2>2. pc' = [pc EXCEPT ![c] = place] /\ mem' = [mem EXCEPT ![c] = content]
        /\ left' = [left EXCEPT ![c] = rounds]
    BY <1>2 DEF Load
  <2> QED BY <1>1, <2>1, <2>2, CommandHist
<1>3. isContent(file) => /\ file \in Contents
                         /\ Explained(file.posts, faults', sent', Queued')
                         /\ Reasoned(file) /\ EnoughRounds(file, None)
  BY StillExplained DEF PubInv, SharedOK, isContent, HistInv, EnoughRounds
<1>4. CASE StartRun(c)
  <2>1. Load(c, createContent, "working", Safety)
    BY <1>4 DEF StartRun
  <2>2. Reasoned(createContent) /\ createContent.posts = NoPosts
    BY DEF Reasoned, createContent
  <2>3. EnoughRounds(createContent, Safety)
    BY PipelineAssumption DEF EnoughRounds, Need, Rest, createContent
  <2> QED BY <1>2, <2>1, <2>2, <2>3, NothingToExplain
<1>5. CASE StartStep(c) \/ StartEngagement(c)
  BY <1>2, <1>3, <1>5 DEF StartStep, StartEngagement
<1>6. ASSUME NEW action \in BulkActions, StartBulk(c, action)
      PROVE  HistInv'
  <2> DEFINE to   == bulkNextStage(action, file.stage)
             next == [file EXCEPT !.stage = to]
  <2>1. isContent(file) /\ to # file.stage /\ Load(c, next, "saving", None)
    BY <1>6 DEF StartBulk
  <2>2. to # "done"
    BY <2>1, PipelineAssumption DEF bulkNextStage
  <2> HIDE DEF to
  <2>3. next.posts = file.posts /\ next.stage = to
    BY <1>3, <2>1 DEF Contents
  <2>4. Reasoned(next) /\ EnoughRounds(next, None)
    BY <2>2, <2>3 DEF Reasoned, EnoughRounds
  <2> HIDE DEF next
  <2> QED BY <1>2, <1>3, <2>1, <2>3, <2>4
<1> QED BY <1>4, <1>5, <1>6 DEF Start

(* What is saved is what the command held; a crash loses it.               *)
LEMMA SaveHist ==
  ASSUME PubInv, HistInv, Kept, NEW c \in Commands, Save(c) \/ Crash(c)
  PROVE  HistInv'
<1>1. LocalsOK /\ pc[c] # "idle"
  BY DEF PubInv, Save, Crash
<1>2. /\ pc' = [pc EXCEPT ![c] = "idle"]
      /\ mem' = [mem EXCEPT ![c] = NoContent]
      /\ left' = [left EXCEPT ![c] = None]
      /\ recs' = [recs EXCEPT ![c] = NoPosts]
  BY DEF Save, Crash, Forget
<1>3. Holds("idle", NoContent, None, NoPosts, faults', sent', Queued')
  BY NothingToExplain DEF Holds
<1>4. file' = file \/ ~ isContent(file') \/ file' = mem[c]
  BY DEF Save, Crash, isContent
<1> QED BY <1>1, <1>2, <1>3, <1>4, CommandHist

(* The publish agent records a post as posted when the platform accepted   *)
(* it and as failed when it has sunk a row, or could not.                  *)
LEMMA PostHist ==
  ASSUME PubInv, HistInv, Kept, NEW c \in Commands, NEW p \in Platforms,
         NEW outcome \in Outcomes, PostOne(c, p, outcome)
  PROVE  HistInv'
<1>1. SharedOK /\ LocalsOK /\ pc[c] = "publishing"
  BY DEF PubInv, PostOne
<1>2. recs[c] \in PostRecords /\ mem[c].draft = "good"
  BY <1>1, Unmoved DEF PostRecords, Fits, Reviewed
<1> DEFINE R == [recs[c] EXCEPT ![p] = IF outcome = "ok" THEN "posted" ELSE "failed"]
<1>3. /\ pc' = [pc EXCEPT ![c] = pc[c]]
      /\ mem' = [mem EXCEPT ![c] = mem[c]]
      /\ left' = [left EXCEPT ![c] = left[c]]
      /\ recs' = [recs EXCEPT ![c] = R]
      /\ UNCHANGED file
  BY <1>1, Unmoved DEF PostOne
<1>4. outcome = "ok" => sent'[p] > 0
  BY <1>1, PublicationKept DEF PostOne
<1>5. ASSUME faults' = 0
      PROVE  p \in Queued'
  <2>1. PICK sinkFails \in BOOLEAN :
          /\ faults' = faults + (IF outcome = "lost" THEN 1 ELSE 0) + (IF sinkFails THEN 1 ELSE 0)
          /\ IF sinkFails \/ Sunk(outcome) = {}
             THEN UNCHANGED rows
             ELSE \E i \in RowIds, item \in Sunk(outcome) :
                    /\ rows[i] = None
                    /\ rows' = [rows EXCEPT ![i] =
                         [platform |-> p, draft |-> mem[c].draft, item |-> item]]
    BY DEF PostOne
  <2>2. ~ sinkFails /\ Sunk(outcome) # {}
    BY <1>1, <1>5, <2>1 DEF SharedOK, Sunk
  <2>3. PICK i \in RowIds, item \in Sunk(outcome) :
          /\ rows[i] = None
          /\ rows' = [rows EXCEPT ![i] =
               [platform |-> p, draft |-> mem[c].draft, item |-> item]]
    BY <2>1, <2>2
  <2> DEFINE row == [platform |-> p, draft |-> mem[c].draft, item |-> item]
  <2>4. row \in QueueRows /\ row.platform = p /\ rows' = [rows EXCEPT ![i] = row]
    BY <1>2, <2>3, SunkType DEF QueueRows
  <2> HIDE DEF row
  <2> QED BY <1>1, <2>3, <2>4, RowKept
<1>6. Explained(recs[c], faults', sent', Queued')
  BY StillExplained DEF HistInv, Holds
<1>7. Explained(R, faults', sent', Queued')
  BY <1>2, <1>4, <1>5, <1>6 DEF Explained, PostRecords
<1>8. Holds(pc[c], mem[c], left[c], R, faults', sent', Queued')
  <2>1. Holds(pc[c], mem[c], left[c], recs[c], faults, sent, Queued)
    BY DEF HistInv
  <2> HIDE DEF R
  <2> QED BY <1>7, <2>1, StillExplained DEF Holds
<1> HIDE DEF R
<1> QED BY <1>1, <1>3, <1>8, CommandHist

(* The end of the publish stage keeps the records of a success and drops   *)
(* those of a failure.                                                     *)
LEMMA EndPublishHist ==
  ASSUME PubInv, HistInv, Kept, NEW c \in Commands, EndPublish(c)
  PROVE  HistInv'
<1>1. LocalsOK /\ pc[c] = "publishing" /\ UNCHANGED file
      /\ recs' = [recs EXCEPT ![c] = NoPosts]
  BY DEF PubInv, EndPublish
<1>2. mem[c] \in Contents /\ mem[c].stage = "publish" /\ recs[c] \in PostRecords
  BY <1>1, Unmoved DEF Fits, PostRecords
<1>3. CASE Refused(c)
  BY <1>1, <1>3, RefusedHist, NothingToExplain
<1> DEFINE next == [mem[c] EXCEPT !.posts = recs[c], !.stage = "done"]
<1>4. CASE ~ Refused(c)
  <2>1. ~ allFailed(recs[c]) /\ Advanced(c, next)
    <3>1. next = [[mem[c] EXCEPT !.posts = recs[c]] EXCEPT !.stage = "done"]
      BY <1>2 DEF Contents
    <3> HIDE DEF next
    <3> QED BY <1>4, <3>1 DEF EndPublish, applyOk
  <2>2. next \in Contents /\ next.posts = recs[c] /\ next.stage = "done"
    BY <1>2 DEF Contents, PostRecords, Stages
  <2> HIDE DEF next
  <2>3. Reasoned(next)
    BY <2>1, <2>2 DEF Reasoned, allFailed
  <2>4. /\ Need(next) \in Nat /\ Need(mem[c]) \in Nat /\ Need(next) < Need(mem[c])
        /\ pc[c] \in {"working", "publishing"}
    BY <1>1, <1>2, <2>2 DEF Need, Rest
  <2>5. Explained(next.posts, faults', sent', Queued')
    BY <2>2, StillExplained DEF HistInv, Holds
  <2> QED BY <1>1, <2>1, <2>2, <2>3, <2>4, <2>5, NothingToExplain, AdvancedHist
<1> QED BY <1>3, <1>4

(* The beginning of the publish stage only lays out what to do.            *)
LEMMA BeginPublishHist ==
  ASSUME PubInv, HistInv, Kept, NEW c \in Commands, BeginPublish(c)
  PROVE  HistInv'
<1>1. LocalsOK /\ pc[c] = "working"
  BY DEF PubInv, BeginPublish, At
<1>2. mem[c].draft = "good"
  BY <1>1, Unmoved DEF BeginPublish, At, Fits, Reviewed
<1>3. /\ pc' = [pc EXCEPT ![c] = "publishing"]
      /\ mem' = [mem EXCEPT ![c] = mem[c]]
      /\ left' = [left EXCEPT ![c] = left[c]]
      /\ recs' = [recs EXCEPT ![c] = NoPosts]
      /\ UNCHANGED file
  BY <1>1, <1>2, Unmoved DEF BeginPublish
<1>4. Holds(pc[c], mem[c], left[c], recs[c], faults, sent, Queued)
  BY DEF HistInv
<1>5. Holds("publishing", mem[c], left[c], NoPosts, faults', sent', Queued')
  BY <1>1, <1>4, StillExplained, NothingToExplain DEF Holds
<1> QED BY <1>1, <1>3, <1>5, CommandHist

(* Initially nothing is recorded.                                          *)
LEMMA HistInit == Init => HistInv
BY NothingToExplain DEF Init, HistInv, Holds, isContent

(* Every step preserves HistInv.                                           *)
LEMMA HistNext == PubInv /\ HistInv /\ [Next]_vars => HistInv'
<1> SUFFICES ASSUME PubInv, HistInv, [Next]_vars PROVE HistInv'
  OBVIOUS
<1>1. CASE UNCHANGED vars
  BY <1>1 DEF vars, locals, HistInv, Holds, Queued, isContent, Reasoned
<1>2. CASE Next
  <2>1. Kept /\ LocalsOK
    BY <1>2, KeptNext DEF PubInv
  <2>2. ASSUME NEW c \in Commands, Work(c) PROVE HistInv'
    BY <2>1, <2>2, AgentsHist, BeginPublishHist, PostHist, EndPublishHist, SaveHist DEF Work
  <2>3. CASE Worker
    <3>1. UNCHANGED <<file, pc, mem, left, recs>>
      BY <2>3 DEF Worker, WorkerAttempt, WorkerCrash, locals
    <3>2. ASSUME NEW c \in Commands
          PROVE  Holds(pc'[c], mem'[c], left'[c], recs'[c], faults', sent', Queued')
      <4>1. Holds(pc[c], mem[c], left[c], recs[c], faults, sent, Queued)
        BY DEF HistInv
      <4> QED BY <2>1, <3>1, <4>1, StillExplained DEF Holds
    <3>3. isContent(file') => Explained(file'.posts, faults', sent', Queued') /\ Reasoned(file')
      BY <2>1, <3>1, StillExplained DEF HistInv
    <3> QED BY <3>2, <3>3 DEF HistInv, isContent, Reasoned
  <2> QED BY <1>2, <2>1, <2>2, <2>3, StartHist, SaveHist DEF Next
<1> QED BY <1>1, <1>2

(* HistInv holds of every reachable state.                                 *)
THEOREM HistInvariant == Spec => [](PubInv /\ HistInv)
BY PubInvInit, PubInvNext, HistInit, HistNext, PTL DEF Spec

(* What a saved content records as failed is in the queue, unless some     *)
(* fault is to blame: no overlap of commands, bulk action or step of the   *)
(* worker loses the row of a failed post.                                  *)
THEOREM FailedPostsAreQueued == Spec => []FailedPostsQueued
<1>1. HistInv => FailedPostsQueued
  BY DEF HistInv, FailedPostsQueued, Explained, Queued
<1> QED BY <1>1, HistInvariant, PTL

(* A saved content that is done was accepted by a platform or has no       *)
(* revision left.                                                          *)
THEOREM DoneHasAReason == Spec => []DoneForAReason
<1>1. HistInv => DoneForAReason
  BY DEF HistInv, DoneForAReason, Explained, Reasoned
<1> QED BY <1>1, HistInvariant, PTL

(* With more rounds than the longest run needs, for any cap on revisions,  *)
(* the safety counter of Pipeline.run never runs out.                      *)
THEOREM EveryRunEndsByItself ==
  ASSUME Safety > 6 + 3 * MaxRevisions
  PROVE  Spec => []RunsEndByThemselves
<1>1. PubInv /\ HistInv => RunsEndByThemselves
  <2> SUFFICES ASSUME PubInv, HistInv, NEW c \in Commands
               PROVE  left[c] # 0
    BY DEF RunsEndByThemselves
  <2>1. CASE pc[c] = "idle"
    BY <2>1, QueueAssumption DEF HistInv, Holds
  <2>2. CASE pc[c] # "idle"
    <3>1. EnoughRounds(mem[c], left[c]) /\ mem[c] \in Contents
      BY <2>2, Unmoved DEF PubInv, HistInv, Holds, Fits
    <3>2. Need(mem[c]) \in Nat
      BY <3>1, NeedType
    <3> QED BY <3>1, <3>2, QueueAssumption DEF EnoughRounds
  <2> QED BY <2>1, <2>2
<1> QED BY <1>1, HistInvariant, PTL

-----------------------------------------------------------------------------
(* How often a platform may accept the content.  Each entry of the publish *)
(* stage is worth one publication per platform.  It is spent by the post,  *)
(* or, if the post fails, handed over to the row that is sunk, until the   *)
(* worker spends it; only a fault spends without handing it in.            *)

(* The rows of platform p that the worker may still attempt.               *)
Waiting(p) ==
  {i \in RowIds : rows[i] # None /\ rows[i].platform = p /\ ~ isTerminal(rows[i].item)}

(* The commands that will still post to p.                                 *)
Under(p) == {c \in Commands : pc[c] = "publishing" /\ p \in todo[c]}

OnceInv(p) ==
  /\ IsFiniteSet(Under(p))
  /\ sent[p] + Cardinality(Waiting(p)) + Cardinality(Under(p)) <= begun + faults

(* Counting a set that shrinks, grows by one element, or loses one.        *)
LEMMA CountSets ==
  ASSUME NEW S, IsFiniteSet(S), NEW T, NEW x
  PROVE  /\ T \subseteq S => IsFiniteSet(T) /\ Cardinality(T) <= Cardinality(S)
         /\ T \subseteq S \cup {x} => IsFiniteSet(T) /\ Cardinality(T) <= Cardinality(S) + 1
         /\ x \in S /\ T \subseteq S \ {x} => Cardinality(T) <= Cardinality(S) - 1
         /\ Cardinality(S) \in Nat /\ (IsFiniteSet(T) => Cardinality(T) \in Nat)
<1>1. ASSUME NEW U, IsFiniteSet(U), T \subseteq U
      PROVE  IsFiniteSet(T) /\ Cardinality(T) <= Cardinality(U)
  BY <1>1, FS_Subset
<1>2. Cardinality(S) \in Nat /\ (IsFiniteSet(T) => Cardinality(T) \in Nat)
  BY FS_CardinalityType
<1>3. /\ IsFiniteSet(S \cup {x}) /\ Cardinality(S \cup {x}) \in Nat
      /\ Cardinality(S \cup {x}) <= Cardinality(S) + 1
  <2>1. IsFiniteSet(S \cup {x})
    BY FS_AddElement
  <2>2. Cardinality(S \cup {x}) \in Nat
    BY <2>1, FS_CardinalityType
  <2>3. CASE x \in S
    <3>1. Cardinality(S \cup {x}) = Cardinality(S)
      BY <2>3, FS_AddElement
    <3> QED BY <1>2, <2>1, <2>2, <3>1
  <2>4. CASE x \notin S
    <3>1. Cardinality(S \cup {x}) = Cardinality(S) + 1
      BY <2>4, FS_AddElement
    <3> QED BY <1>2, <2>1, <2>2, <3>1
  <2> QED BY <2>3, <2>4
<1>4. IsFiniteSet(S \ {x}) /\ (x \in S => Cardinality(S \ {x}) = Cardinality(S) - 1)
  BY FS_RemoveElement
<1>5. T \subseteq S \cup {x} => IsFiniteSet(T) /\ Cardinality(T) <= Cardinality(S) + 1
  <2> SUFFICES ASSUME T \subseteq S \cup {x}
               PROVE  IsFiniteSet(T) /\ Cardinality(T) <= Cardinality(S) + 1
    OBVIOUS
  <2>1. IsFiniteSet(T) /\ Cardinality(T) <= Cardinality(S \cup {x})
    BY <1>1, <1>3
  <2>2. Cardinality(T) \in Nat
    BY <2>1, FS_CardinalityType
  <2> QED BY <1>2, <1>3, <2>1, <2>2
<1>6. x \in S /\ T \subseteq S \ {x} => Cardinality(T) <= Cardinality(S) - 1
  <2> SUFFICES ASSUME x \in S, T \subseteq S \ {x}
               PROVE  Cardinality(T) <= Cardinality(S) - 1
    OBVIOUS
  <2>1. Cardinality(T) <= Cardinality(S \ {x})
    BY <1>1, <1>4
  <2> QED BY <1>4, <2>1
<1>7. T \subseteq S => IsFiniteSet(T) /\ Cardinality(T) <= Cardinality(S)
  BY <1>1
<1> QED BY <1>2, <1>5, <1>6, <1>7

(* Waiting rows can be counted.                                            *)
LEMMA WaitingFinite == ASSUME NEW p PROVE IsFiniteSet(Waiting(p))
BY PipelineAssumption, CountSets DEF Waiting

(* The arithmetic of a balanced step.                                      *)
LEMMA Sums ==
  ASSUME NEW s \in Int, NEW w \in Int, NEW u \in Int,
         NEW a \in Nat, NEW b \in Nat, NEW c \in Nat, NEW d \in Nat,
         NEW a2 \in Nat, NEW b2 \in Nat, NEW c2 \in Nat, NEW d2 \in Nat,
         a + b + c <= d, a2 <= a + s, b2 <= b + w, c2 <= c + u, d2 >= d + s + w + u
  PROVE  a2 + b2 + c2 <= d2
OBVIOUS

(* A step is balanced when what it adds to the publications, the waiting   *)
(* rows and the pending posts is paid for by a new entry or a fault.       *)
LEMMA Balance ==
  ASSUME PubInv, PubInv', NEW p \in Platforms, OnceInv(p),
         NEW s \in Int, NEW w \in Int, NEW u \in Int,
         sent'[p] <= sent[p] + s,
         Cardinality(Waiting(p)') <= Cardinality(Waiting(p)) + w,
         Cardinality(Under(p)') <= Cardinality(Under(p)) + u,
         IsFiniteSet(Under(p)'),
         begun' + faults' >= begun + faults + s + w + u
  PROVE  OnceInv(p)'
<1>1. /\ sent[p] \in Nat /\ begun \in Nat /\ faults \in Nat
      /\ sent'[p] \in Nat /\ begun' \in Nat /\ faults' \in Nat
  BY DEF PubInv, SharedOK
<1>2. IsFiniteSet(Waiting(p)) /\ IsFiniteSet(Waiting(p)')
  <2>1. Waiting(p) \subseteq RowIds /\ Waiting(p)' \subseteq RowIds
    BY DEF Waiting
  <2> QED BY <2>1, PipelineAssumption, CountSets
<1>3. /\ Cardinality(Waiting(p)) \in Nat /\ Cardinality(Under(p)) \in Nat
      /\ Cardinality(Waiting(p)') \in Nat /\ Cardinality(Under(p)') \in Nat
  BY <1>2, CountSets DEF OnceInv
<1>4. sent[p] + Cardinality(Waiting(p)) + Cardinality(Under(p)) <= begun + faults
  BY DEF OnceInv
<1>5. PICK total \in Nat : total = begun + faults
  BY <1>1
<1>6. PICK total2 \in Nat : total2 = begun' + faults'
  <2>1. \A m, n \in Nat : m + n \in Nat
    OBVIOUS
  <2> QED BY <1>1, <2>1
<1>7. total2 >= total + s + w + u
  BY <1>5, <1>6
<1>8. sent[p] + Cardinality(Waiting(p)) + Cardinality(Under(p)) <= total
  BY <1>4, <1>5
<1>9. sent'[p] + Cardinality(Waiting(p)') + Cardinality(Under(p)') <= total2
  BY <1>1, <1>3, <1>7, <1>8, Sums
<1> QED BY <1>6, <1>9 DEF OnceInv

(* A step that publishes nothing and touches no row.                       *)
LEMMA QuietOnce ==
  ASSUME PubInv, PubInv', NEW p \in Platforms, OnceInv(p),
         UNCHANGED <<rows, begun, sent>>, faults' = faults \/ faults' = faults + 1,
         Under(p)' \subseteq Under(p)
  PROVE  OnceInv(p)'
<1>1. sent[p] \in Nat /\ begun \in Nat /\ faults \in Nat
  BY DEF PubInv, SharedOK
<1>2. Waiting(p)' = Waiting(p) /\ Cardinality(Waiting(p)) \in Nat
  BY WaitingFinite, CountSets DEF Waiting
<1>3. /\ IsFiniteSet(Under(p)') /\ Cardinality(Under(p)') <= Cardinality(Under(p)) + 0
      /\ Cardinality(Under(p)) \in Nat
  <2>1. /\ IsFiniteSet(Under(p)') /\ Cardinality(Under(p)') <= Cardinality(Under(p))
        /\ Cardinality(Under(p)) \in Nat
    BY CountSets DEF OnceInv
  <2> QED BY <2>1
<1>4. /\ sent'[p] <= sent[p] + 0
      /\ Cardinality(Waiting(p)') <= Cardinality(Waiting(p)) + 0
      /\ begun' + faults' >= begun + faults + 0 + 0 + 0
  BY <1>1, <1>2
<1> QED BY <1>3, <1>4, Balance

(* A command that is not at the publish stage after its step.              *)
LEMMA QuietUnder ==
  ASSUME LocalsOK, NEW p, NEW c \in Commands, NEW place, place # "publishing", NEW T,
         pc' = [pc EXCEPT ![c] = place],
         UNCHANGED todo \/ todo' = [todo EXCEPT ![c] = T]
  PROVE  Under(p)' \subseteq Under(p)
BY DEF LocalsOK, Under

(* The steps of a command other than its posts: only the beginning of the  *)
(* publish stage adds a pending post, and it is an entry.                  *)
LEMMA CommandOnce ==
  ASSUME PubInv, PubInv', NEW p \in Platforms, OnceInv(p), NEW c \in Commands,
         \/ Start(c) \/ Crash(c) \/ Save(c) \/ EndPublish(c) \/ BeginPublish(c)
         \/ AgentFails(c) \/ Intake(c) \/ Research(c) \/ Ideas(c)
         \/ Draft(c) \/ Review(c) \/ Revise(c)
  PROVE  OnceInv(p)'
<1>1. LocalsOK
  BY DEF PubInv
<1>2. ASSUME NEW place, place # "publishing", NEW T,
             pc' = [pc EXCEPT ![c] = place],
             UNCHANGED todo \/ todo' = [todo EXCEPT ![c] = T],
             UNCHANGED <<rows, begun, sent>>, faults' = faults \/ faults' = faults + 1
      PROVE  OnceInv(p)'
  <2>1. Under(p)' \subseteq Under(p)
    BY <1>1, <1>2, QuietUnder
  <2> QED BY <1>2, <2>1, QuietOnce
<1>3. ASSUME Refused(c) \/ \E content : Advanced(c, content)
      PROVE  \E place : place # "publishing" /\ pc' = [pc EXCEPT ![c] = place]
  <2>1. CASE Refused(c)
    BY <2>1 DEF Refused
  <2>2. ASSUME NEW content, Advanced(c, content)
        PROVE  \E place : place # "publishing" /\ pc' = [pc EXCEPT ![c] = place]
    <3> DEFINE place == IF isTerminalStage(content.stage) \/ left[c] = 1 THEN "saving" ELSE "working"
    <3>1. pc' = [pc EXCEPT ![c] = "saving"] \/ pc' = [pc EXCEPT ![c] = place]
      BY <2>2 DEF Advanced
    <3>2. place # "publishing"
      OBVIOUS
    <3> HIDE DEF place
    <3> QED BY <3>1, <3>2
  <2> QED BY <1>3, <2>1, <2>2
<1>4. CASE Start(c)
  <2>1. PICK place \in {"working", "saving"} : pc' = [pc EXCEPT ![c] = place]
    BY <1>4 DEF Start, StartRun, StartStep, StartEngagement, StartBulk, Load
  <2>2. UNCHANGED <<todo, rows, begun, sent, faults>>
    BY <1>4 DEF Start, StartRun, StartStep, StartEngagement, StartBulk, Load
  <2> QED BY <1>2, <2>1, <2>2
<1>5. CASE Crash(c) \/ Save(c)
  BY <1>2, <1>5 DEF Crash, Save, Forget
<1>6. CASE \/ AgentFails(c) \/ Intake(c) \/ Research(c) \/ Ideas(c)
           \/ Draft(c) \/ Review(c) \/ Revise(c) \/ EndPublish(c)
  <2>1. UNCHANGED <<todo, rows, begun, sent, faults>>
    BY <1>6 DEF AgentFails, Intake, Research, Ideas, Draft, Review, Revise, EndPublish, Elsewhere
  <2>2. Refused(c) \/ \E content : Advanced(c, content)
    <3>1. \A to, content : applyOk(c, to, content) => Refused(c) \/ \E k : Advanced(c, k)
      BY DEF applyOk
    <3>2. CASE Review(c)
      <4>1. mem[c].draft \in {"none", "good", "poor"}
        BY <1>1, <3>2, Unmoved DEF Review, At, Fits, Contents
      <4>2. CASE mem[c].draft = "none"
        BY <3>2, <4>2 DEF Review
      <4>3. CASE mem[c].draft = "good"
        BY <3>1, <3>2, <4>3 DEF Review
      <4>4. CASE mem[c].draft = "poor"
        BY <3>1, <3>2, <4>4 DEF Review
      <4> QED BY <4>1, <4>2, <4>3, <4>4
    <3>3. CASE AgentFails(c) \/ Intake(c) \/ Research(c)
      BY <3>1, <3>3 DEF AgentFails, Intake, Research
    <3>4. CASE Ideas(c)
      BY <3>1, <3>4 DEF Ideas
    <3>5. CASE Draft(c)
      BY <3>1, <3>5 DEF Draft
    <3>6. CASE Revise(c)
      BY <3>1, <3>6 DEF Revise
    <3>7. CASE EndPublish(c)
      BY <3>1, <3>7 DEF EndPublish
    <3> QED BY <1>6, <3>2, <3>3, <3>4, <3>5, <3>6, <3>7
  <2> QED BY <1>2, <1>3, <2>1, <2>2
<1>7. CASE BeginPublish(c)
  <2>1. CASE mem[c].draft = "none"
    BY <1>2, <1>3, <1>7, <2>1 DEF BeginPublish
  <2>2. CASE mem[c].draft # "none"
    <3>1. /\ pc' = [pc EXCEPT ![c] = "publishing"]
          /\ todo' = [todo EXCEPT ![c] = deriveTargets(mem[c])]
          /\ begun' = begun + 1 /\ UNCHANGED <<rows, sent, faults>>
      BY <1>7, <2>2 DEF BeginPublish
    <3>2. Under(p)' \subseteq Under(p) \cup {c}
      BY <1>1, <3>1 DEF Under, LocalsOK
    <3>3. /\ IsFiniteSet(Under(p)') /\ Cardinality(Under(p)') <= Cardinality(Under(p)) + 1
      BY <3>2, CountSets DEF OnceInv
    <3>4. Waiting(p)' = Waiting(p) /\ Cardinality(Waiting(p)) \in Nat
      BY <3>1, WaitingFinite, CountSets DEF Waiting
    <3>5. sent[p] \in Nat /\ begun \in Nat /\ faults \in Nat
      BY DEF PubInv, SharedOK
    <3>6. /\ sent'[p] <= sent[p] + 0
          /\ Cardinality(Waiting(p)') <= Cardinality(Waiting(p)) + 0
          /\ begun' + faults' >= begun + faults + 0 + 0 + 1
      BY <3>1, <3>4, <3>5
    <3> QED BY <3>3, <3>6, Balance
  <2> QED BY <2>1, <2>2
<1> QED BY <1>4, <1>5, <1>6, <1>7

(* What a publication adds to the count of p.                              *)
LEMMA PublicationOnce ==
  ASSUME SharedOK, NEW p \in Platforms, NEW q \in Platforms, NEW draft, NEW outcome,
         Publication(q, draft, outcome)
  PROVE  /\ sent[p] \in Nat
         /\ sent'[p] = sent[p] + (IF p = q /\ outcome \in {"ok", "lost"} THEN 1 ELSE 0)
<1>1. sent \in [Platforms -> Nat]
  BY DEF SharedOK
<1>2. CASE outcome \in {"ok", "lost"}
  BY <1>1, <1>2 DEF Publication
<1>3. CASE outcome \notin {"ok", "lost"}
  <2>1. sent' = sent
    BY <1>3 DEF Publication
  <2> QED BY <1>1, <1>3, <2>1
<1> QED BY <1>2, <1>3

(* A post spends what the command held, or hands it to the row it sinks.   *)
LEMMA PostOnce ==
  ASSUME PubInv, PubInv', NEW p \in Platforms, OnceInv(p), NEW c \in Commands,
         NEW q \in Platforms, NEW outcome \in Outcomes, PostOne(c, q, outcome)
  PROVE  OnceInv(p)'
<1>1. SharedOK /\ LocalsOK /\ begun \in Nat /\ faults \in Nat /\ sent[p] \in Nat
  BY DEF PubInv, SharedOK
<1>2. sent'[p] = sent[p] + (IF p = q /\ outcome \in {"ok", "lost"} THEN 1 ELSE 0)
  BY <1>1, PublicationOnce DEF PostOne
<1>3. /\ pc[c] = "publishing" /\ q \in todo[c]
      /\ UNCHANGED <<pc, begun>> /\ todo' = [todo EXCEPT ![c] = todo[c] \ {q}]
  BY DEF PostOne
<1>4. PICK extra \in Nat : faults' = faults + extra /\ (outcome = "lost" => extra >= 1)
  <2>1. PICK sinkFails \in BOOLEAN :
          faults' = faults + (IF outcome = "lost" THEN 1 ELSE 0) + (IF sinkFails THEN 1 ELSE 0)
    BY DEF PostOne
  <2>2. CASE outcome = "lost" /\ sinkFails
    BY <1>1, <2>1, <2>2
  <2>3. CASE outcome # "lost" /\ ~ sinkFails
    BY <1>1, <2>1, <2>3
  <2>4. CASE (outcome = "lost") # sinkFails
    BY <1>1, <2>1, <2>4
  <2> QED BY <2>2, <2>3, <2>4
<1>5. /\ Under(p)' \subseteq Under(p)
      /\ p = q => c \in Under(p) /\ Under(p)' \subseteq Under(p) \ {c}
  BY <1>1, <1>3 DEF Under, LocalsOK
<1>6. /\ IsFiniteSet(Under(p)') /\ Cardinality(Under(p)) \in Nat
      /\ Cardinality(Under(p)') <= Cardinality(Under(p))
      /\ p = q => Cardinality(Under(p)') <= Cardinality(Under(p)) - 1
  BY <1>5, CountSets DEF OnceInv
<1>7. \E i : /\ Waiting(p)' \subseteq Waiting(p) \cup {i}
             /\ p # q \/ outcome = "ok" => Waiting(p)' \subseteq Waiting(p)
  <2>1. CASE UNCHANGED rows
    BY <2>1 DEF Waiting
  <2>2. ASSUME NEW i \in RowIds, NEW item \in Sunk(outcome),
               rows' = [rows EXCEPT ![i] =
                 [platform |-> q, draft |-> mem[c].draft, item |-> item]]
        PROVE  /\ Waiting(p)' \subseteq Waiting(p) \cup {i}
               /\ p # q \/ outcome = "ok" => Waiting(p)' \subseteq Waiting(p)
    <3>1. outcome = "ok" => item.status = "posted"
      BY DEF Sunk, createQueueItem
    <3>2. \A j \in RowIds : j # i => rows'[j] = rows[j]
      BY <1>1, <2>2 DEF SharedOK
    <3>3. rows'[i].platform = q /\ rows'[i].item = item
      BY <1>1, <2>2 DEF SharedOK
    <3> QED BY <3>1, <3>2, <3>3 DEF Waiting, isTerminal, TerminalStatuses
  <2> QED BY <2>1, <2>2 DEF PostOne
<1>8. /\ Cardinality(Waiting(p)) \in Nat
      /\ Cardinality(Waiting(p)') <= Cardinality(Waiting(p)) + 1
      /\ p # q \/ outcome = "ok" => Cardinality(Waiting(p)') <= Cardinality(Waiting(p))
  BY <1>7, WaitingFinite, CountSets
<1>9. CASE p # q
  <2>1. /\ sent'[p] <= sent[p] + 0
        /\ Cardinality(Waiting(p)') <= Cardinality(Waiting(p)) + 0
        /\ Cardinality(Under(p)') <= Cardinality(Under(p)) + 0
        /\ begun' + faults' >= begun + faults + 0 + 0 + 0
    BY <1>1, <1>2, <1>3, <1>4, <1>6, <1>8, <1>9
  <2> QED BY <1>6, <2>1, Balance
<1>10. CASE p = q /\ outcome = "ok"
  <2>1. /\ sent'[p] <= sent[p] + 1
        /\ Cardinality(Waiting(p)') <= Cardinality(Waiting(p)) + 0
        /\ Cardinality(Under(p)') <= Cardinality(Under(p)) + (-1)
        /\ begun' + faults' >= begun + faults + 1 + 0 + (-1)
    BY <1>1, <1>2, <1>3, <1>4, <1>6, <1>8, <1>10
  <2> QED BY <1>6, <2>1, Balance
<1>11. CASE p = q /\ outcome = "throw"
  <2>1. /\ sent'[p] <= sent[p] + 0
        /\ Cardinality(Waiting(p)') <= Cardinality(Waiting(p)) + 1
        /\ Cardinality(Under(p)') <= Cardinality(Under(p)) + (-1)
        /\ begun' + faults' >= begun + faults + 0 + 1 + (-1)
    BY <1>1, <1>2, <1>3, <1>4, <1>6, <1>8, <1>11
  <2> QED BY <1>6, <2>1, Balance
<1>12. CASE p = q /\ outcome = "lost"
  <2>1. /\ sent'[p] <= sent[p] + 1
        /\ Cardinality(Waiting(p)') <= Cardinality(Waiting(p)) + 1
        /\ Cardinality(Under(p)') <= Cardinality(Under(p)) + (-1)
        /\ begun' + faults' >= begun + faults + 1 + 1 + (-1)
    BY <1>1, <1>2, <1>3, <1>4, <1>6, <1>8, <1>12
  <2> QED BY <1>6, <2>1, Balance
<1> QED BY <1>9, <1>10, <1>11, <1>12, PipelineAssumption

(* The worker spends what the row held: a posted row waits no longer.  A   *)
(* post whose success is not recorded costs a fault.                       *)
LEMMA WorkerOnce ==
  ASSUME PubInv, PubInv', NEW p \in Platforms, OnceInv(p), Worker
  PROVE  OnceInv(p)'
<1>1. SharedOK /\ begun \in Nat /\ faults \in Nat /\ sent[p] \in Nat
  BY DEF PubInv, SharedOK
<1>2. UNCHANGED <<pc, todo, begun>>
  BY DEF Worker, WorkerAttempt, WorkerCrash, locals
<1>3. Under(p)' = Under(p) /\ IsFiniteSet(Under(p)') /\ Cardinality(Under(p)) \in Nat
  BY <1>2, CountSets DEF Under, OnceInv
<1>4. Cardinality(Waiting(p)) \in Nat
  BY WaitingFinite, CountSets
<1>5. ASSUME NEW i \in RowIds, NEW outcome \in Outcomes, WorkerAttempt(i, outcome)
      PROVE  OnceInv(p)'
  <2> DEFINE item == IF outcome = "ok" THEN recordAttemptSuccess(rows[i].item, "id")
                     ELSE recordAttemptFailure(rows[i].item, 0)
             row  == [rows[i] EXCEPT !.item = item]
             q    == rows[i].platform
  <2>1. rows[i] \in QueueRows /\ q \in Platforms /\ rows[i].item \in RowType
    BY <1>1, <1>5 DEF WorkerAttempt, SharedOK, QueueRows
  <2>2. sent'[p] = sent[p] + (IF p = q /\ outcome \in {"ok", "lost"} THEN 1 ELSE 0)
    BY <1>1, <1>5, <2>1, PublicationOnce DEF WorkerAttempt
  <2>3. outcome = "ok" => item.status = "posted"
    BY <2>1, SuccessFields
  <2>4. rows' = [rows EXCEPT ![i] = row]
    BY <1>5 DEF WorkerAttempt
  <2>5. rows[i] # None /\ ~ isTerminal(rows[i].item)
    BY <1>5 DEF WorkerAttempt
  <2> HIDE DEF item
  <2>6. row.platform = q /\ row.item = item
    BY <2>1 DEF QueueRows
  <2> HIDE DEF row
  <2>7. /\ Waiting(p)' \subseteq Waiting(p)
        /\ p = q /\ outcome = "ok" => i \in Waiting(p) /\ Waiting(p)' \subseteq Waiting(p) \ {i}
    <3>1. \A j \in RowIds : j # i => rows'[j] = rows[j]
      BY <1>1, <2>4 DEF SharedOK
    <3>2. rows'[i] = row
      BY <1>1, <2>4 DEF SharedOK
    <3> QED BY <2>3, <2>5, <2>6, <3>1, <3>2 DEF Waiting, isTerminal, TerminalStatuses
  <2>8. /\ Cardinality(Waiting(p)') <= Cardinality(Waiting(p))
        /\ p = q /\ outcome = "ok" => Cardinality(Waiting(p)') <= Cardinality(Waiting(p)) - 1
    BY <2>7, WaitingFinite, CountSets
  <2>9. faults' = faults + (IF outcome = "lost" THEN 1 ELSE 0)
    BY <1>5 DEF WorkerAttempt
  <2> HIDE DEF q
  <2>10. CASE p = q /\ outcome = "ok"
    <3>1. /\ sent'[p] <= sent[p] + 1
          /\ Cardinality(Waiting(p)') <= Cardinality(Waiting(p)) + (-1)
          /\ Cardinality(Under(p)') <= Cardinality(Under(p)) + 0
          /\ begun' + faults' >= begun + faults + 1 + (-1) + 0
      BY <1>1, <1>2, <1>3, <1>4, <2>2, <2>8, <2>9, <2>10
    <3> QED BY <1>3, <3>1, Balance
  <2>11. CASE outcome = "lost"
    <3>1. /\ sent'[p] <= sent[p] + 1
          /\ Cardinality(Waiting(p)') <= Cardinality(Waiting(p)) + 0
          /\ Cardinality(Under(p)') <= Cardinality(Under(p)) + 0
          /\ begun' + faults' >= begun + faults + 1 + 0 + 0
      BY <1>1, <1>2, <1>3, <1>4, <2>2, <2>8, <2>9, <2>11
    <3> QED BY <1>3, <3>1, Balance
  <2>12. CASE outcome = "throw" \/ (p # q /\ outcome = "ok")
    <3>1. /\ sent'[p] <= sent[p] + 0
          /\ Cardinality(Waiting(p)') <= Cardinality(Waiting(p)) + 0
          /\ Cardinality(Under(p)') <= Cardinality(Under(p)) + 0
          /\ begun' + faults' >= begun + faults + 0 + 0 + 0
      BY <1>1, <1>2, <1>3, <1>4, <2>2, <2>8, <2>9, <2>12
    <3> QED BY <1>3, <3>1, Balance
  <2> QED BY <2>10, <2>11, <2>12, PipelineAssumption
<1>6. ASSUME NEW i \in RowIds, WorkerCrash(i)
      PROVE  OnceInv(p)'
  <2>1. rows[i].platform \in Platforms
    BY <1>1, <1>6 DEF WorkerCrash, SharedOK, QueueRows
  <2>2. sent'[p] = sent[p] + (IF p = rows[i].platform THEN 1 ELSE 0)
    BY <1>1, <1>6, <2>1, PublicationOnce DEF WorkerCrash
  <2>3. faults' = faults + 1 /\ Waiting(p)' = Waiting(p)
    BY <1>6 DEF WorkerCrash, Waiting
  <2>4. /\ sent'[p] <= sent[p] + 1
        /\ Cardinality(Waiting(p)') <= Cardinality(Waiting(p)) + 0
        /\ Cardinality(Under(p)') <= Cardinality(Under(p)) + 0
        /\ begun' + faults' >= begun + faults + 1 + 0 + 0
    BY <1>1, <1>2, <1>3, <1>4, <2>2, <2>3
  <2> QED BY <1>3, <2>4, Balance
<1> QED BY <1>5, <1>6 DEF Worker

(* Initially there is nothing to count.                                    *)
LEMMA OnceInit == Init => \A p \in Platforms : OnceInv(p)
<1> SUFFICES ASSUME Init, NEW p \in Platforms PROVE OnceInv(p)
  OBVIOUS
<1>1. Under(p) = {} /\ Waiting(p) = {}
  BY DEF Init, Under, Waiting
<1>2. sent[p] = 0 /\ begun = 0 /\ faults = 0
  BY DEF Init
<1> QED BY <1>1, <1>2, FS_EmptySet DEF OnceInv

(* Every step preserves OnceInv.                                           *)
LEMMA OnceNext ==
  PubInv /\ (\A p \in Platforms : OnceInv(p)) /\ [Next]_vars => (\A p \in Platforms : OnceInv(p))'
<1> SUFFICES ASSUME PubInv, [Next]_vars, NEW p \in Platforms, OnceInv(p)
             PROVE  OnceInv(p)'
  OBVIOUS
<1>1. PubInv'
  BY PubInvNext
<1>2. CASE UNCHANGED vars
  BY <1>2 DEF vars, locals, OnceInv, Waiting, Under
<1>3. ASSUME NEW c \in Commands, Work(c) PROVE OnceInv(p)'
  BY <1>1, <1>3, CommandOnce, PostOnce DEF Work
<1> QED BY <1>1, <1>2, <1>3, CommandOnce, WorkerOnce DEF Next

(* No platform accepts the content more often than its publish stage was   *)
(* entered and something failed: for any number of commands, and although  *)
(* the worker retries the rows at any time.                                *)
THEOREM PublishedOncePerEntry == Spec => []AtMostOncePerPublish
<1>1. PubInv /\ (\A p \in Platforms : OnceInv(p)) => AtMostOncePerPublish
  <2> SUFFICES ASSUME PubInv, NEW p \in Platforms, OnceInv(p)
               PROVE  sent[p] <= begun + faults
    BY DEF AtMostOncePerPublish
  <2>1. Cardinality(Waiting(p)) \in Nat /\ Cardinality(Under(p)) \in Nat
    BY WaitingFinite, CountSets DEF OnceInv
  <2> QED BY <2>1 DEF PubInv, SharedOK, OnceInv
<1>2. Spec => [](PubInv /\ \A p \in Platforms : OnceInv(p))
  BY PubInvInit, PubInvNext, OnceInit, OnceNext, PTL DEF Spec
<1> QED BY <1>1, <1>2, PTL
=============================================================================
