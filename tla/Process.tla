------------------------------- MODULE Process -------------------------------
(***************************************************************************)
(* The parts of ima that have nothing to do with contents and the queue:   *)
(* a process talks to the network, is asked about a release or shows the   *)
(* operator's panel, several share the files of `.ima', or the numbers of  *)
(* the posts are put to use, or texts are prepared.  Each is a component   *)
(* of its own; a behaviour moves one of them.                              *)
(***************************************************************************)
EXTENDS OutboundCalls, ProductionOps, SharedFiles, Growth, Drafts

Parts == {"calls", "release", "panel", "experiment", "replies", "ledger", "texts"}

VARIABLE doing   \* one of the parts, or the file at stake

network == <<calls, clock, limiter>>
all == <<doing, network, release, panel, filesVars, growth, texts>>

TypeOK ==
  /\ doing \in Parts \cup Files
  /\ CallsTypeOK /\ LimiterTypeOK /\ DeliveryTypeOK /\ PanelTypeOK /\ FilesTypeOK /\ GrowthTypeOK
  /\ DraftsTypeOK

(* Bound: where the network is not the subject, its command is the same;   *)
(* the panel opens with at most one delivery on record; and the commands   *)
(* that share files are all about one of them, for files do not meet, but  *)
(* that the feedback takes the contents along.                             *)
Init ==
  /\ CallsInit
  /\ ReleaseInit
  /\ PanelInit
  /\ FilesInit
  /\ GrowthInit
  /\ DraftsInit
  /\ doing \in Parts \cup (Files \ {"content"})
  /\ doing # "calls" =>
       command = "doctor" /\ mode = "stub" /\ creds = {}
  /\ doing # "texts" => themes = <<{}>>

CallsMove   == doing = "calls" /\ CallsNext /\ UNCHANGED <<release, panel, filesVars, growth, texts>>
ReleaseMove == doing = "release" /\ ReleaseNext /\ UNCHANGED <<network, panel, filesVars, growth, texts>>
PanelMove ==
  /\ doing = "panel"
  /\ \/ PanelNext /\ UNCHANGED release
     \/ history = <<>> /\ EnterHistory /\ UNCHANGED panel
  /\ UNCHANGED <<network, filesVars, growth, texts>>
FilesMove ==
  /\ doing \in Files
  /\ FilesNext
  /\ \A p \in Procs :
       \/ file'[p] \in {doing, Nothing}
       \/ doing = "feedback.json" /\ file'[p] = "content"
  /\ UNCHANGED <<network, release, panel, growth, texts>>

GrowthMove ==
  /\ \/ doing = "experiment" /\ ExperimentNext
     \/ doing = "replies" /\ RepliesNext
     \/ doing = "ledger" /\ Spend
  /\ UNCHANGED <<network, release, panel, filesVars, texts>>

TextsMove == doing = "texts" /\ DraftsNext /\ UNCHANGED <<network, release, panel, filesVars, growth>>

Next ==
  /\ UNCHANGED doing
  /\ CallsMove \/ ReleaseMove \/ PanelMove \/ FilesMove \/ GrowthMove \/ TextsMove

Spec == Init /\ [][Next]_all /\ CallsFairness

-----------------------------------------------------------------------------
(* The operator's views of one state, in the panel and of the budget.      *)
ViewsAgree == PanelViewsAgree /\ BudgetViewsAgree

(* What is done about ideas and comments follows from what was measured.   *)
FollowsTheNumbers == DecisionsFollowEvidence /\ RepliesInOrder
=============================================================================
