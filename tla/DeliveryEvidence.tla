--------------------------- MODULE DeliveryEvidence ---------------------------
(***************************************************************************)
(* What decides whether a proposal may go forward: the local gates, the    *)
(* web check and the jobs of a CI run become evidence, evidence becomes a  *)
(* plan, and only an exact confirmation makes the plan one to execute.     *)
(* (core/src/delivery-evidence.ts and the release report of               *)
(* core/src/production-automation.ts.)                                     *)
(*                                                                         *)
(* Every function of those files is pure and is an operator here; the      *)
(* steps are those of the release they are called about: gates are run     *)
(* again, the web is looked at, a CI run ends, a delivery is entered into  *)
(* the history.  The panels of `ima web' and `ima production' feed them a  *)
(* snapshot in which every gate has passed.                                *)
(***************************************************************************)
EXTENDS Integers, Sequences, FiniteSets

CONSTANTS
  LocalGates,   \* the names of the npm scripts that must pass
  Jobs,         \* the jobs of a CI run
  Proposals,    \* the identifiers of proposals
  MaxHistory    \* bound: rows of the delivery history

ASSUME DeliveryAssumption ==
  MaxHistory \in Nat /\ IsFiniteSet(LocalGates) /\ IsFiniteSet(Jobs)

VARIABLES
  gates,    \* the last outcome of each local gate
  web,      \* what the look at the local web showed
  ciRun,    \* the conclusion of each job; <<>> before the first run
  history   \* the rows of the delivery history

release == <<gates, web, ciRun, history>>

(* down: not HTTP 200; empty: 200, and no API keys in the page.            *)
WebChecks == {"absent", "verified", "down", "empty"}

Conclusions == {"success", "failure", "cancelled", "skipped"}

(* A CI gate is named provider/job; the local ones are of no provider.     *)
GateNames == ({"local"} \X LocalGates) \cup ({"github-actions"} \X Jobs)

(* Of the evidence in a row of the history, what is read again later.      *)
Rows == [commit : 0 .. MaxHistory, failed : SUBSET GateNames, ok : BOOLEAN]

DeliveryTypeOK ==
  /\ gates \in [LocalGates -> BOOLEAN]
  /\ web \in WebChecks
  /\ ciRun \in {<<>>} \cup [Jobs -> Conclusions]
  /\ history \in Seq(Rows) /\ Len(history) <= MaxHistory

-----------------------------------------------------------------------------
(* Evidence                                                                *)

failedGates(gs) == {g.name : g \in {h \in gs : ~ h.ok}}

verified(w) == w = "verified"

buildAcceptanceEvidence(commit, gs, w) ==
  [commit |-> commit, gates |-> gs, web |-> w, failed |-> failedGates(gs),
   ok |-> failedGates(gs) = {} /\ (w # "absent" => verified(w))]

(* mutant: a job that was cancelled has not failed.                        *)
parseCiRunSummary_cancelledToo(run) ==
  {[name |-> <<"github-actions", j>>, ok |-> run[j] # "failure"] : j \in DOMAIN run}

parseCiRunSummary(run) ==
  {[name |-> <<"github-actions", j>>, ok |-> run[j] \in {"success", "skipped"}] : j \in DOMAIN run}

ingestCiEvidence(local, ci) ==
  buildAcceptanceEvidence(local.commit, local.gates \cup ci, local.web)

(* The gates that failed, each with its command and a hint.                *)
buildFailureChecklist(gs) == failedGates(gs)

(* release:local, which knows the local gates only.                        *)
canDeploy(gs) == failedGates(gs) = {}

-----------------------------------------------------------------------------
(* Plans                                                                   *)

DeliveredPath == <<"in_test_acceptance", "accepted", "deployed", "delivered">>

buildSafeForwardPlan(e) ==
  IF e.ok THEN [canAdvance |-> TRUE, nextStatuses |-> DeliveredPath]
          ELSE [canAdvance |-> FALSE, nextStatuses |-> <<"test_failed">>]

(* What an operator may type: nothing, or EXECUTE and a proposal.          *)
Confirmations == {<<>>} \cup ({"EXECUTE"} \X Proposals)

buildSafeForwardCommandPlan(proposal, plan, confirmation) ==
  [executable |-> plan.canAdvance /\ confirmation = <<"EXECUTE", proposal>>,
   commands   |-> [i \in 1 .. Len(plan.nextStatuses) |-> <<proposal, plan.nextStatuses[i]>>]]

buildSafeForwardExecutionPlan(proposal, plan, confirmation) ==
  LET commandPlan == buildSafeForwardCommandPlan(proposal, plan, confirmation)
  IN  [executable |-> commandPlan.executable,
       steps |-> [i \in 1 .. Len(plan.nextStatuses) |->
                    [status |-> plan.nextStatuses[i], command |-> commandPlan.commands[i],
                     willExecute |-> commandPlan.executable]]]

(* The button the web page offers first.                                   *)
primaryAction(plan) == IF plan.canAdvance THEN "copy-mcp-commands" ELSE "copy-runbook"

buildReleaseOpsDashboard(e, plan, ci) ==
  [status |-> IF e.ok /\ failedGates(ci) = {} THEN "ready" ELSE "blocked",
   failedQueue |-> buildFailureChecklist(e.gates),
   primaryActionId |-> primaryAction(plan)]

-----------------------------------------------------------------------------
(* The history of deliveries                                               *)

Floor(n) == IF n < 0 THEN 0 ELSE n

(* items.slice(n)                                                          *)
slice(items, n) == SubSeq(items, n + 1, Len(items))

FailedTimes(items, g) == Cardinality({i \in DOMAIN items : g \in items[i].failed})

lastDeliverableCommit(items) ==
  LET good == {i \in DOMAIN items : items[i].ok}
  IN  IF good = {} THEN -1
      ELSE items[CHOOSE i \in good : \A j \in good : j <= i].commit

buildDeliveryHistorySnapshot(items, limit) ==
  [total |-> Len(items),
   recent |-> slice(items, Floor(Len(items) - limit)),
   lastDeliverableCommit |-> lastDeliverableCommit(items),
   failedCounts |-> [g \in GateNames |-> FailedTimes(items, g)]]

(* mutant: the row at the split goes to neither side.                      *)
compactDeliveryHistoryLedger_split(items, keepLatest) ==
  LET splitAt == Floor(Len(items) - Floor(keepLatest))
      archive == SubSeq(items, 1, splitAt - 1)
  IN  [total |-> Len(items), kept |-> slice(items, splitAt),
       archived |-> buildDeliveryHistorySnapshot(archive, Len(archive))]

compactDeliveryHistoryLedger(items, keepLatest) ==
  LET splitAt == Floor(Len(items) - Floor(keepLatest))
      archive == SubSeq(items, 1, splitAt)
  IN  [total |-> Len(items), kept |-> slice(items, splitAt),
       archived |-> buildDeliveryHistorySnapshot(archive, Len(archive))]

-----------------------------------------------------------------------------
(* The release                                                             *)

localEvidence ==
  buildAcceptanceEvidence(Len(history), {[name |-> <<"local", g>>, ok |-> gates[g]] : g \in LocalGates}, web)

evidence == ingestCiEvidence(localEvidence, parseCiRunSummary(ciRun))

ReleaseInit ==
  /\ gates = [g \in LocalGates |-> FALSE]
  /\ web = "absent"
  /\ ciRun = <<>>
  /\ history = <<>>

RunGate(g) ==
  /\ \E ok \in BOOLEAN : gates' = [gates EXCEPT ![g] = ok]
  /\ UNCHANGED <<web, ciRun, history>>

LookAtWeb ==
  /\ web' \in WebChecks
  /\ UNCHANGED <<gates, ciRun, history>>

CiRunEnds ==
  /\ ciRun' \in [Jobs -> Conclusions]
  /\ UNCHANGED <<gates, web, history>>

(* The line of this delivery is appended to what the file holds.           *)
EnterHistory ==
  /\ Len(history) < MaxHistory
  /\ history' = Append(history, [commit |-> evidence.commit, failed |-> evidence.failed,
                                 ok |-> evidence.ok])
  /\ UNCHANGED <<gates, web, ciRun>>

ReleaseNext == (\E g \in LocalGates : RunGate(g)) \/ LookAtWeb \/ CiRunEnds \/ EnterHistory

-----------------------------------------------------------------------------
(* Properties                                                              *)

(* A plan is executed only while every local gate, the web and every job   *)
(* of the CI pass, for the proposal that was confirmed and along the whole *)
(* path; and the plan, the dashboard, the checklist, the first button and  *)
(* the release report never tell two stories about it.                     *)
ForwardOnlyWhenAllPass ==
  LET plan == buildSafeForwardPlan(evidence)
      board == buildReleaseOpsDashboard(evidence, plan, parseCiRunSummary(ciRun))
  IN  /\ plan.canAdvance <=> board.status = "ready"
      /\ board.primaryActionId = "copy-mcp-commands" <=> board.status = "ready"
      /\ board.status = "ready" => board.failedQueue = {} /\ canDeploy(localEvidence.gates)
      /\ board.status = "blocked" => board.failedQueue # {} \/ web \in {"down", "empty"}
      /\ \A p \in Proposals, c \in Confirmations :
           LET forward == buildSafeForwardExecutionPlan(p, plan, c)
           IN  /\ forward.executable =>
                    /\ \A g \in LocalGates : gates[g]
                    /\ \A j \in DOMAIN ciRun : ciRun[j] \notin {"failure", "cancelled"}
                    /\ web \in {"absent", "verified"}
                    /\ c = <<"EXECUTE", p>>
                    /\ \A i \in 1 .. 4 : forward.steps[i].command = <<p, DeliveredPath[i]>>
               /\ \A i \in DOMAIN forward.steps : forward.steps[i].willExecute <=> forward.executable
               /\ "delivered" \in {forward.steps[i].status : i \in DOMAIN forward.steps}
                    <=> board.status = "ready"

(* Compacting the history, however many rows are to be kept, loses no row, *)
(* no failure and not the last commit that could be delivered.             *)
HistoryKept ==
  \A keep \in -1 .. MaxHistory + 1 :
    LET c == compactDeliveryHistoryLedger(history, keep)
        whole == buildDeliveryHistorySnapshot(history, 5)
        rest == buildDeliveryHistorySnapshot(c.kept, 5)
    IN  /\ c.total = c.archived.total + Len(c.kept)
        /\ Len(c.kept) <= Floor(keep)
        /\ c.archived.recent \o c.kept = history
        /\ \A g \in GateNames :
             whole.failedCounts[g] = c.archived.failedCounts[g] + rest.failedCounts[g]
        /\ whole.lastDeliverableCommit =
             IF rest.lastDeliverableCommit # -1 THEN rest.lastDeliverableCommit
             ELSE c.archived.lastDeliverableCommit
=============================================================================
