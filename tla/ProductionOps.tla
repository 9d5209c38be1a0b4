---------------------------- MODULE ProductionOps ----------------------------
(***************************************************************************)
(* The operator's panel of `ima web' and `ima production'                  *)
(* (core/src/production-ops.ts, the credential probe and safety chain of   *)
(* core/src/production-automation.ts, apiProduction of                     *)
(* cli/src/web-server.ts and buildDeliveryOpsPayload of cli/src/index.ts): *)
(* the same credentials, approvals and runs shown by a dozen views, each   *)
(* with a rule of its own for what needs attention, and `ima safe-execute' *)
(* that turns an approval into a command to execute.                       *)
(*                                                                         *)
(* The views are pure and are computed anew for every request.  What       *)
(* changes between two requests is the environment, the outcome of the     *)
(* checks, the actions that are proposed, and the release.                 *)
(***************************************************************************)
EXTENDS DeliveryEvidence

CONSTANTS
  Connectors,   \* the platforms of the panel
  Actions       \* what may be proposed: records [id, risk]; ids sort as numbers

Risks == {"high", "medium", "low"}

ASSUME ProductionAssumption ==
  /\ IsFiniteSet(Connectors) /\ IsFiniteSet(Actions)
  /\ Actions \subseteq [id : Nat, risk : Risks]

VARIABLES
  tokens,     \* IMA_<PLATFORM>_TOKEN: "none", "blank" or "set"
  checks,     \* of each connector: health, dry run, real posts enabled
  actions,    \* the actions proposed at present, each identifier once
  artifacts,  \* the CI artifacts found: a subset of {"latest", "previous"}
  conclusion  \* of the CI run that is ingested: "failure" is any but success

panel == <<tokens, checks, actions, artifacts, conclusion>>

PanelTypeOK ==
  /\ tokens \in [Connectors -> {"none", "blank", "set"}]
  /\ checks \in [Connectors -> [healthOk : BOOLEAN, dryRunOk : BOOLEAN, realPostEnabled : BOOLEAN]]
  /\ actions \subseteq Actions
  /\ \A a, b \in actions : a.id = b.id => a = b
  /\ artifacts \subseteq {"latest", "previous"}
  /\ conclusion \in {"success", "failure"}

-----------------------------------------------------------------------------
(* Credentials and connectors                                              *)

(* A variable that holds blanks counts as present ...                      *)
credentialPresent(p) == tokens[p] # "none"

(* ... except for the probe, which trims it.                               *)
createCredentialProbe(p) == tokens[p] = "set"

(* auth probe, sandbox post, verify, cleanup: each only after the one      *)
(* before; the stub adapter fails at the first or at a blank body.         *)
runChannelAdapterSafetyChain(p, blankBody) ==
  LET auth == credentialPresent(p)
  IN  [ok |-> auth /\ ~ blankBody, steps |-> IF auth THEN 4 ELSE 1]

connectorStatus(p) ==
  CASE ~ credentialPresent(p)  -> "missing_credential"
    [] credentialPresent(p) /\ ~ checks[p].healthOk -> "health_failed"
    [] credentialPresent(p) /\ checks[p].healthOk /\ ~ checks[p].dryRunOk -> "dry_run_failed"
    [] OTHER -> IF checks[p].realPostEnabled THEN "ready" ELSE "approval_required"

blocked == {p \in Connectors : connectorStatus(p) # "ready"}

(* days: until the credential expires; broad: a scope names admin or *.    *)
credentialStatus(present, days, broad) ==
  CASE ~ present -> "missing"
    [] present /\ broad -> "scope_review"
    [] present /\ ~ broad /\ days <= 7 -> "rotate_soon"
    [] OTHER -> "ok"

(* The panel knows neither: it puts 14 days and the scope of a post.       *)
buildCredentialRotationPlan ==
  [p \in Connectors |-> credentialStatus(credentialPresent(p), 14, FALSE)]

rotationRequired == \E p \in Connectors : buildCredentialRotationPlan[p] # "ok"

credentialSeverity(status) ==
  CASE status = "missing" -> "critical"
    [] status \in {"rotate_soon", "scope_review"} -> "warning"
    [] OTHER -> "ok"

(* The cards of buildCredentialHealthCenter.                               *)
cards == [p \in Connectors |-> credentialSeverity(buildCredentialRotationPlan[p])]

healthOk == \A p \in Connectors : cards[p] = "ok"

missing  == {p \in Connectors : cards[p] = "critical"}
expiring == {p \in Connectors : cards[p] = "warning"}

(* buildCredentialSetupWizardV2: the points of its list that are done.     *)
wizardDone ==
  (IF missing = {} THEN {"collect-token", "write-env"} ELSE {})
    \cup (IF healthOk THEN {"probe-health"} ELSE {})
    \cup (IF expiring = {} THEN {"scope-review"} ELSE {})

-----------------------------------------------------------------------------
(* Approvals                                                               *)

RISK_ORDER == [high |-> 0, medium |-> 1, low |-> 2]

(* mutant: the queue is sorted by the identifiers alone.                   *)
before_byId(a, b) == a.id < b.id

before(a, b) ==
  \/ RISK_ORDER[a.risk] < RISK_ORDER[b.risk]
  \/ a.risk = b.risk /\ a.id < b.id

buildApprovalQueue ==
  [i \in 1 .. Cardinality(actions) |->
     LET item == CHOOSE a \in actions : Cardinality({b \in actions : before(b, a)}) = i - 1
     IN  [id |-> item.id, risk |-> item.risk,
          status |-> IF item.risk = "low" THEN "informational" ELSE "pending_approval"]]

requiresOperator ==
  LET items == buildApprovalQueue
  IN  \E i \in DOMAIN items : items[i].status = "pending_approval"

(* buildPersistentApprovalStore: its rows, in the order of the queue.  No  *)
(* function of the code takes a row from pending to approved.              *)
approvalRows ==
  LET items == buildApprovalQueue
  IN  [i \in DOMAIN items |->
         [id |-> items[i].id, risk |-> items[i].risk, token |-> <<"APPROVED", items[i].id>>,
          status |-> IF items[i].status = "informational" THEN "approved" ELSE "pending"]]

pending ==
  LET rows == approvalRows IN {i \in DOMAIN rows : rows[i].status = "pending"}

First(indices) == CHOOSE i \in indices : \A j \in indices : i <= j

Typed == {<<>>} \cup {<<word, a.id>> : word \in {"APPROVED", "APPROVE"}, a \in Actions}
                \cup {<<"EXECUTE", p>> : p \in Proposals}

(* mutant: the token is compared, and the status of the row is not.        *)
safeExecutable_unapproved(rows, id, typed) ==
  \E i \in DOMAIN rows : rows[i].id = id /\ typed = rows[i].token

(* buildSafeExecutePlan: may this action be executed?                      *)
safeExecutable(rows, id, typed) ==
  LET named == {i \in DOMAIN rows : rows[i].id = id}
  IN  /\ named # {}
      /\ rows[First(named)].status = "approved"
      /\ typed = rows[First(named)].token

(* buildApprovalDiffPreview shows the first row that is pending, or the    *)
(* first there is; its risk is what the workbench looks at.                *)
previewRisk ==
  IF pending # {} THEN approvalRows[First(pending)].risk
  ELSE IF approvalRows # <<>> THEN approvalRows[1].risk ELSE "low"

-----------------------------------------------------------------------------
(* Runs, CI and the events of the panel                                    *)

(* buildPersistentReleaseOpsLedger over the runs of the history.           *)
runLedger(keepLatest) ==
  LET splitAt == Floor(Len(history) - Floor(keepLatest))
      archive == SubSeq(history, 1, splitAt)
  IN  [hot |-> slice(history, splitAt),
       archive |-> [totalRuns |-> Len(archive),
                    failures |-> Cardinality({i \in DOMAIN archive : ~ archive[i].ok})]]

failedRuns == Cardinality({i \in DOMAIN history : ~ history[i].ok})

buildCiArtifactIngestExecution == conclusion = "success" /\ "latest" \in artifacts

(* buildReleaseOpsEventTimeline: the events of the panel and their ok.     *)
timeline ==
  [delivery |-> evidence.ok, approval |-> ~ requiresOperator, credential |-> healthOk,
   ci |-> buildCiArtifactIngestExecution]

failures == {k \in DOMAIN timeline : ~ timeline[k]}

-----------------------------------------------------------------------------
(* Readiness and the views that gather the others                          *)

nextActions ==
  (IF blocked # {} THEN {"Resolve blocked platform connectors"} ELSE {})
    \cup (IF requiresOperator THEN {"Review operator approval queue"} ELSE {})
    \cup (IF rotationRequired THEN {"Rotate or scope-check credentials"} ELSE {})

buildProductionExecutionReadiness ==
  IF blocked = {} /\ ~ requiresOperator /\ ~ rotationRequired THEN "ready" ELSE "blocked"

(* Unread items: one for each bad credential, one for all the approvals,   *)
(* one for each event that failed.                                         *)
buildWebNotificationCenter ==
  {[kind |-> "credential", severity |-> cards[p], of |-> p] :
       p \in {q \in Connectors : cards[q] # "ok"}}
    \cup (IF pending = {} THEN {}
          ELSE LET rows == approvalRows
               risky == \E i \in pending : rows[i].risk = "high"
           IN  {[kind |-> "approval", of |-> "rows",
                 severity |-> IF risky THEN "critical" ELSE "warning"]})
    \cup {[kind |-> "timeline", severity |-> "warning", of |-> k] : k \in failures}

Of(notes, kind) == {n \in notes : n.kind = kind}

(* buildProductionExecutionSlaPack: the metrics that ask for attention.    *)
slaAttention ==
  (IF pending # {} THEN {"pending-approval-age"} ELSE {})
    \cup (IF missing \cup expiring # {} THEN {"credential-expiry"} ELSE {})
    \cup (IF artifacts = {} THEN {"ci-artifacts-found"} ELSE {})
    \cup (IF failedRuns > 0 THEN {"failed-runs"} ELSE {})

(* What the pack tells the operator to type after --approval.              *)
slaToken(proposal) == <<"EXECUTE", proposal>>

(* buildSlaAlertCenter: an alert for each, or one that says all is clear.  *)
alerts == IF slaAttention = {} THEN {"all-clear"} ELSE slaAttention

(* buildWebOpsWorkbenchPack: the directions marked `attention'.            *)
workbenchAttention ==
  (IF previewRisk = "high" THEN {"approval-diff-preview"} ELSE {})
    \cup (IF missing # {} \/ expiring # {} THEN {"credential-setup-wizard-v2"} ELSE {})
    \cup (IF slaAttention # {} THEN {"sla-alert-center"} ELSE {})
    \cup (IF artifacts # {"latest", "previous"} THEN {"ci-artifact-browser"} ELSE {})
    \cup (IF approvalRows = <<>> THEN {"safe-execute-ledger-persistence"} ELSE {})

-----------------------------------------------------------------------------
(* Between two requests                                                    *)

PanelInit ==
  /\ tokens = [p \in Connectors |-> "none"]
  /\ checks = [p \in Connectors |-> [healthOk |-> FALSE, dryRunOk |-> TRUE, realPostEnabled |-> FALSE]]
  /\ actions = {}
  /\ artifacts = {}
  /\ conclusion = "success"

SetToken(p) ==
  /\ \E v \in {"none", "blank", "set"} : tokens' = [tokens EXCEPT ![p] = v]
  /\ UNCHANGED <<checks, actions, artifacts, conclusion>>

(* The web page's health is that of the safety chain; other callers check  *)
(* for themselves.                                                         *)
Check(p) ==
  /\ \E dry, real \in BOOLEAN, health \in {runChannelAdapterSafetyChain(p, FALSE).ok, FALSE} :
       checks' = [checks EXCEPT ![p] =
         [healthOk |-> health, dryRunOk |-> dry, realPostEnabled |-> real]]
  /\ UNCHANGED <<tokens, actions, artifacts, conclusion>>

Propose(a) ==
  /\ \A b \in actions : b.id # a.id
  /\ actions' = actions \cup {a}
  /\ UNCHANGED <<tokens, checks, artifacts, conclusion>>

Withdraw(a) ==
  /\ a \in actions
  /\ actions' = actions \ {a}
  /\ UNCHANGED <<tokens, checks, artifacts, conclusion>>

IngestCi ==
  /\ artifacts' \in SUBSET {"latest", "previous"}
  /\ conclusion' \in {"success", "failure"}
  /\ UNCHANGED <<tokens, checks, actions>>

PanelNext ==
  \/ \E p \in Connectors : SetToken(p) \/ Check(p)
  \/ \E a \in Actions : Propose(a) \/ Withdraw(a)
  \/ IngestCi

-----------------------------------------------------------------------------
(* Properties                                                              *)

(* Whoever looks at a credential sees the same: the rotation plan, the     *)
(* health center, the notifications, the SLA metrics and alerts, both      *)
(* wizards, the workbench and the timeline.                                *)
CredentialViewsAgree ==
  LET required == rotationRequired
      notes == Of(buildWebNotificationCenter, "credential")
  IN  /\ required <=> ~ healthOk
      /\ required <=> notes # {}
      /\ required <=> "credential-expiry" \in alerts
      /\ required <=> "credential-setup-wizard-v2" \in workbenchAttention
      /\ required <=> "credential" \in failures
      /\ required <=> {"collect-token", "probe-health", "scope-review"} \ wizardDone # {}
      /\ {n.of : n \in {m \in notes : m.severity = "critical"}} =
           {p \in Connectors : tokens[p] = "none"}

(* And so for the approvals: what is pending is counted by all of them,    *)
(* and one action of high risk is shown as such, whatever stands beside it.*)
ApprovalViewsAgree ==
  LET required == requiresOperator
      notes == Of(buildWebNotificationCenter, "approval")
  IN  /\ required <=> \E a \in actions : a.risk # "low"
      /\ required <=> notes # {}
      /\ required <=> "pending-approval-age" \in alerts
      /\ required <=> "approval" \in failures
      /\ "approval-diff-preview" \in workbenchAttention
           <=> \E n \in notes : n.severity = "critical"

(* No word an operator may type makes an action executable that needs an   *)
(* approval.  (Nothing in the code grants one; and the token the SLA pack  *)
(* tells the operator to type is never the one that is asked for.)         *)
ExecutesOnlyHarmless ==
  LET rows == approvalRows
  IN  /\ \A id \in {a.id : a \in Actions}, typed \in Typed :
           safeExecutable(rows, id, typed) =>
             /\ [id |-> id, risk |-> "low"] \in actions
             /\ typed = <<"APPROVED", id>>
      /\ \A p \in Proposals :
           pending # {} => ~ safeExecutable(rows, rows[First(pending)].id, slaToken(p))

(* Ready means that no view has anything to say about a connector, a       *)
(* credential or an approval, and that each chain would run to its end.    *)
ReadyMeansReady ==
  /\ buildProductionExecutionReadiness = "ready" <=> nextActions = {}
  /\ buildProductionExecutionReadiness = "ready" =>
       /\ Of(buildWebNotificationCenter, "credential") = {}
       /\ Of(buildWebNotificationCenter, "approval") = {}
       /\ alerts \subseteq {"all-clear", "ci-artifacts-found", "failed-runs"}
       /\ \A p \in Connectors : runChannelAdapterSafetyChain(p, FALSE).steps = 4

(* However many of them are kept, the archive of the runs and the hot rows *)
(* together are all the runs, and as many of them failed as the metric and *)
(* the timeline of the panel say.                                          *)
RunsKept ==
  LET failed == failedRuns
  IN  /\ failed > 0 <=> "failed-runs" \in alerts
      /\ \A keep \in -1 .. MaxHistory + 1 :
           LET l == runLedger(keep)
               hotFailures == Cardinality({i \in DOMAIN l.hot : ~ l.hot[i].ok})
           IN  /\ l.archive.totalRuns + Len(l.hot) = Len(history)
               /\ l.archive.failures + hotFailures = failed

(* All of this together: the panel tells one story, however it is asked.   *)
PanelViewsAgree ==
  CredentialViewsAgree /\ ApprovalViewsAgree /\ ReadyMeansReady /\ RunsKept
=============================================================================
