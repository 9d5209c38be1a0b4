-------------------------------- MODULE Growth --------------------------------
(***************************************************************************)
(* What ima makes of its numbers: the engagement of the posts of an A/B    *)
(* test becomes a verdict, and verdicts become the weights of ideas        *)
(* (core/src/ab-test.ts, roadmap.ts, production-automation.ts); comments   *)
(* become a queue of replies that `ima reply' works; and the token ledger  *)
(* decides which model provider may be used.                               *)
(*                                                                         *)
(* The functions of those files are pure and are operators here.  `ima     *)
(* feedback', `ima ab report', `ima reply' and `ima production' call some  *)
(* of them; the others are called by nothing yet, and their steps are those*)
(* of an operator who applies them one after the other.                    *)
(***************************************************************************)
EXTENDS Sorting, Sequences

CONSTANTS
  VariantCount, PostCount,  \* of the experiment; the variants alternate
  Metrics,      \* bound: the numbers a fetch may bring, as records
                \* [likes, comments, shares, views, heat]: the heat is the
                \* logarithm deriveScore makes of them, in hundredths
  Ideas,        \* records [id, variant, score]: variant 0 has no tag, and
                \* the score is in thousandths
  MinSampleSize,\* of a variant, before evaluateAbSignificance looks at it
  MaxFetches,   \* bound: runs of `ima feedback'
  MaxDecisions, \* bound: verdicts that are applied
  Measured,     \* bound: what replies are drafted for: sequences of
                \* [post, likes, comments], a comment being whether it asks
                \* for the source; with nine comments at most, for their
                \* numbers are compared as texts
  DailyBudget, MonthlyBudget,
  MaxSpent      \* bound: entries of the token ledger

Posts    == 1 .. PostCount
Variants == 1 .. VariantCount
NoWinner == 0

ASSUME GrowthAssumption ==
  /\ VariantCount \in Nat \ {0} /\ PostCount \in Nat /\ VariantCount <= PostCount
  /\ Metrics \subseteq [likes : Nat, comments : Nat, shares : Nat, views : Nat, heat : Nat]
  /\ Ideas \subseteq [id : Nat, variant : 0 .. VariantCount, score : 0 .. 1000]
  /\ MinSampleSize \in Nat \ {0} /\ MaxFetches \in Nat /\ MaxDecisions \in Nat
  /\ Measured \subseteq Seq([post : Nat, likes : Nat, comments : Seq(BOOLEAN)])
  /\ \A records \in Measured : \A r \in DOMAIN records : Len(records[r].comments) <= 9
  /\ DailyBudget \in Nat /\ MonthlyBudget \in Nat /\ MaxSpent \in Nat

VARIABLES
  measured,   \* of each post: records fetched; their scores, views and heat,
              \* added
  fetches,    \* runs of `ima feedback' so far
  weights,    \* the weights of variants, in hundredths; others weigh 1
  decisions,  \* verdicts applied so far
  replies,    \* the queue of replies
  sent,       \* of each reply by its identifier: how often it was really sent
  ledger      \* the token ledger: the day and the cost of each call

experiment == <<measured, fetches, weights, decisions>>
growth     == <<experiment, replies, sent, ledger>>

GrowthInit ==
  /\ measured = [p \in Posts |-> [count |-> 0, score |-> 0, views |-> 0, heat |-> 0]]
  /\ fetches = 0
  /\ weights = <<>> /\ decisions = 0
  /\ replies = <<>> /\ sent = <<>>
  /\ ledger = <<>>

-----------------------------------------------------------------------------
(* The experiment                                                          *)

assignVariantTags == [p \in Posts |-> ((p - 1) % VariantCount) + 1]

(* In twentieths, for a view counts as one.                                *)
scoreForMetric(m) == 60 * m.comments + 40 * m.shares + 20 * m.likes + m.views

(* Every run appends a record to each post it can fetch: a post that was   *)
(* fetched three times counts as three samples.                            *)
FetchAll ==
  /\ fetches < MaxFetches
  /\ fetches' = fetches + 1
  /\ \E reached \in SUBSET Posts : \E m \in [reached -> Metrics] :
       measured' = [p \in Posts |->
         IF p \notin reached THEN measured[p]
         ELSE [count |-> measured[p].count + 1,
               score |-> measured[p].score + scoreForMetric(m[p]),
               views |-> measured[p].views + m[p].views,
               heat |-> measured[p].heat + m[p].heat]]
  /\ UNCHANGED <<weights, decisions, replies, sent, ledger>>

aggregateByVariant ==
  [v \in Variants |->
     LET own == {p \in Posts : assignVariantTags[p] = v}
     IN  [count |-> SumFunctionOnSet([p \in Posts |-> measured[p].count], own),
          score |-> SumFunctionOnSet([p \in Posts |-> measured[p].score], own),
          views |-> SumFunctionOnSet([p \in Posts |-> measured[p].views], own)]]

(* The two orders: by the score of all samples, and by that of one.  Both  *)
(* sorts are stable, the second over what the first has sorted.            *)
moreScore(s, v, w) == s[v].score > s[w].score \/ (s[v].score = s[w].score /\ v < w)
moreRate(s, v, w) ==
  LET x == s[v].score * s[w].count
      y == s[w].score * s[v].count
  IN  x > y \/ (x = y /\ moreScore(s, v, w))

byScore(s) == {p \in Variants \X Variants : moreScore(s, p[1], p[2])}
byRate(s)  == {p \in Variants \X Variants : moreRate(s, p[1], p[2])}

sampled(s, least) == {v \in Variants : s[v].count >= least}

atLeast(n, least) == IF n < least THEN least ELSE n

(* A lead of less than a twentieth of the top score is a tie; nobody who   *)
(* asks for no samples is told of ties.                                    *)
selectWinner(s, minSampleSize) ==
  LET sorted == Sorted(sampled(s, minSampleSize), byScore(s))
      tied == /\ minSampleSize > 0 /\ Len(sorted) > 1
              /\ 20 * (s[sorted[1]].score - s[sorted[2]].score) < atLeast(s[sorted[1]].score, 20)
  IN  IF sorted = <<>> \/ tied THEN NoWinner ELSE sorted[1]

NoVerdict == [winner |-> NoWinner, num |-> 0, den |-> 1]

(* Of two variants the first leads when the root of the views, times 0.8,  *)
(* is no more than the lead in scores, and one of its samples is worth     *)
(* more; num / den is by how much, in hundredths.                          *)
lead(s, top, next) ==
  LET ahead == s[top].score - s[next].score
  IN  [winner |-> top,
       confident |-> ahead * ahead >= 256 * atLeast(s[top].views + s[next].views, 1),
       num |-> 100 * (s[top].score * s[next].count - s[next].score * s[top].count),
       den |-> s[top].count * atLeast(s[next].score, 20 * s[next].count)]

evaluateAbSignificance(s) ==
  LET sorted == Sorted(sampled(s, MinSampleSize), byRate(s))
      first  == lead(s, sorted[1], sorted[2])
  IN  IF Len(sorted) >= 2 /\ first.confident /\ first.num > 0
      THEN [winner |-> first.winner, num |-> first.num, den |-> first.den] ELSE NoVerdict

weightOf(ws, v) == IF v \in DOMAIN ws THEN ws[v] ELSE 100

(* Math.round of num / den.                                                *)
rounded(num, den) == (2 * num + den) \div (2 * den)

(* mutant: a variant that has no weight yet starts from nothing.           *)
applyAbWinnerDecision_fromZero(verdict, ws) ==
  IF verdict.winner = NoWinner THEN ws
  ELSE LET old == IF verdict.winner \in DOMAIN ws THEN ws[verdict.winner] ELSE 0
       IN  [v \in DOMAIN ws \cup {verdict.winner} |-> IF v = verdict.winner THEN old + 10 ELSE ws[v]]

applyAbWinnerDecision(verdict, ws) ==
  IF verdict.winner = NoWinner THEN ws
  ELSE LET gain == atLeast(rounded(verdict.num, verdict.den), 10)
       IN  [v \in DOMAIN ws \cup {verdict.winner} |->
              IF v = verdict.winner THEN weightOf(ws, v) + gain ELSE ws[v]]

Decide ==
  /\ decisions < MaxDecisions
  /\ decisions' = decisions + 1
  /\ weights' = applyAbWinnerDecision(evaluateAbSignificance(aggregateByVariant), weights)
  /\ UNCHANGED <<measured, fetches, replies, sent, ledger>>

(* The score of an idea under the weights, at most 1; the idea that another*)
(* is listed before.                                                       *)
applyVariantWeightsToIdeas(idea, ws) ==
  LET score == rounded(idea.score * weightOf(ws, idea.variant), 100)
  IN  IF score > 1000 THEN 1000 ELSE score

listedBefore(i, j, ws) ==
  LET x == applyVariantWeightsToIdeas(i, ws)
      y == applyVariantWeightsToIdeas(j, ws)
  IN  x > y \/ (x = y /\ i.id < j.id)

-----------------------------------------------------------------------------
(* The ranking of ideas by the engagement of what was made of them before. *)
(* (IdeaAgent hands over the feedback, but a callback that finds no idea   *)
(* for any record, for the content has none yet: its ranking is that of an *)
(* empty history.)                                                         *)

(* A post's records count for the idea with its number.                    *)
performanceByAngle(idea) ==
  IF idea.id \in Posts THEN [count |-> measured[idea.id].count, heat |-> measured[idea.id].heat]
  ELSE [count |-> 0, heat |-> 0]

(* The score with what the history adds to it, as a fraction of 10^-7: an  *)
(* average heat of ten, or more, adds three tenths.                        *)
adjusted(idea) ==
  LET perf == performanceByAngle(idea)
      heat == IF perf.heat > 1000 * perf.count THEN 1000 * perf.count ELSE perf.heat
      num  == idea.score * (10000 * perf.count + 3 * heat)
  IN  CASE perf.count = 0                           -> [num |-> 10000 * idea.score, den |-> 1]
        [] perf.count > 0 /\ num <= 10000000 * perf.count -> [num |-> num, den |-> perf.count]
        [] OTHER                                    -> [num |-> 10000000, den |-> 1]

(* The sort is stable.                                                     *)
rankedBefore(i, j) ==
  LET x == adjusted(i).num * adjusted(j).den
      y == adjusted(j).num * adjusted(i).den
  IN  x > y \/ (x = y /\ i.id < j.id)

-----------------------------------------------------------------------------
(* The replies                                                             *)

listedFirst(x, y) == x[1] < y[1] \/ (x[1] = y[1] /\ x[2] < y[2])

replyBefore(a, b) ==
  \/ a.priority > b.priority
  \/ /\ a.priority = b.priority
     /\ listedFirst(a.id, b.id)

(* One reply for each comment of each record: a post that was fetched twice*)
(* brings its comments twice, under the same identifiers.                  *)
reply(records, at) ==
  LET record == records[at[1]]
  IN  [id |-> <<record.post, at[2]>>, status |-> "queued",
       priority |-> record.likes + (IF record.comments[at[2]] THEN 10 ELSE 0)]

buildReplyQueue(records) ==
  LET places == UNION {{r} \X DOMAIN records[r].comments : r \in DOMAIN records}
      before(x, y) == \/ replyBefore(reply(records, x), reply(records, y))
                      \/ ~ replyBefore(reply(records, y), reply(records, x)) /\ listedFirst(x, y)
      sorted == Sorted(places, {p \in places \X places : before(p[1], p[2])})
  IN  [i \in DOMAIN sorted |-> reply(records, sorted[i])]

(* Where in the queue the replies are that wait, the next to be worked     *)
(* first.                                                                  *)
inLine(items, i, j) ==
  replyBefore(items[i], items[j]) \/ (~ replyBefore(items[j], items[i]) /\ i < j)

waiting(items) == {i \in DOMAIN items : items[i].status = "queued"}

queued(items) ==
  Sorted(waiting(items), {p \in waiting(items) \X waiting(items) : inLine(items, p[1], p[2])})

(* buildReplyQueueState: what would be worked next.                        *)
nextReply(items) == IF queued(items) = <<>> THEN <<>> ELSE <<items[queued(items)[1]]>>

DraftReplies ==
  /\ replies = <<>>
  /\ \E records \in Measured : replies' = buildReplyQueue(records)
  /\ sent' = [id \in {replies'[i].id : i \in DOMAIN replies'} |-> 0]
  /\ UNCHANGED <<experiment, ledger>>

(* Where the replies are that workReplyQueue takes.                        *)
selected(items, limit) ==
  {queued(items)[n] : n \in {n \in DOMAIN queued(items) : n <= limit}}

(* Every copy of a selected reply changes its status.                      *)
workReplyQueue(items, limit, sandbox) ==
  LET ids == {items[i].id : i \in selected(items, limit)}
  IN  [i \in DOMAIN items |->
         IF items[i].id \in ids
         THEN [items[i] EXCEPT !.status = IF sandbox THEN "skipped" ELSE "sent"]
         ELSE items[i]]

(* `ima reply send', and verify and cleanup, which never are for real.     *)
WorkReplies ==
  \E sub \in {"send", "verify", "cleanup"}, real \in BOOLEAN, limit \in 1 .. Len(replies) :
    LET sandbox == sub # "send" \/ ~ real
        taken == selected(replies, limit)
    IN  /\ replies' = workReplyQueue(replies, limit, sandbox)
        /\ sent' = [id \in DOMAIN sent |->
             IF sandbox THEN sent[id]
             ELSE sent[id] + Cardinality({i \in taken : replies[i].id = id})]
        /\ UNCHANGED <<experiment, ledger>>

-----------------------------------------------------------------------------
(* The budget                                                              *)

Spend ==
  /\ Len(ledger) < MaxSpent
  /\ \E day \in 1 .. 2, cost \in 0 .. DailyBudget : ledger' = Append(ledger, [day |-> day, cost |-> cost])
  /\ UNCHANGED <<experiment, replies, sent>>

costOf(entries) == SumFunctionOnSet([i \in DOMAIN ledger |-> ledger[i].cost], entries)

summarizeTokenLedger ==
  [totalCost |-> costOf(DOMAIN ledger),
   byDay |-> [day \in {ledger[i].day : i \in DOMAIN ledger} |->
                costOf({i \in DOMAIN ledger : ledger[i].day = day})]]

(* What `ima production' and the web console hand over instead.            *)
panelSummary == [totalCost |-> costOf(DOMAIN ledger), byDay |-> <<>>]

spentOn(summary, day) == IF day \in DOMAIN summary.byDay THEN summary.byDay[day] ELSE 0

applyBudgetBreaker(summary, day) ==
  CASE spentOn(summary, day) >= DailyBudget -> [action |-> "degrade", why |-> "daily"]
    [] spentOn(summary, day) < DailyBudget /\ summary.totalCost >= MonthlyBudget
         -> [action |-> "degrade", why |-> "monthly"]
    [] OTHER -> [action |-> "allow", why |-> "within"]

planLlmProviderWithBudget(summary, day) ==
  [degraded |-> spentOn(summary, day) >= DailyBudget \/ summary.totalCost >= MonthlyBudget,
   why |-> IF spentOn(summary, day) >= DailyBudget THEN "daily"
           ELSE IF summary.totalCost >= MonthlyBudget THEN "monthly" ELSE "within"]

-----------------------------------------------------------------------------

ExperimentNext == FetchAll \/ Decide
RepliesNext    == DraftReplies \/ WorkReplies

-----------------------------------------------------------------------------
(* Properties                                                              *)

GrowthTypeOK ==
  /\ fetches \in 0 .. MaxFetches /\ decisions \in 0 .. MaxDecisions
  /\ \A p \in Posts : measured[p].count \in 0 .. fetches
  /\ DOMAIN weights \subseteq Variants /\ \A v \in DOMAIN weights : weights[v] > 100
  /\ \A i \in DOMAIN replies : replies[i].status \in {"queued", "sent", "skipped"}
  /\ Len(ledger) <= MaxSpent

EvenlySampled(s) == \A v, w \in Variants : s[v].count = s[w].count

(* A history moves an idea past a better one only if it has one and the    *)
(* better one is at most three tenths better; where there is none, scores  *)
(* decide.                                                                 *)
HistoryMovesLittle ==
  \A i, j \in Ideas : rankedBefore(i, j) =>
    \/ i.score > j.score
    \/ i.score = j.score /\ i.id < j.id
    \/ performanceByAngle(i).count > 0 /\ 10 * j.score <= 13 * i.score

(* A verdict raises the weight of one variant at most; one that the report *)
(* of `ima ab report' contradicts, for any number of samples asked for,    *)
(* only if the variants were not sampled alike; and no idea of the winner  *)
(* falls behind an idea of another variant that it was listed before,      *)
(* whatever was decided earlier and although scores are rounded and capped.*)
(* Nor does the ranking go by more than the history there is.              *)
EvidenceDecides ==
  /\ measured' # measured => HistoryMovesLittle'
  /\ LET raised == {v \in Variants : weightOf(weights', v) # weightOf(weights, v)}
         s == aggregateByVariant
     IN  /\ Cardinality(raised) <= 1
         /\ \A v \in raised :
              /\ EvenlySampled(s) =>
                   \A n \in 1 .. MaxFetches * PostCount : selectWinner(s, n) \in {v, NoWinner}
              /\ \A i, j \in Ideas :
                   /\ i.variant = v /\ j.variant # v
                   /\ listedBefore(i, j, weights)
                   => listedBefore(i, j, weights')

DecisionsFollowEvidence == [][EvidenceDecides]_growth

(* Of the replies that wait, none is passed over for one of less priority, *)
(* the first that is taken is the one the panel announces, one that is done*)
(* stays done, and none is sent more often than its comment was listed.    *)
TakenInOrder ==
  LET taken == {i \in waiting(replies) : replies'[i].status # "queued"}
      left  == {i \in DOMAIN replies : replies'[i].status = "queued"}
  IN  replies # <<>> =>
        /\ \A i \in taken, j \in left :
             \E k \in taken : /\ replies[k].id = replies[i].id
                              /\ replies[k].priority >= replies[j].priority
        /\ taken # {} => nextReply(replies)[1].id \in {replies[i].id : i \in taken}
        /\ \A i \in DOMAIN replies :
             replies[i].status # "queued" => replies'[i].status = replies[i].status
        /\ \A id \in DOMAIN sent :
             sent'[id] <= Cardinality({i \in DOMAIN replies : replies[i].id = id})

RepliesInOrder == [][TakenInOrder]_growth

(* The budget breaker and the provider plan decide alike for the same      *)
(* reason; the panel, which knows no days, never degrades a provider that  *)
(* the breaker allows.                                                     *)
BudgetViewsAgree ==
  LET full == summarizeTokenLedger
  IN  \A day \in 1 .. 3 :
        LET breaker == applyBudgetBreaker(full, day)
            plan == planLlmProviderWithBudget(full, day)
        IN  /\ plan.degraded <=> breaker.action = "degrade"
            /\ plan.why = breaker.why
            /\ planLlmProviderWithBudget(panelSummary, day).degraded => plan.degraded
=============================================================================
