--------------------------- MODULE QueueLifecycle ---------------------------
(***************************************************************************)
(* What the publish queue promises for each row, without processes, files  *)
(* or time (the state machine in the header of                             *)
(* packages/core/src/publish-queue.ts, and what becomes of it):            *)
(*                                                                         *)
(*   new --> waiting --> posted                                            *)
(*              |  ^---> waiting with one more try                         *)
(*              `------> dead, after exactly MaxAttempts tries             *)
(*                                                                         *)
(* posted is final.  A dead row only waits for `ima queue prune'; a worker  *)
(* that listed it before the prune may write it back, and it is dead then  *)
(* as it was before.  A crash while the row is written loses it.           *)
(***************************************************************************)
EXTENDS Naturals

CONSTANTS Rows, MaxAttempts

VARIABLES
  stage,  \* "new", "waiting", "posted", "dead", "lost", "pruned"
  tries   \* attempts counted so far

vars == <<stage, tries>>

Init ==
  /\ stage = [r \in Rows |-> "new"]
  /\ tries = [r \in Rows |-> 0]

(* A step moves one row.                                                   *)
Become(r, s, n) ==
  /\ stage'[r] = s /\ tries'[r] = n
  /\ \A q \in Rows \ {r} : stage'[q] = stage[q] /\ tries'[q] = tries[q]

(* A row begins waiting, or as the record of a post that already went out. *)
Create(r) ==
  /\ stage[r] = "new"
  /\ \E s \in {"waiting", "posted"} : Become(r, s, 0)

(* One attempt of a row already in the queue, or the one PublishAgent made *)
(* before it created the row.                                              *)
Fail(r) ==
  /\ stage[r] \in {"new", "waiting"}
  /\ Become(r, IF tries[r] + 1 = MaxAttempts THEN "dead" ELSE "waiting", tries[r] + 1)

Succeed(r) ==
  /\ stage[r] = "waiting"
  /\ Become(r, "posted", tries[r] + 1)

Lose(r) == Become(r, "lost", 0)

Prune(r) ==
  /\ stage[r] \in {"dead", "lost"}
  /\ Become(r, "pruned", 0)

(* replaceAll has no way to know that the file was removed.                *)
Reappear(r) ==
  /\ stage[r] = "pruned"
  /\ Become(r, "dead", MaxAttempts)

Next ==
  \E r \in Rows :
    Create(r) \/ Fail(r) \/ Succeed(r) \/ Lose(r) \/ Prune(r) \/ Reappear(r)

Spec == Init /\ [][Next]_vars
=============================================================================
