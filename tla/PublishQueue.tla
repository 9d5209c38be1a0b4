---------------------------- MODULE PublishQueue ----------------------------
(***************************************************************************)
(* The rows of the durable publish queue and the pure functions on them    *)
(* (packages/core/src/publish-queue.ts).  A row is one JSON file: one      *)
(* (content, platform) pair still to be handed to a channel, or the record *)
(* of how that ended.  Content, platform and payload never change after    *)
(* creation, so the identity of the row stands for them; a timestamp is a  *)
(* natural number.                                                         *)
(***************************************************************************)
EXTENDS Integers

CONSTANTS
  MaxAttempts,   \* row.maxAttempts: 3 by default, 2 in queue-smoke.ts
  BaseDelay,     \* baseDelayMs
  MaxDelay,      \* the cap of the backoff, one hour in the code
  None           \* null

(* 3^n is a natural number for every exponent the backoff can meet; the    *)
(* provers do not know exponentiation, TLC evaluates the assumption.       *)
ASSUME QueueAssumption ==
  /\ MaxAttempts \in Nat \ {0}
  /\ BaseDelay \in Nat
  /\ MaxDelay \in Nat
  /\ None \notin Nat /\ None # "error" /\ None # "id"
  /\ \A n \in 0 .. MaxAttempts : 3^n \in Nat

Statuses == {"pending", "posting", "posted", "failed_retry", "failed_dead"}

(* The two statuses the header of publish-queue.ts calls terminal.         *)
TerminalStatuses == {"posted", "failed_dead"}

(* postId is reduced to whether the platform gave one.  postedAt and url   *)
(* are left out: nothing in the code reads them back to decide anything.   *)
RowType ==
  [status        : Statuses,
   attempts      : Nat,
   nextAttemptAt : Nat,
   lastError     : {None, "error"},
   postId        : {None, "id"}]

createQueueItem(now) ==
  [status        |-> "pending",
   attempts      |-> 0,
   nextAttemptAt |-> now,
   lastError     |-> None,
   postId        |-> None]

backoff(attempts) ==
  LET delay == BaseDelay * 3^(attempts - 1)
  IN  IF delay <= MaxDelay THEN delay ELSE MaxDelay

(* mutants: one attempt too many; a status no other function knows.        *)
recordAttemptFailure_extraTry(row, now) ==
  LET attempts == row.attempts + 1
      failed   == [row EXCEPT !.attempts = attempts, !.lastError = "error"]
  IN  IF attempts > MaxAttempts
      THEN [failed EXCEPT !.status = "failed_dead"]
      ELSE [failed EXCEPT !.status = "failed_retry",
                          !.nextAttemptAt = now + backoff(attempts)]

recordAttemptFailure_misspelt(row, now) ==
  [row EXCEPT !.attempts = @ + 1, !.lastError = "error", !.status = "failed"]

recordAttemptFailure(row, now) ==
  LET attempts == row.attempts + 1
      failed   == [row EXCEPT !.attempts = attempts, !.lastError = "error"]
  IN  IF attempts >= MaxAttempts
      THEN [failed EXCEPT !.status = "failed_dead"]
      ELSE [failed EXCEPT !.status = "failed_retry",
                          !.nextAttemptAt = now + backoff(attempts)]

(* `id' is what the channel's PostRecord carries: null when the record     *)
(* itself reports a failure.                                               *)
recordAttemptSuccess(row, id) ==
  [row EXCEPT !.attempts  = @ + 1,
              !.status    = "posted",
              !.postId    = id,
              !.lastError = None]

isTerminal(row) == row.status \in TerminalStatuses

(* mutant: posted rows are not excluded.                                   *)
isDue_postedToo(row, now) ==
  row.status # "failed_dead" /\ row.nextAttemptAt <= now

isDue(row, now) == ~ isTerminal(row) /\ row.nextAttemptAt <= now

(* selectDue sorts by nextAttemptAt and the worker takes the rows in that  *)
(* order; ties fall in directory order, which is unspecified.  `first' is  *)
(* a row the sorted sequence may start with.                               *)
isFirst(r, ids, rows) ==
  r \in ids /\ \A s \in ids : rows[r].nextAttemptAt <= rows[s].nextAttemptAt
=============================================================================
