------------------------- MODULE PublishQueueProofs -------------------------
(***************************************************************************)
(* What the functions on queue rows return, for every row and any limits.  *)
(***************************************************************************)
EXTENDS PublishQueue, TLAPS

(* The backoff is a natural number.                                        *)
LEMMA BackoffNat ==
  ASSUME NEW a \in 1 .. MaxAttempts
  PROVE  backoff(a) \in Nat
<1>1. 3^(a - 1) \in Nat
  <2>1. a - 1 \in 0 .. MaxAttempts
    BY QueueAssumption
  <2> QED BY <2>1, QueueAssumption
<1>2. BaseDelay * 3^(a - 1) \in Nat
  <2>1. \A m, n \in Nat : m * n \in Nat
    OBVIOUS
  <2> QED BY <1>1, <2>1, QueueAssumption
<1> QED BY <1>2, QueueAssumption DEF backoff

(* A success counts one attempt and leaves the row posted.                 *)
LEMMA SuccessFields ==
  ASSUME NEW row \in RowType, NEW id \in {None, "id"}
  PROVE  /\ recordAttemptSuccess(row, id) \in RowType
         /\ recordAttemptSuccess(row, id).attempts = row.attempts + 1
         /\ recordAttemptSuccess(row, id).status = "posted"
         /\ recordAttemptSuccess(row, id).lastError = None
<1> DEFINE m == row.attempts + 1
<1>1. m \in Nat
  BY DEF RowType
<1>2. recordAttemptSuccess(row, id) =
        [row EXCEPT !.attempts = m, !.status = "posted", !.postId = id, !.lastError = None]
  BY DEF recordAttemptSuccess
<1> HIDE DEF m
<1>3. recordAttemptSuccess(row, id) =
         [status |-> "posted", attempts |-> m, nextAttemptAt |-> row.nextAttemptAt,
          lastError |-> None, postId |-> id]
  BY <1>2 DEF RowType
<1>4. row.nextAttemptAt \in Nat
  BY DEF RowType
<1>5. recordAttemptSuccess(row, id) \in RowType
  BY <1>1, <1>3, <1>4 DEF RowType, Statuses
<1>6. /\ recordAttemptSuccess(row, id).attempts = m
      /\ recordAttemptSuccess(row, id).status = "posted"
      /\ recordAttemptSuccess(row, id).lastError = None
  BY <1>3
<1> QED
  BY <1>5, <1>6 DEF m

(* A failure counts one attempt and leaves the row dead when that was the  *)
(* last one, waiting for a retry otherwise.                                *)
LEMMA FailureFields ==
  ASSUME NEW row \in RowType, NEW t \in Nat
  PROVE  /\ recordAttemptFailure(row, t) \in RowType
         /\ recordAttemptFailure(row, t).attempts = row.attempts + 1
         /\ recordAttemptFailure(row, t).status =
              IF row.attempts + 1 >= MaxAttempts THEN "failed_dead" ELSE "failed_retry"
         /\ recordAttemptFailure(row, t).lastError = "error"
         /\ recordAttemptFailure(row, t).postId = row.postId
<1>1. CASE row.attempts + 1 >= MaxAttempts
  <2>1. recordAttemptFailure(row, t) =
          [status |-> "failed_dead", attempts |-> row.attempts + 1,
           nextAttemptAt |-> row.nextAttemptAt, lastError |-> "error", postId |-> row.postId]
    BY <1>1 DEF recordAttemptFailure, RowType
  <2> QED BY <1>1, <2>1 DEF RowType, Statuses
<1>2. CASE ~ (row.attempts + 1 >= MaxAttempts)
  <2>1. recordAttemptFailure(row, t) =
          [status |-> "failed_retry", attempts |-> row.attempts + 1,
           nextAttemptAt |-> t + backoff(row.attempts + 1), lastError |-> "error",
           postId |-> row.postId]
    BY <1>2 DEF recordAttemptFailure, RowType
  <2>2. row.attempts + 1 \in 1 .. MaxAttempts
    BY <1>2, QueueAssumption DEF RowType
  <2>3. t + backoff(row.attempts + 1) \in Nat
    BY <2>2, BackoffNat
  <2> QED BY <1>2, <2>1, <2>3 DEF RowType, Statuses
<1> QED BY <1>1, <1>2

(* A new row is a row.                                                     *)
LEMMA CreatedType ==
  ASSUME NEW t \in Nat
  PROVE  /\ createQueueItem(t) \in RowType
         /\ [createQueueItem(t) EXCEPT !.status = "posted", !.postId = "id"] \in RowType
BY DEF createQueueItem, RowType, Statuses
=============================================================================
