-------------------------- MODULE QueueWorkerProofs --------------------------
(***************************************************************************)
(* Theorems about QueueWorker, for any sets of rows, workers and pruners,  *)
(* any limit and any bounds, and about QueueDaemon, the long-running       *)
(* process that ticks it.                                                  *)
(***************************************************************************)
EXTENDS QueueDaemon, PublishQueueProofs

-----------------------------------------------------------------------------
(* The inductive invariants.                                               *)

(* What a process holds fits the phase it is in: the rows it is about to   *)
(* post or save are in its snapshot, and it never posts a terminal row.    *)
PhaseOK(p) ==
  /\ pc[p] = "posting" =>
       \A r \in todo[p] : r \in DOMAIN snap[p] /\ ~ isTerminal(snap[p][r])
  /\ pc[p] = "saving" => todo[p] \subseteq DOMAIN snap[p]
  /\ fd[p] \in Rows => pc[p] = "saving" /\ fd[p] \in DOMAIN snap[p]
  /\ pc[p] \in {"posting", "saving"} => p \in Workers

RowInv ==
  /\ TypeOK
  /\ RowsConsistent
  /\ \A p \in Procs : PhaseOK(p)

(* Worker w knows that r was published and has yet to save that.           *)
HoldsNews(w, r) ==
  /\ pc[w] \in {"posting", "saving"}
  /\ r \in DOMAIN snap[w]
  /\ snap[w][r].status = "posted"
  /\ pc[w] = "saving" => r \in todo[w]

(* A row that nobody recorded as posted has been published only by faults. *)
SentInv ==
  /\ AtMostOncePerFault
  /\ \A w \in Workers : \A r \in DOMAIN snap[w] :
       snap[w][r].status # "posted" => sent[r] <= faults
  /\ \A r \in Rows :
       isRow(disk[r]) /\ disk[r].status # "posted" =>
         sent[r] <= faults \/ \E w \in Workers : HoldsNews(w, r)
  /\ \A r \in Rows : life[r] = "new" =>
       /\ disk[r] = Absent
       /\ sent[r] = 0
       /\ \A p \in Procs : r \notin DOMAIN snap[p]

-----------------------------------------------------------------------------
(* What an attempt makes of a consistent row.                              *)

(* The two ways in which a failed row is consistent.                       *)
LEMMA ConsistentFailed ==
  ASSUME NEW row,
         row.lastError = "error",
         row.postId = None,
         \/ row.status = "failed_dead" /\ row.attempts = MaxAttempts
         \/ row.status = "failed_retry" /\ row.attempts \in 1 .. MaxAttempts - 1
  PROVE  RowConsistent(row) /\ row.status # "posted"
<1>1. row.attempts \in Nat /\ row.attempts <= MaxAttempts
  BY QueueAssumption
<1>2. row.postId # "id"
  BY QueueAssumption
<1> QED BY <1>1, <1>2 DEF RowConsistent

(* recordAttemptFailure makes one of them of a row with attempts left.     *)
LEMMA FailureConsistent ==
  ASSUME NEW row \in RowType, NEW t \in Nat,
         row.attempts \in 0 .. MaxAttempts - 1, row.postId = None
  PROVE  /\ RowConsistent(recordAttemptFailure(row, t))
         /\ recordAttemptFailure(row, t).status # "posted"
<1> DEFINE f == recordAttemptFailure(row, t)
<1>1. f.lastError = "error" /\ f.postId = None /\ f.attempts = row.attempts + 1
  BY FailureFields
<1>2. f.status = IF row.attempts + 1 >= MaxAttempts THEN "failed_dead" ELSE "failed_retry"
  BY FailureFields
<1>3. \/ row.attempts + 1 >= MaxAttempts /\ row.attempts + 1 = MaxAttempts
      \/ ~ (row.attempts + 1 >= MaxAttempts) /\ row.attempts + 1 \in 1 .. MaxAttempts - 1
  BY QueueAssumption
<1>4. \/ f.status = "failed_dead" /\ f.attempts = MaxAttempts
      \/ f.status = "failed_retry" /\ f.attempts \in 1 .. MaxAttempts - 1
  BY <1>1, <1>2, <1>3
<1> HIDE DEF f
<1>5. RowConsistent(f) /\ f.status # "posted"
  BY <1>1, <1>4, ConsistentFailed
<1> QED BY <1>5 DEF f

(* An attempt turns a consistent unfinished row into a consistent row: the *)
(* theorem behind RowsConsistent.                                          *)
LEMMA AttemptedFields ==
  ASSUME NEW row \in RowType, NEW t \in Nat, NEW outcome,
         RowConsistent(row), ~ isTerminal(row)
  PROVE  /\ Attempted(row, outcome, t) \in RowType
         /\ RowConsistent(Attempted(row, outcome, t))
         /\ Attempted(row, outcome, t).attempts = row.attempts + 1
         /\ Attempted(row, outcome, t).status = "posted" <=>
              outcome \in {"ok", "failed_record"}
<1> DEFINE inFlight == [row EXCEPT !.status = "posting"]
<1>1. /\ inFlight \in RowType
      /\ inFlight.attempts = row.attempts
      /\ inFlight.postId = row.postId
  BY DEF RowType, Statuses
<1>2. /\ row.attempts \in 0 .. MaxAttempts - 1
      /\ row.postId = None
  <2>1. row.status \in {"pending", "failed_retry"}
    BY DEF RowConsistent, isTerminal, TerminalStatuses, RowType, Statuses
  <2>2. row.attempts \in Nat /\ row.postId \in {None, "id"}
    BY DEF RowType
  <2>3. row.attempts \in 0 .. MaxAttempts - 1
    BY <2>1, <2>2, QueueAssumption DEF RowConsistent
  <2>4. row.postId = None
    BY <2>1, <2>2 DEF RowConsistent
  <2> QED BY <2>3, <2>4
<1> HIDE DEF inFlight
<1>3. ASSUME NEW id \in {None, "id"}
      PROVE  RowConsistent(recordAttemptSuccess(inFlight, id))
  BY <1>1, <1>2, SuccessFields, QueueAssumption DEF RowConsistent
<1>4. RowConsistent(recordAttemptFailure(inFlight, t))
  BY <1>1, <1>2, FailureConsistent
<1>5. CASE outcome \in {"ok", "failed_record"}
  <2>1. PICK id \in {None, "id"} :
          Attempted(row, outcome, t) = recordAttemptSuccess(inFlight, id)
    BY <1>5 DEF Attempted, inFlight
  <2> QED BY <1>1, <1>3, <1>5, <2>1, SuccessFields
<1>6. CASE outcome \notin {"ok", "failed_record"}
  <2>1. Attempted(row, outcome, t) = recordAttemptFailure(inFlight, t)
    BY <1>6 DEF Attempted, inFlight
  <2> QED BY <1>1, <1>4, <1>6, <2>1, FailureFields
<1> QED BY <1>5, <1>6

(* The three kinds of rows that are created are consistent.                *)
LEMMA CreatedRows ==
  ASSUME NEW t \in Nat
  PROVE  LET fresh  == createQueueItem(t)
             posted == [fresh EXCEPT !.status = "posted", !.postId = "id"]
             failed == recordAttemptFailure(fresh, t)
         IN  /\ fresh \in RowType  /\ RowConsistent(fresh)
             /\ posted \in RowType /\ RowConsistent(posted)
             /\ failed \in RowType /\ RowConsistent(failed)
             /\ fresh.status # "posted" /\ posted.status = "posted"
             /\ failed.status # "posted"
<1> DEFINE fresh  == createQueueItem(t)
           posted == [fresh EXCEPT !.status = "posted", !.postId = "id"]
           failed == recordAttemptFailure(fresh, t)
<1>1. /\ fresh \in RowType
      /\ fresh.attempts = 0 /\ fresh.status = "pending"
      /\ fresh.lastError = None /\ fresh.postId = None
  BY DEF createQueueItem, RowType, Statuses
<1>2. RowConsistent(fresh)
  BY <1>1, QueueAssumption DEF RowConsistent
<1>3. failed \in RowType /\ RowConsistent(failed) /\ failed.status # "posted"
  <2> HIDE DEF fresh
  <2>1. fresh.attempts \in 0 .. MaxAttempts - 1
    BY <1>1, QueueAssumption
  <2> QED BY <1>1, <2>1, FailureFields, FailureConsistent
<1>4. posted \in RowType /\ RowConsistent(posted) /\ posted.status = "posted"
  <2> HIDE DEF fresh
  <2>1. posted \in RowType
    BY <1>1 DEF RowType, Statuses
  <2>2. /\ posted.status = "posted" /\ posted.attempts = 0
        /\ posted.lastError = None /\ posted.postId = "id"
    BY <1>1 DEF RowType
  <2> HIDE DEF posted
  <2> QED BY <2>1, <2>2, QueueAssumption DEF RowConsistent
<1> QED BY <1>1, <1>2, <1>3, <1>4

-----------------------------------------------------------------------------
(* RowInv is inductive.                                                    *)

(* What any step of one process p must establish for RowInv: p moves to    *)
(* phase c with todo T, snapshot S and start time n, nobody else moves     *)
(* except that a file held open may lose its name.                         *)
LEMMA LocalStep ==
  ASSUME RowInv, NEW p \in Procs,
         NEW c \in {"idle", "listing", "posting", "saving", "pruning"},
         NEW T \in SUBSET Rows, NEW S, NEW n \in Nat,
         IsSnapshot(S), \A r \in DOMAIN S : RowConsistent(S[r]),
         pc' = [pc EXCEPT ![p] = c],
         todo' = [todo EXCEPT ![p] = T],
         snap' = [snap EXCEPT ![p] = S],
         started' = [started EXCEPT ![p] = n],
         c = "posting" => \A r \in T : r \in DOMAIN S /\ ~ isTerminal(S[r]),
         c = "saving" => T \subseteq DOMAIN S,
         c \in {"posting", "saving"} => p \in Workers,
         fd' \in [Procs -> Rows \cup {None, Orphan}],
         fd'[p] \in Rows => c = "saving" /\ fd'[p] \in DOMAIN S,
         \A q \in Procs \ {p} : fd'[q] \in {fd[q], Orphan},
         disk' \in [Rows -> RowType \cup {Absent, Torn}],
         \A r \in Rows : isRow(disk'[r]) => RowConsistent(disk'[r]),
         now' \in Nat,
         life' \in [Rows -> {"new", "enqueued", "pruned"}],
         sent' \in [Rows -> Nat],
         faults' \in Nat
  PROVE  RowInv'
<1>1. TypeOK /\ RowsConsistent /\ \A q \in Procs : PhaseOK(q)
  BY DEF RowInv
<1>2. /\ pc'[p] = c /\ todo'[p] = T /\ snap'[p] = S
      /\ \A q \in Procs \ {p} :
           pc'[q] = pc[q] /\ todo'[q] = todo[q] /\ snap'[q] = snap[q]
  BY <1>1 DEF TypeOK
<1>3. TypeOK'
  <2>1. /\ pc' \in [Procs -> {"idle", "listing", "posting", "saving", "pruning"}]
        /\ todo' \in [Procs -> SUBSET Rows]
        /\ started' \in [Procs -> Nat]
    BY <1>1 DEF TypeOK
  <2>2. snap' = [q \in Procs |-> snap'[q]]
    BY <1>1 DEF TypeOK
  <2>3. ASSUME NEW q \in Procs
        PROVE  IsSnapshot(snap'[q])
    BY <1>1, <1>2 DEF TypeOK
  <2>4. (\A q \in Procs : IsSnapshot(snap[q]))'
    BY <2>3 DEF IsSnapshot
  <2> QED BY <2>1, <2>2, <2>4 DEF TypeOK
<1>4. RowsConsistent'
  <2>1. ASSUME NEW q \in Procs, NEW r \in DOMAIN snap'[q]
        PROVE  RowConsistent(snap'[q][r])
    BY <1>1, <1>2 DEF RowsConsistent
  <2> QED BY <2>1 DEF RowsConsistent, RowConsistent, isRow
<1>5. ASSUME NEW q \in Procs
      PROVE  PhaseOK(q)'
  <2>1. CASE q = p
    BY <1>2, <2>1 DEF PhaseOK, isTerminal
  <2>2. CASE q # p
    <3>1. fd'[q] \in Rows => fd'[q] = fd[q]
      BY <2>2, WorkerAssumption
    <3> QED BY <1>1, <1>2, <2>2, <3>1 DEF PhaseOK, isTerminal
  <2> QED BY <2>1, <2>2
<1> QED BY <1>3, <1>4, <1>5 DEF RowInv

(* The variables of a process that a step leaves alone, in the form of     *)
(* LocalStep; and what RowInv says of them.                                *)
LEMMA Unmoved ==
  ASSUME RowInv, NEW p \in Procs
  PROVE  /\ pc[p] \in {"idle", "listing", "posting", "saving", "pruning"}
         /\ todo[p] \in SUBSET Rows
         /\ started[p] \in Nat
         /\ IsSnapshot(snap[p])
         /\ \A r \in DOMAIN snap[p] : r \in Rows /\ snap[p][r] \in RowType
         /\ \A r \in DOMAIN snap[p] : RowConsistent(snap[p][r])
         /\ PhaseOK(p)
         /\ pc = [pc EXCEPT ![p] = pc[p]]
         /\ todo = [todo EXCEPT ![p] = todo[p]]
         /\ snap = [snap EXCEPT ![p] = snap[p]]
         /\ started = [started EXCEPT ![p] = started[p]]
         /\ fd \in [Procs -> Rows \cup {None, Orphan}]
         /\ disk \in [Rows -> RowType \cup {Absent, Torn}]
         /\ \A r \in Rows : isRow(disk[r]) => disk[r] \in RowType /\ RowConsistent(disk[r])
         /\ now \in Nat
         /\ life \in [Rows -> {"new", "enqueued", "pruned"}]
         /\ sent \in [Rows -> Nat]
         /\ faults \in Nat
<1>1. TypeOK /\ RowsConsistent /\ PhaseOK(p)
  BY DEF RowInv
<1>2. IsSnapshot(snap[p]) /\ \A r \in DOMAIN snap[p] : RowConsistent(snap[p][r])
  BY <1>1 DEF TypeOK, RowsConsistent
<1>3. \A r \in DOMAIN snap[p] : r \in Rows /\ snap[p][r] \in RowType
  BY <1>2 DEF IsSnapshot
<1>4. /\ pc = [pc EXCEPT ![p] = pc[p]]
      /\ todo = [todo EXCEPT ![p] = todo[p]]
      /\ snap = [snap EXCEPT ![p] = snap[p]]
      /\ started = [started EXCEPT ![p] = started[p]]
  BY <1>1 DEF TypeOK
<1>5. \A r \in Rows : isRow(disk[r]) => disk[r] \in RowType /\ RowConsistent(disk[r])
  BY <1>1 DEF TypeOK, RowsConsistent, isRow
<1> QED BY <1>1, <1>2, <1>3, <1>4, <1>5 DEF TypeOK

(* The snapshot of a process that holds nothing.                           *)
LEMMA EmptySnapshot == IsSnapshot(NoRows) /\ DOMAIN NoRows = {}
BY DEF IsSnapshot, NoRows

(* A new row: nobody else moves.                                           *)
LEMMA CreateInv ==
  ASSUME RowInv, NEW r \in Rows, NEW file,
         Create(r, file),
         file = Torn \/ (file \in RowType /\ RowConsistent(file)),
         sent' \in [Rows -> Nat], faults' \in Nat
  PROVE  RowInv'
<1>1. TypeOK /\ RowsConsistent /\ \A q \in Procs : PhaseOK(q)
  BY DEF RowInv
<1>2. /\ disk' = [disk EXCEPT ![r] = file]
      /\ life' = [life EXCEPT ![r] = "enqueued"]
      /\ UNCHANGED <<now, pc, todo, snap, started, fd>>
  BY DEF Create, locals
<1>3. TypeOK'
  <2>1. /\ disk' \in [Rows -> RowType \cup {Absent, Torn}]
        /\ life' \in [Rows -> {"new", "enqueued", "pruned"}]
    BY <1>1, <1>2 DEF TypeOK
  <2> QED BY <1>1, <1>2, <2>1 DEF TypeOK, IsSnapshot
<1>4. RowsConsistent'
  <2>1. \A s \in Rows : isRow(disk'[s]) => RowConsistent(disk'[s])
    BY <1>1, <1>2 DEF RowsConsistent, TypeOK, isRow
  <2> QED BY <1>1, <1>2, <2>1 DEF RowsConsistent, RowConsistent, isRow
<1>5. (\A q \in Procs : PhaseOK(q))'
  BY <1>1, <1>2 DEF PhaseOK, isTerminal
<1> QED BY <1>3, <1>4, <1>5 DEF RowInv

(* The writers of new rows preserve RowInv.                                *)
LEMMA EnqueueInv ==
  ASSUME RowInv, NEW r \in Rows, Enqueue(r)
  PROVE  RowInv'
<1>1. /\ now \in Nat /\ sent \in [Rows -> Nat] /\ faults \in Nat
  BY DEF RowInv, TypeOK
<1>2. CASE EnqueueFresh(r)
  BY <1>1, <1>2, CreateInv, CreatedRows DEF EnqueueFresh
<1>3. CASE SinkPosted(r)
  BY <1>1, <1>3, CreateInv, CreatedRows DEF SinkPosted
<1>4. CASE SinkFailed(r)
  BY <1>1, <1>4, CreateInv, CreatedRows DEF SinkFailed
<1>5. CASE CrashInEnqueue(r)
  <2>1. faults' \in Nat
    BY <1>1, <1>5 DEF CrashInEnqueue
  <2>2. sent' \in [Rows -> Nat] /\ Create(r, Torn)
    BY <1>1, <1>5 DEF CrashInEnqueue
  <2> QED BY <2>1, <2>2, CreateInv
<1> QED BY <1>2, <1>3, <1>4, <1>5 DEF Enqueue

(* A process that forgets everything and holds no row file open.           *)
LEMMA ForgetInv ==
  ASSUME RowInv, NEW p \in Procs, Forget(p),
         fd' \in [Procs -> Rows \cup {None, Orphan}],
         fd'[p] \notin Rows,
         \A q \in Procs \ {p} : fd'[q] \in {fd[q], Orphan},
         disk' \in [Rows -> RowType \cup {Absent, Torn}],
         \A r \in Rows : isRow(disk'[r]) => RowConsistent(disk'[r]),
         now' \in Nat,
         life' \in [Rows -> {"new", "enqueued", "pruned"}],
         sent' \in [Rows -> Nat],
         faults' \in Nat
  PROVE  RowInv'
BY LocalStep, EmptySnapshot DEF Forget

(* Listing preserves RowInv: what is read is a consistent row.             *)
LEMMA ListInv ==
  ASSUME RowInv, NEW p \in Procs,
         \/ StartList(p)
         \/ \E r \in Rows : ListRow(p, r) \/ ListThrows(p, r)
         \/ ScanEmpty(p)
  PROVE  RowInv'
<1> USE Unmoved
<1>1. CASE StartList(p)
  <2>1. {r \in Rows : disk[r] # Absent} \in SUBSET Rows
    OBVIOUS
  <2>2. fd[p] \notin Rows
    BY <1>1 DEF PhaseOK, StartList
  <2> QED BY <1>1, <2>1, <2>2, LocalStep DEF StartList
<1>2. ASSUME NEW r \in Rows, ListRow(p, r)
      PROVE  RowInv'
  <2>1. /\ fd[p] \notin Rows
        /\ todo[p] \ {r} \in SUBSET Rows
        /\ todo' = [todo EXCEPT ![p] = todo[p] \ {r}]
        /\ pc' = [pc EXCEPT ![p] = "listing"]
        /\ started' = [started EXCEPT ![p] = started[p]]
        /\ UNCHANGED <<disk, now, fd, life, sent, faults>>
    BY <1>2 DEF PhaseOK, ListRow
  <2>2. \E S : /\ snap' = [snap EXCEPT ![p] = S]
                /\ IsSnapshot(S)
                /\ \A s \in DOMAIN S : RowConsistent(S[s])
    <3>1. CASE isRow(disk[r])
      <4> DEFINE S == [s \in DOMAIN snap[p] \cup {r} |->
                         IF s = r THEN disk[r] ELSE snap[p][s]]
      <4>1. snap' = [snap EXCEPT ![p] = [s \in DOMAIN @ \cup {r} |->
                                          IF s = r THEN disk[r] ELSE @[s]]]
        BY ONLY <1>2, <3>1 DEF ListRow
      <4>2. IsSnapshot(S)
        BY <3>1 DEF IsSnapshot
      <4>3. \A s \in DOMAIN S : RowConsistent(S[s])
        BY <3>1
      <4>4. snap' = [snap EXCEPT ![p] = S]
        BY <4>1
      <4> HIDE DEF S
      <4> QED BY <4>2, <4>3, <4>4
    <3>2. CASE ~ isRow(disk[r])
      BY <1>2, <3>2 DEF ListRow
    <3> QED BY <3>1, <3>2
  <2> QED BY <2>1, <2>2, LocalStep
<1>3. ASSUME NEW r \in Rows, ListThrows(p, r)
      PROVE  RowInv'
  <2>1. fd[p] \notin Rows
    BY <1>3 DEF PhaseOK, ListThrows
  <2> QED BY <1>3, <2>1, ForgetInv DEF ListThrows
<1>4. CASE ScanEmpty(p)
  <2>1. fd[p] \notin Rows
    BY <1>4 DEF PhaseOK, ScanEmpty
  <2> QED BY <1>4, <2>1, ForgetInv DEF ScanEmpty
<1> QED BY <1>1, <1>2, <1>3, <1>4

(* A batch holds due rows of the snapshot only.                            *)
LEMMA BatchDue ==
  ASSUME NEW rows, NEW t, NEW batch \in Batches(rows, t)
  PROVE  /\ batch \subseteq DOMAIN rows
         /\ \A r \in batch : ~ isTerminal(rows[r])
BY DEF Batches, isDue

(* processQueue preserves RowInv: the attempts keep the rows consistent.   *)
LEMMA ProcessInv ==
  ASSUME RowInv, NEW p \in Procs,
         \/ SelectDue(p)
         \/ \E r \in Rows : \E outcome \in PossibleOutcomes(r) : Post(p, r, outcome)
         \/ EndPosting(p)
  PROVE  RowInv'
<1> USE Unmoved
<1>1. CASE SelectDue(p)
  <2>1. PICK batch \in Batches(snap[p], now) : todo' = [todo EXCEPT ![p] = batch]
    BY <1>1 DEF SelectDue
  <2>2. /\ p \in Workers /\ fd[p] \notin Rows
        /\ pc' = [pc EXCEPT ![p] = "posting"]
        /\ started' = [started EXCEPT ![p] = now]
        /\ UNCHANGED <<disk, now, snap, fd, life, sent, faults>>
    BY <1>1 DEF SelectDue, PhaseOK
  <2>3. batch \in SUBSET Rows /\ \A r \in batch : r \in DOMAIN snap[p] /\ ~ isTerminal(snap[p][r])
    BY BatchDue
  <2> QED BY <2>1, <2>2, <2>3, LocalStep
<1>2. ASSUME NEW r \in Rows, NEW outcome \in PossibleOutcomes(r), Post(p, r, outcome)
      PROVE  RowInv'
  <2> DEFINE row == Attempted(snap[p][r], outcome, started[p])
             S   == [snap[p] EXCEPT ![r] = row]
  <2>1. /\ p \in Workers /\ pc[p] = "posting" /\ fd[p] \notin Rows
        /\ r \in todo[p] /\ r \in DOMAIN snap[p] /\ ~ isTerminal(snap[p][r])
    BY <1>2 DEF Post, PhaseOK, isFirst
  <2>2. row \in RowType /\ RowConsistent(row)
    BY <2>1, AttemptedFields
  <2>3. /\ pc' = [pc EXCEPT ![p] = "posting"]
        /\ todo' = [todo EXCEPT ![p] = todo[p] \ {r}]
        /\ started' = [started EXCEPT ![p] = started[p]]
        /\ UNCHANGED <<disk, now, fd, life>>
    BY <1>2, <2>1 DEF Post
  <2>4. snap' = [snap EXCEPT ![p] = S]
    BY <1>2 DEF Post
  <2>5. sent' \in [Rows -> Nat] /\ faults' \in Nat
    BY <1>2 DEF Post
  <2> HIDE DEF row
  <2>6. /\ IsSnapshot(S)
        /\ \A s \in DOMAIN S : RowConsistent(S[s])
        /\ \A s \in todo[p] \ {r} : s \in DOMAIN S /\ ~ isTerminal(S[s])
    <3>1. DOMAIN S = DOMAIN snap[p] /\ \A s \in DOMAIN S : S[s] = IF s = r THEN row ELSE snap[p][s]
      BY <2>1
    <3>2. S \in [DOMAIN S -> RowType]
      BY <2>2, <3>1
    <3>3. \A s \in DOMAIN S : RowConsistent(S[s])
      BY <2>2, <3>1
    <3>4. \A s \in todo[p] \ {r} : s \in DOMAIN S /\ ~ isTerminal(S[s])
      BY <2>1, <3>1 DEF PhaseOK
    <3> QED BY <3>1, <3>2, <3>3, <3>4 DEF IsSnapshot
  <2> HIDE DEF S
  <2> QED BY <2>1, <2>3, <2>4, <2>5, <2>6, LocalStep
<1>3. CASE EndPosting(p)
  <2>1. /\ p \in Workers /\ fd[p] \notin Rows
        /\ pc' = [pc EXCEPT ![p] = "saving"]
        /\ todo' = [todo EXCEPT ![p] = DOMAIN snap[p]]
        /\ UNCHANGED <<disk, now, snap, started, fd, life, sent, faults>>
    BY <1>3 DEF EndPosting, PhaseOK
  <2>2. DOMAIN snap[p] \in SUBSET Rows
    OBVIOUS
  <2> QED BY <2>1, <2>2, LocalStep
<1> QED BY <1>1, <1>2, <1>3

(* replaceAll preserves RowInv: what is written is a row of the snapshot.  *)
LEMMA SaveInv ==
  ASSUME RowInv, NEW p \in Procs,
         (\E r \in Rows : OpenRow(p, r)) \/ WriteRow(p)
  PROVE  RowInv'
<1> USE Unmoved
<1>1. ASSUME NEW r \in Rows, OpenRow(p, r)
      PROVE  RowInv'
  <2>1. /\ p \in Workers /\ r \in DOMAIN snap[p] /\ todo[p] \subseteq DOMAIN snap[p]
        /\ pc' = [pc EXCEPT ![p] = "saving"]
        /\ todo' = [todo EXCEPT ![p] = todo[p] \ {r}]
        /\ disk' = [disk EXCEPT ![r] = Torn]
        /\ fd' = [fd EXCEPT ![p] = r]
        /\ UNCHANGED <<now, snap, started, life, sent, faults>>
    BY <1>1 DEF OpenRow, PhaseOK
  <2>2. /\ fd' \in [Procs -> Rows \cup {None, Orphan}]
        /\ fd'[p] = r
        /\ \A q \in Procs \ {p} : fd'[q] = fd[q]
    BY <2>1
  <2>3. /\ disk' \in [Rows -> RowType \cup {Absent, Torn}]
        /\ \A s \in Rows : isRow(disk'[s]) => RowConsistent(disk'[s])
    BY <2>1 DEF isRow
  <2>4. /\ snap' = [snap EXCEPT ![p] = snap[p]]
        /\ started' = [started EXCEPT ![p] = started[p]]
    BY <2>1
  <2>5. todo[p] \ {r} \in SUBSET Rows /\ todo[p] \ {r} \subseteq DOMAIN snap[p]
    BY <2>1
  <2>6. now' \in Nat /\ life' \in [Rows -> {"new", "enqueued", "pruned"}]
    BY <2>1
  <2>7. sent' \in [Rows -> Nat] /\ faults' \in Nat
    BY <2>1
  <2>8. IsSnapshot(snap[p]) /\ \A s \in DOMAIN snap[p] : RowConsistent(snap[p][s])
    OBVIOUS
  <2>9. started[p] \in Nat
    OBVIOUS
  <2> QED BY ONLY RowInv, r \in Rows, p \in Procs, <2>1, <2>2, <2>3, <2>4, <2>5, <2>6, <2>7, <2>8, <2>9, LocalStep
<1>2. CASE WriteRow(p)
  <2>1. /\ pc[p] = "saving" /\ p \in Workers
        /\ fd[p] \in Rows \cup {Orphan}
        /\ fd[p] \in Rows => fd[p] \in DOMAIN snap[p]
        /\ todo[p] \subseteq DOMAIN snap[p]
        /\ fd' = [fd EXCEPT ![p] = None]
        /\ UNCHANGED <<now, life, sent, faults>>
    BY <1>2 DEF WriteRow, PhaseOK
  <2>2. /\ fd' \in [Procs -> Rows \cup {None, Orphan}]
        /\ fd'[p] \notin Rows
        /\ \A q \in Procs \ {p} : fd'[q] = fd[q]
    BY <2>1, WorkerAssumption
  <2>3. /\ disk' \in [Rows -> RowType \cup {Absent, Torn}]
        /\ \A s \in Rows : isRow(disk'[s]) => RowConsistent(disk'[s])
    <3>1. CASE fd[p] = Orphan
      BY <1>2, <3>1 DEF WriteRow
    <3>2. CASE fd[p] # Orphan
      <4>1. PICK file \in Written(fd[p], snap[p][fd[p]]) : disk' = [disk EXCEPT ![fd[p]] = file]
        BY <1>2, <3>2 DEF WriteRow
      <4>2. file = Torn \/ (file \in RowType /\ RowConsistent(file))
        BY <2>1, <3>2 DEF Written
      <4> QED BY <2>1, <3>2, <4>1, <4>2 DEF isRow
    <3> QED BY <3>1, <3>2
  <2>4. CASE todo[p] = {}
    BY <1>2, <2>1, <2>2, <2>3, <2>4, ForgetInv DEF WriteRow
  <2>5. CASE todo[p] # {}
    <3>1. UNCHANGED <<pc, todo, snap, started>>
      BY <1>2, <2>5 DEF WriteRow
    <3>2. /\ pc' = [pc EXCEPT ![p] = "saving"]
          /\ todo' = [todo EXCEPT ![p] = todo[p]]
          /\ snap' = [snap EXCEPT ![p] = snap[p]]
          /\ started' = [started EXCEPT ![p] = started[p]]
      BY <2>1, <3>1
    <3> QED BY <2>1, <2>2, <2>3, <3>2, LocalStep
  <2> QED BY <2>4, <2>5
<1> QED BY <1>1, <1>2

(* prune preserves RowInv: it only takes files away.                       *)
LEMMA PruneInv ==
  ASSUME RowInv, NEW p \in Procs,
         SelectDead(p) \/ \E r \in Rows : RemoveRow(p, r)
  PROVE  RowInv'
<1> USE Unmoved
<1>1. CASE SelectDead(p)
  <2>1. fd[p] \notin Rows /\ UNCHANGED <<disk, now, fd, life, sent, faults>>
    BY <1>1 DEF SelectDead, PhaseOK
  <2>2. CASE Prunable(snap[p]) = {}
    BY <1>1, <2>1, <2>2, ForgetInv DEF SelectDead
  <2>3. CASE Prunable(snap[p]) # {}
    <3>1. Prunable(snap[p]) \in SUBSET Rows
      BY DEF Prunable
    <3>2. /\ pc' = [pc EXCEPT ![p] = "pruning"]
          /\ todo' = [todo EXCEPT ![p] = Prunable(snap[p])]
          /\ UNCHANGED <<snap, started>>
      BY <1>1, <2>3 DEF SelectDead
    <3> QED BY <2>1, <3>1, <3>2, LocalStep
  <2> QED BY <2>2, <2>3
<1>2. ASSUME NEW r \in Rows, RemoveRow(p, r)
      PROVE  RowInv'
  <2>1. /\ pc[p] = "pruning" /\ fd[p] \notin Rows
        /\ disk' = [disk EXCEPT ![r] = Absent]
        /\ life' = [life EXCEPT ![r] = "pruned"]
        /\ fd' = [q \in Procs |-> IF fd[q] = r THEN Orphan ELSE fd[q]]
        /\ UNCHANGED <<now, sent, faults>>
    BY <1>2 DEF RemoveRow, PhaseOK
  <2>2. /\ fd' \in [Procs -> Rows \cup {None, Orphan}]
        /\ fd'[p] \notin Rows
        /\ \A q \in Procs \ {p} : fd'[q] \in {fd[q], Orphan}
    BY <2>1, WorkerAssumption
  <2>3. /\ disk' \in [Rows -> RowType \cup {Absent, Torn}]
        /\ \A s \in Rows : isRow(disk'[s]) => RowConsistent(disk'[s])
        /\ life' \in [Rows -> {"new", "enqueued", "pruned"}]
    BY <2>1 DEF isRow
  <2>4. CASE todo[p] = {r}
    BY <1>2, <2>1, <2>2, <2>3, <2>4, ForgetInv DEF RemoveRow
  <2>5. CASE todo[p] # {r}
    <3>1. /\ pc' = [pc EXCEPT ![p] = "pruning"]
          /\ todo' = [todo EXCEPT ![p] = todo[p] \ {r}]
          /\ UNCHANGED <<snap, started>>
      BY <1>2, <2>1, <2>5 DEF RemoveRow
    <3>2. /\ snap' = [snap EXCEPT ![p] = snap[p]]
          /\ started' = [started EXCEPT ![p] = started[p]]
      BY <3>1
    <3>3. todo[p] \ {r} \in SUBSET Rows
      OBVIOUS
    <3>4. now' \in Nat /\ sent' \in [Rows -> Nat] /\ faults' \in Nat
      BY <2>1
    <3>5. IsSnapshot(snap[p]) /\ \A s \in DOMAIN snap[p] : RowConsistent(snap[p][s])
      OBVIOUS
    <3>6. started[p] \in Nat
      OBVIOUS
    <3> QED BY ONLY RowInv, p \in Procs, <2>2, <2>3, <3>1, <3>2, <3>3, <3>4, <3>5, <3>6, LocalStep
  <2> QED BY <2>4, <2>5
<1> QED BY <1>1, <1>2

(* A crash and a tick of the clock preserve RowInv.                        *)
LEMMA EnvironmentInv ==
  ASSUME RowInv, (\E p \in Procs : Crash(p)) \/ Tick
  PROVE  RowInv'
<1>1. ASSUME NEW p \in Procs, Crash(p)
      PROVE  RowInv'
  <2>1. /\ fd' = [fd EXCEPT ![p] = None]
        /\ Forget(p)
        /\ UNCHANGED <<disk, now, life, sent>>
    BY <1>1 DEF Crash
  <2>2. faults' \in Nat
    BY <1>1, Unmoved DEF Crash
  <2>3. /\ fd' \in [Procs -> Rows \cup {None, Orphan}]
        /\ fd'[p] \notin Rows
        /\ \A q \in Procs \ {p} : fd'[q] \in {fd[q], Orphan}
    BY <2>1, Unmoved, WorkerAssumption
  <2> QED BY <2>1, <2>2, <2>3, Unmoved, ForgetInv
<1>2. CASE Tick
  <2>1. UNCHANGED <<disk, pc, todo, snap, started, fd, life, sent, faults>>
    BY <1>2 DEF Tick, locals
  <2>2. now' \in Nat
    BY <1>2 DEF Tick, RowInv, TypeOK
  <2> QED BY <2>1, <2>2 DEF RowInv, TypeOK, IsSnapshot, RowsConsistent,
                            RowConsistent, isRow, PhaseOK, isTerminal
<1> QED BY <1>1, <1>2

(* The initial state satisfies RowInv: no file exists, no process runs.     *)
LEMMA RowInvInit == Init => RowInv
<1> SUFFICES ASSUME Init PROVE RowInv
  OBVIOUS
<1>1. TypeOK
  BY EmptySnapshot DEF Init, TypeOK
<1>2. RowsConsistent
  BY EmptySnapshot DEF Init, RowsConsistent, isRow
<1>3. \A p \in Procs : PhaseOK(p)
  BY WorkerAssumption DEF Init, PhaseOK
<1> QED BY <1>1, <1>2, <1>3 DEF RowInv

(* Every step of every process, of the writers of rows and of the clock     *)
(* preserves RowInv, by the lemmas above.                                   *)
LEMMA RowInvNext == RowInv /\ [Next]_vars => RowInv'
<1> SUFFICES ASSUME RowInv, [Next]_vars PROVE RowInv'
  OBVIOUS
<1>1. ASSUME NEW r \in Rows, Enqueue(r) PROVE RowInv'
  BY <1>1, EnqueueInv
<1>2. ASSUME NEW p \in Procs, Run(p) PROVE RowInv'
  BY <1>2, ListInv, ProcessInv, SaveInv, PruneInv DEF Run
<1>3. ASSUME NEW p \in Procs, Crash(p) PROVE RowInv'
  BY <1>3, EnvironmentInv
<1>4. CASE Tick
  BY <1>4, EnvironmentInv
<1>5. CASE UNCHANGED vars
  BY <1>5 DEF vars, locals, RowInv, TypeOK, IsSnapshot, RowsConsistent,
              RowConsistent, isRow, PhaseOK, isTerminal
<1> QED BY <1>1, <1>2, <1>3, <1>4, <1>5 DEF Next

(* RowInv holds of every reachable state.                                  *)
THEOREM RowInvariant == Spec => []RowInv
BY RowInvInit, RowInvNext, PTL DEF Spec

(* The variables keep their types: files are rows or torn or absent, a     *)
(* process holds rows of the queue only.                                   *)
THEOREM TypeCorrect == Spec => []TypeOK
<1>1. RowInv => TypeOK
  BY DEF RowInv
<1> QED BY <1>1, RowInvariant, PTL

(* However many workers and prunes share the queue, and wherever they are  *)
(* killed, every row on disk and in memory is consistent: no row is posted *)
(* or dead with attempts left over, or waits with none left.               *)
THEOREM RowsAlwaysConsistent == Spec => []RowsConsistent
<1>1. RowInv => RowsConsistent
  BY DEF RowInv
<1> QED BY <1>1, RowInvariant, PTL

-----------------------------------------------------------------------------
(* With one worker SentInv is inductive as well.                           *)

(* A new row has been published once at the most, by whoever created it,   *)
(* and then it is recorded as posted.                                      *)
LEMMA EnqueueSent ==
  ASSUME RowInv, SentInv, NEW r \in Rows, Enqueue(r)
  PROVE  SentInv'
<1>1. /\ life[r] = "new" /\ disk[r] = Absent /\ sent[r] = 0
      /\ life' = [life EXCEPT ![r] = "enqueued"]
      /\ UNCHANGED <<pc, todo, snap>>
      /\ \A p \in Procs : r \notin DOMAIN snap[p]
  BY DEF Enqueue, EnqueueFresh, SinkPosted, SinkFailed, CrashInEnqueue, Create, locals, SentInv
<1>2. /\ sent \in [Rows -> Nat] /\ faults \in Nat
      /\ disk \in [Rows -> RowType \cup {Absent, Torn}]
      /\ life \in [Rows -> {"new", "enqueued", "pruned"}]
      /\ now \in Nat
  BY DEF RowInv, TypeOK
<1>3. PICK file : /\ disk' = [disk EXCEPT ![r] = file]
                  /\ \/ /\ sent' = sent
                        /\ faults' = faults \/ faults' = faults + 1
                     \/ /\ sent' = [sent EXCEPT ![r] = 1]
                        /\ faults' = faults
                        /\ file.status = "posted"
  <2>1. CASE EnqueueFresh(r)
    BY <2>1 DEF EnqueueFresh, Create
  <2>2. CASE SinkPosted(r)
    BY <1>2, <2>2, CreatedRows DEF SinkPosted, Create
  <2>3. CASE SinkFailed(r)
    BY <2>3 DEF SinkFailed, Create
  <2>4. CASE CrashInEnqueue(r)
    BY <2>4 DEF CrashInEnqueue, Create
  <2> QED BY <2>1, <2>2, <2>3, <2>4 DEF Enqueue
<1>4. /\ \A q \in Rows \ {r} : disk'[q] = disk[q] /\ sent'[q] = sent[q] /\ life'[q] = life[q]
      /\ disk'[r] = file /\ life'[r] = "enqueued"
      /\ faults' \in Nat /\ faults <= faults'
      /\ sent'[r] = 0 \/ (sent'[r] = 1 /\ file.status = "posted")
  BY <1>1, <1>2, <1>3
<1>5. AtMostOncePerFault'
  BY <1>2, <1>4 DEF SentInv, AtMostOncePerFault
<1>6. (\A w \in Workers : \A q \in DOMAIN snap[w] :
         snap[w][q].status # "posted" => sent[q] <= faults)'
  <2>1. ASSUME NEW w \in Workers, NEW q \in DOMAIN snap[w], snap[w][q].status # "posted"
        PROVE  sent'[q] <= faults'
    <3>1. q \in Rows \ {r}
      BY <1>1, Unmoved DEF Procs
    <3> QED BY <1>2, <1>4, <2>1, <3>1 DEF SentInv
  <2> QED BY <1>1, <2>1
<1>7. (\A q \in Rows : isRow(disk[q]) /\ disk[q].status # "posted" =>
         sent[q] <= faults \/ \E w \in Workers : HoldsNews(w, q))'
  <2>1. ASSUME NEW q \in Rows, isRow(disk'[q]), disk'[q].status # "posted"
        PROVE  sent'[q] <= faults' \/ \E w \in Workers : HoldsNews(w, q)
    <3>1. CASE q = r
      BY <1>4, <2>1, <3>1
    <3>2. CASE q # r
      BY <1>2, <1>4, <2>1, <3>2 DEF SentInv, isRow
    <3> QED BY <3>1, <3>2
  <2>2. \A w \in Workers : \A q \in Rows : HoldsNews(w, q) => HoldsNews(w, q)'
    BY <1>1 DEF HoldsNews
  <2> QED BY <2>1, <2>2 DEF isRow
<1>8. (\A q \in Rows : life[q] = "new" =>
         /\ disk[q] = Absent
         /\ sent[q] = 0
         /\ \A p \in Procs : q \notin DOMAIN snap[p])'
  BY <1>1, <1>4 DEF SentInv
<1> QED BY <1>5, <1>6, <1>7, <1>8 DEF SentInv

(* A step that publishes nothing and writes nothing, of a process that is  *)
(* not posting or saving before it: what it may add to its snapshot is     *)
(* what is on disk.  The sole worker being elsewhere, no news is held.     *)
LEMMA ReadSent ==
  ASSUME RowInv, SentInv, OneWorker, NEW p \in Procs,
         pc[p] \notin {"posting", "saving"},
         UNCHANGED <<disk, life, sent, faults>>,
         \A q \in Procs \ {p} : /\ snap'[q] = snap[q] /\ pc'[q] = pc[q]
                                 /\ todo'[q] = todo[q],
         \A r \in DOMAIN snap'[p] :
           \/ r \in DOMAIN snap[p] /\ snap'[p][r] = snap[p][r]
           \/ r \in Rows /\ isRow(disk[r]) /\ snap'[p][r] = disk[r]
  PROVE  SentInv'
<1>1. AtMostOncePerFault'
  BY DEF SentInv, AtMostOncePerFault
<1>2. \A r \in Rows : ~ HoldsNews(p, r)
  BY DEF HoldsNews
<1>3. (\A w \in Workers : \A q \in DOMAIN snap[w] :
         snap[w][q].status # "posted" => sent[q] <= faults)'
  <2>1. ASSUME NEW w \in Workers, NEW q \in DOMAIN snap'[w], snap'[w][q].status # "posted"
        PROVE  sent[q] <= faults
    <3>1. CASE w # p
      BY <2>1, <3>1 DEF SentInv, Procs
    <3>2. CASE w = p /\ q \in DOMAIN snap[p] /\ snap'[p][q] = snap[p][q]
      BY <2>1, <3>2 DEF SentInv
    <3>3. CASE w = p /\ q \in Rows /\ isRow(disk[q]) /\ snap'[p][q] = disk[q]
      <4>1. \A v \in Workers : v = p
        BY <3>3 DEF OneWorker
      <4> QED BY <1>2, <2>1, <3>3, <4>1 DEF SentInv
    <3> QED BY <3>1, <3>2, <3>3
  <2> QED BY <2>1
<1>4. (\A q \in Rows : isRow(disk[q]) /\ disk[q].status # "posted" =>
         sent[q] <= faults \/ \E w \in Workers : HoldsNews(w, q))'
  <2>1. \A w \in Workers : \A q \in Rows : HoldsNews(w, q) => HoldsNews(w, q)'
    BY <1>2 DEF HoldsNews, Procs
  <2> QED BY <2>1 DEF isRow, SentInv
<1>5. (\A q \in Rows : life[q] = "new" =>
         /\ disk[q] = Absent
         /\ sent[q] = 0
         /\ \A v \in Procs : q \notin DOMAIN snap[v])'
  <2>1. ASSUME NEW q \in Rows, life[q] = "new", NEW v \in Procs
        PROVE  q \notin DOMAIN snap'[v]
    BY <2>1 DEF SentInv, isRow
  <2> QED BY <2>1 DEF SentInv
<1> QED BY <1>1, <1>3, <1>4, <1>5 DEF SentInv

(* Listing, selecting what to post or to remove, and forgetting it all are *)
(* such steps.                                                             *)
LEMMA ListSent ==
  ASSUME RowInv, SentInv, OneWorker, NEW p \in Procs,
         \/ StartList(p)
         \/ \E r \in Rows : ListRow(p, r) \/ ListThrows(p, r)
         \/ ScanEmpty(p)
         \/ SelectDue(p)
         \/ SelectDead(p)
  PROVE  SentInv'
<1>1. /\ pc[p] \notin {"posting", "saving"}
      /\ UNCHANGED <<disk, life, sent, faults>>
  BY DEF StartList, ListRow, ListThrows, ScanEmpty, SelectDue, SelectDead
<1>2. /\ pc \in [Procs -> {"idle", "listing", "posting", "saving", "pruning"}]
      /\ todo \in [Procs -> SUBSET Rows]
      /\ snap = [q \in Procs |-> snap[q]]
  BY DEF RowInv, TypeOK
<1>3. \A q \in Procs \ {p} : /\ snap'[q] = snap[q] /\ pc'[q] = pc[q]
                              /\ todo'[q] = todo[q]
  BY <1>2 DEF StartList, ListRow, ListThrows, ScanEmpty, SelectDue, SelectDead, Forget
<1>4. \A r \in DOMAIN snap'[p] :
        \/ r \in DOMAIN snap[p] /\ snap'[p][r] = snap[p][r]
        \/ r \in Rows /\ isRow(disk[r]) /\ snap'[p][r] = disk[r]
  <2>1. CASE UNCHANGED snap
    BY <2>1
  <2>2. CASE Forget(p)
    BY <1>2, <2>2, EmptySnapshot DEF Forget
  <2>3. ASSUME NEW r \in Rows, ListRow(p, r), isRow(disk[r])
        PROVE  snap'[p] = [s \in DOMAIN snap[p] \cup {r} |->
                             IF s = r THEN disk[r] ELSE snap[p][s]]
    BY <1>2, <2>3 DEF ListRow
  <2>4. \/ UNCHANGED snap
        \/ Forget(p)
        \/ \E r \in Rows : ListRow(p, r) /\ isRow(disk[r])
    BY DEF StartList, ListRow, ListThrows, ScanEmpty, SelectDue, SelectDead
  <2> QED BY <2>1, <2>2, <2>3, <2>4
<1> QED BY <1>1, <1>3, <1>4, ReadSent

(* An attempt of the sole worker: a row that may still be attempted was    *)
(* published by faults only, and the news of a success is held until it is *)
(* saved.                                                                  *)
LEMMA PostSent ==
  ASSUME RowInv, SentInv, OneWorker, NEW p \in Procs, NEW r \in Rows,
         NEW outcome \in PossibleOutcomes(r), Post(p, r, outcome)
  PROVE  SentInv'
<1> DEFINE row == Attempted(snap[p][r], outcome, started[p])
<1>1. /\ p \in Workers /\ pc[p] = "posting"
      /\ r \in todo[p] /\ r \in DOMAIN snap[p] /\ ~ isTerminal(snap[p][r])
  BY Unmoved DEF Post, PhaseOK, isFirst
<1>2. /\ snap \in [Procs -> {snap[q] : q \in Procs}]
      /\ sent \in [Rows -> Nat] /\ faults \in Nat
  BY DEF RowInv, TypeOK
<1>3. /\ snap' = [snap EXCEPT ![p] = [snap[p] EXCEPT ![r] = row]]
      /\ UNCHANGED <<disk, pc, life>>
  BY DEF Post
<1>4. /\ snap'[p] = [snap[p] EXCEPT ![r] = row]
      /\ \A q \in Procs \ {p} : snap'[q] = snap[q]
  BY <1>2, <1>3
<1>5. row.status = "posted" <=> outcome \in {"ok", "failed_record"}
  BY <1>1, Unmoved, AttemptedFields
<1>6. sent[r] <= faults
  BY <1>1 DEF SentInv, isTerminal, TerminalStatuses
<1>7. /\ \A q \in Rows \ {r} : sent'[q] = sent[q]
      /\ sent'[r] \in Nat
      /\ faults' \in Nat /\ faults <= faults'
      /\ sent'[r] <= 1 + faults'
      /\ outcome \notin {"ok", "failed_record"} => sent'[r] <= faults'
  <2>1. sent' = IF outcome \in {"ok", "lost"} /\ sent[r] < MaxSent
                THEN [sent EXCEPT ![r] = sent[r] + 1] ELSE sent
    BY DEF Post
  <2>2. faults' = IF outcome = "lost" THEN faults + 1 ELSE faults
    BY DEF Post
  <2>3. CASE outcome = "lost"
    BY <1>2, <1>6, <2>1, <2>2, <2>3
  <2>4. CASE outcome # "lost"
    <3>1. faults' = faults
      BY <2>2, <2>4
    <3>2. sent' = sent \/ (outcome = "ok" /\ sent' = [sent EXCEPT ![r] = sent[r] + 1])
      BY <2>1, <2>4
    <3> QED BY <1>2, <1>6, <3>1, <3>2
  <2> QED BY <2>3, <2>4
<1> HIDE DEF row
<1>8. AtMostOncePerFault'
  BY <1>2, <1>7 DEF SentInv, AtMostOncePerFault
<1>9. (\A w \in Workers : \A q \in DOMAIN snap[w] :
         snap[w][q].status # "posted" => sent[q] <= faults)'
  <2>1. ASSUME NEW w \in Workers, NEW q \in DOMAIN snap'[w], snap'[w][q].status # "posted"
        PROVE  sent'[q] <= faults'
    <3>1. w = p
      BY <1>1 DEF OneWorker
    <3>2. q \in Rows /\ q \in DOMAIN snap[p]
      BY <1>4, <2>1, <3>1, Unmoved
    <3>3. CASE q = r
      BY <1>1, <1>4, <1>5, <1>7, <2>1, <3>1, <3>3
    <3>4. CASE q # r
      <4>1. sent[q] <= faults
        BY <1>1, <1>4, <2>1, <3>1, <3>2, <3>4 DEF SentInv
      <4> QED BY <1>2, <1>7, <3>2, <3>4, <4>1
    <3> QED BY <3>3, <3>4
  <2> QED BY <2>1
<1>10. (\A q \in Rows : isRow(disk[q]) /\ disk[q].status # "posted" =>
          sent[q] <= faults \/ \E w \in Workers : HoldsNews(w, q))'
  <2>1. ASSUME NEW q \in Rows, isRow(disk[q]), disk[q].status # "posted"
        PROVE  sent'[q] <= faults' \/ HoldsNews(p, q)'
    <3>1. CASE q = r /\ outcome \in {"ok", "failed_record"}
      BY <1>1, <1>3, <1>4, <1>5, <3>1 DEF HoldsNews
    <3>2. CASE q = r /\ outcome \notin {"ok", "failed_record"}
      BY <1>7, <3>2
    <3>3. CASE q # r
      <4>1. sent[q] <= faults \/ HoldsNews(p, q)
        BY <1>1, <2>1 DEF SentInv, OneWorker
      <4>2. HoldsNews(p, q) => HoldsNews(p, q)'
        BY <1>1, <1>3, <1>4, <3>3 DEF HoldsNews
      <4> QED BY <1>2, <1>7, <3>3, <4>1, <4>2
    <3> QED BY <3>1, <3>2, <3>3
  <2> QED BY <1>1, <1>3, <2>1 DEF isRow
<1>11. (\A q \in Rows : life[q] = "new" =>
          /\ disk[q] = Absent
          /\ sent[q] = 0
          /\ \A v \in Procs : q \notin DOMAIN snap[v])'
  <2>1. \A v \in Procs : DOMAIN snap'[v] = DOMAIN snap[v]
    BY <1>4
  <2>2. life[r] # "new"
    BY <1>1 DEF SentInv
  <2> QED BY <1>3, <1>7, <2>1, <2>2 DEF SentInv
<1> QED BY <1>8, <1>9, <1>10, <1>11 DEF SentInv

(* replaceAll of the sole worker: what it writes is what it knows.         *)
LEMMA SaveSent ==
  ASSUME RowInv, SentInv, OneWorker, NEW p \in Procs,
         \/ EndPosting(p)
         \/ \E r \in Rows : OpenRow(p, r)
         \/ WriteRow(p)
  PROVE  SentInv'
<1>1. /\ p \in Workers /\ \A w \in Workers : w = p
      /\ UNCHANGED <<life, sent, faults>>
  BY Unmoved DEF EndPosting, OpenRow, WriteRow, PhaseOK, OneWorker
<1>2. /\ pc \in [Procs -> {"idle", "listing", "posting", "saving", "pruning"}]
      /\ todo \in [Procs -> SUBSET Rows]
      /\ snap = [q \in Procs |-> snap[q]]
      /\ disk \in [Rows -> RowType \cup {Absent, Torn}]
  BY DEF RowInv, TypeOK
<1>3. /\ \A q \in Procs \ {p} : snap'[q] = snap[q]
      /\ snap'[p] = snap[p] \/ DOMAIN snap'[p] = {}
  BY <1>2, EmptySnapshot DEF EndPosting, OpenRow, WriteRow, Forget
<1>4. AtMostOncePerFault'
  BY <1>1 DEF SentInv, AtMostOncePerFault
<1>5. (\A w \in Workers : \A q \in DOMAIN snap[w] :
         snap[w][q].status # "posted" => sent[q] <= faults)'
  BY <1>1, <1>3 DEF SentInv
<1>6. ASSUME NEW q \in Rows, isRow(disk'[q]), disk'[q].status # "posted"
      PROVE  sent[q] <= faults \/ HoldsNews(p, q)'
  <2>1. isRow(disk[q]) /\ disk[q].status # "posted" => sent[q] <= faults \/ HoldsNews(p, q)
    BY <1>1 DEF SentInv
  <2>2. CASE EndPosting(p)
    <3>1. HoldsNews(p, q) => HoldsNews(p, q)'
      BY <1>2, <2>2 DEF EndPosting, HoldsNews
    <3> QED BY <1>6, <2>1, <2>2, <3>1 DEF EndPosting
  <2>3. ASSUME NEW r \in Rows, OpenRow(p, r)
        PROVE  sent[q] <= faults \/ HoldsNews(p, q)'
    <3>1. q # r /\ disk'[q] = disk[q]
      BY <1>2, <1>6, <2>3 DEF OpenRow, isRow
    <3>2. HoldsNews(p, q) => HoldsNews(p, q)'
      BY <1>2, <2>3, <3>1 DEF OpenRow, HoldsNews
    <3> QED BY <1>6, <2>1, <3>1, <3>2
  <2>4. CASE WriteRow(p)
    <3>1. CASE fd[p] = q /\ fd[p] # Orphan
      <4>1. disk'[q] = snap[p][q] /\ q \in DOMAIN snap[p]
        BY <1>2, <1>6, <2>4, <3>1, Unmoved DEF WriteRow, Written, PhaseOK, isRow
      <4> QED BY <1>1, <1>6, <4>1 DEF SentInv
    <3>2. CASE ~ (fd[p] = q /\ fd[p] # Orphan)
      <4>1. disk'[q] = disk[q]
        BY <1>2, <2>4, <3>2 DEF WriteRow
      <4>2. HoldsNews(p, q) => HoldsNews(p, q)'
        BY <2>4 DEF WriteRow, HoldsNews
      <4> QED BY <1>6, <2>1, <4>1, <4>2
    <3> QED BY <3>1, <3>2
  <2> QED BY <2>2, <2>3, <2>4
<1>7. (\A q \in Rows : isRow(disk[q]) /\ disk[q].status # "posted" =>
         sent[q] <= faults \/ \E w \in Workers : HoldsNews(w, q))'
  BY <1>1, <1>6 DEF isRow
<1>8. ASSUME NEW q \in Rows, life[q] = "new"
      PROVE  disk'[q] = Absent /\ \A v \in Procs : q \notin DOMAIN snap'[v]
  <2>1. disk[q] = Absent /\ \A v \in Procs : q \notin DOMAIN snap[v]
    BY <1>8 DEF SentInv
  <2>2. disk'[q] = disk[q]
    BY <1>2, <2>1, Unmoved DEF EndPosting, OpenRow, WriteRow, PhaseOK
  <2> QED BY <1>3, <2>1, <2>2
<1> QED BY <1>1, <1>4, <1>5, <1>7, <1>8 DEF SentInv

(* Removing a dead letter publishes nothing and takes a row off the disk.  *)
LEMMA RemoveSent ==
  ASSUME RowInv, SentInv, NEW p \in Procs, NEW r \in Rows, RemoveRow(p, r)
  PROVE  SentInv'
<1>1. /\ pc[p] = "pruning"
      /\ disk' = [disk EXCEPT ![r] = Absent]
      /\ life' = [life EXCEPT ![r] = "pruned"]
      /\ UNCHANGED <<sent, faults>>
  BY DEF RemoveRow
<1>2. /\ pc \in [Procs -> {"idle", "listing", "posting", "saving", "pruning"}]
      /\ todo \in [Procs -> SUBSET Rows]
      /\ snap = [q \in Procs |-> snap[q]]
      /\ disk \in [Rows -> RowType \cup {Absent, Torn}]
      /\ life \in [Rows -> {"new", "enqueued", "pruned"}]
  BY DEF RowInv, TypeOK
<1>3. /\ \A q \in Procs \ {p} : pc'[q] = pc[q] /\ todo'[q] = todo[q] /\ snap'[q] = snap[q]
      /\ snap'[p] = snap[p] \/ DOMAIN snap'[p] = {}
  BY <1>2, EmptySnapshot DEF RemoveRow, Forget
<1>4. /\ \A q \in Rows \ {r} : disk'[q] = disk[q] /\ life'[q] = life[q]
      /\ disk'[r] = Absent /\ life'[r] = "pruned"
  BY <1>1, <1>2
<1>5. AtMostOncePerFault'
  BY <1>1 DEF SentInv, AtMostOncePerFault
<1>6. (\A w \in Workers : \A q \in DOMAIN snap[w] :
         snap[w][q].status # "posted" => sent[q] <= faults)'
  BY <1>1, <1>3 DEF SentInv, Procs
<1>7. (\A q \in Rows : isRow(disk[q]) /\ disk[q].status # "posted" =>
         sent[q] <= faults \/ \E w \in Workers : HoldsNews(w, q))'
  <2>1. \A w \in Workers : \A q \in Rows : HoldsNews(w, q) => HoldsNews(w, q)'
    BY <1>1, <1>3 DEF HoldsNews, Procs
  <2> QED BY <1>1, <1>4, <2>1 DEF isRow, SentInv
<1>8. (\A q \in Rows : life[q] = "new" =>
         /\ disk[q] = Absent
         /\ sent[q] = 0
         /\ \A v \in Procs : q \notin DOMAIN snap[v])'
  BY <1>1, <1>3, <1>4 DEF SentInv
<1> QED BY <1>5, <1>6, <1>7, <1>8 DEF SentInv

(* A crash may lose the news of one publication of each row, and is        *)
(* counted as a fault.                                                     *)
LEMMA CrashSent ==
  ASSUME RowInv, SentInv, NEW p \in Procs, Crash(p)
  PROVE  SentInv'
<1>1. /\ UNCHANGED <<disk, life, sent>>
      /\ faults' = faults + 1 /\ faults \in Nat
      /\ sent \in [Rows -> Nat]
      /\ snap = [q \in Procs |-> snap[q]]
  BY DEF Crash, RowInv, TypeOK
<1>2. \A q \in Procs : snap'[q] = snap[q] \/ DOMAIN snap'[q] = {}
  BY <1>1, EmptySnapshot DEF Crash, Forget
<1>3. \A q \in Rows : sent[q] <= faults'
  BY <1>1 DEF SentInv, AtMostOncePerFault
<1>4. AtMostOncePerFault'
  BY <1>1 DEF SentInv, AtMostOncePerFault
<1>5. (\A w \in Workers : \A q \in DOMAIN snap[w] :
         snap[w][q].status # "posted" => sent[q] <= faults)'
  BY <1>1, <1>2, <1>3, Unmoved DEF Procs
<1>6. (\A q \in Rows : isRow(disk[q]) /\ disk[q].status # "posted" =>
         sent[q] <= faults \/ \E w \in Workers : HoldsNews(w, q))'
  BY <1>1, <1>3
<1>7. (\A q \in Rows : life[q] = "new" =>
         /\ disk[q] = Absent
         /\ sent[q] = 0
         /\ \A v \in Procs : q \notin DOMAIN snap[v])'
  BY <1>1, <1>2 DEF SentInv
<1> QED BY <1>4, <1>5, <1>6, <1>7 DEF SentInv

(* Initially nothing was published, and no process holds anything.         *)
LEMMA SentInvInit == Init => SentInv
<1> SUFFICES ASSUME Init PROVE SentInv
  OBVIOUS
<1>1. /\ \A r \in Rows : sent[r] = 0 /\ disk[r] = Absent
      /\ \A p \in Procs : DOMAIN snap[p] = {}
      /\ faults = 0
  BY EmptySnapshot DEF Init
<1> QED BY <1>1 DEF SentInv, AtMostOncePerFault, isRow, Procs

(* Every step preserves SentInv when there is one worker, by the lemmas    *)
(* above.                                                                  *)
LEMMA SentInvNext ==
  ASSUME OneWorker
  PROVE  RowInv /\ SentInv /\ [Next]_vars => SentInv'
<1> SUFFICES ASSUME RowInv, SentInv, [Next]_vars PROVE SentInv'
  OBVIOUS
<1>1. ASSUME NEW r \in Rows, Enqueue(r) PROVE SentInv'
  BY <1>1, EnqueueSent
<1>2. ASSUME NEW p \in Procs, Run(p) PROVE SentInv'
  BY <1>2, OneWorker, ListSent, PostSent, SaveSent, RemoveSent DEF Run
<1>3. ASSUME NEW p \in Procs, Crash(p) PROVE SentInv'
  BY <1>3, CrashSent
<1>4. CASE UNCHANGED <<disk, pc, todo, snap, life, sent, faults>>
  BY <1>4 DEF SentInv, AtMostOncePerFault, HoldsNews, isRow
<1> QED BY <1>1, <1>2, <1>3, <1>4 DEF Next, Tick, vars, locals

(* With one worker, and whatever prunes and writers do beside it, a row is *)
(* published at most once plus once for each crash or lost answer: no      *)
(* retry, no rewrite of an untouched row and no prune publishes it twice.  *)
THEOREM PublishedAtMostOnce ==
  ASSUME OneWorker
  PROVE  Spec => []AtMostOncePerFault
<1>1. SentInv => AtMostOncePerFault
  BY DEF SentInv
<1> QED BY <1>1, RowInvInit, RowInvNext, SentInvInit, SentInvNext, PTL DEF Spec

-----------------------------------------------------------------------------
(* What is recorded as posted was published, for any number of workers.    *)

(* A row that carries a post identifier was published.                     *)
Honest(row, n) == row.status = "posted" /\ row.postId = "id" => n > 0

HonestInv ==
  /\ \A r \in Rows : isRow(disk[r]) => Honest(disk[r], sent[r])
  /\ \A p \in Procs : \A r \in DOMAIN snap[p] : Honest(snap[p][r], sent[r])

(* Only an attempt that went well leaves an identifier.                    *)
LEMMA AttemptedHonest ==
  ASSUME NEW row \in RowType, NEW t \in Nat, NEW outcome, outcome # "ok"
  PROVE  Honest(Attempted(row, outcome, t), 0)
<1> DEFINE inFlight == [row EXCEPT !.status = "posting"]
<1>1. inFlight \in RowType
  BY DEF RowType, Statuses
<1> HIDE DEF inFlight
<1>2. CASE outcome = "failed_record"
  <2>1. Attempted(row, outcome, t) = recordAttemptSuccess(inFlight, None)
    BY <1>2 DEF Attempted, inFlight
  <2>2. recordAttemptSuccess(inFlight, None).postId = None
    BY <1>1 DEF recordAttemptSuccess, RowType
  <2> QED BY <2>1, <2>2, QueueAssumption DEF Honest
<1>3. CASE outcome # "failed_record"
  <2>1. Attempted(row, outcome, t) = recordAttemptFailure(inFlight, t)
    BY <1>3 DEF Attempted, inFlight
  <2>2. recordAttemptFailure(inFlight, t).status # "posted"
    BY <1>1, FailureFields
  <2> QED BY <2>1, <2>2 DEF Honest
<1> QED BY <1>2, <1>3

(* A row that is written was in a snapshot or is honest, a row that is     *)
(* read was on disk, and no publication is taken back.                     *)
LEMMA HonestStep ==
  ASSUME RowInv, HonestInv,
         \A r \in Rows : sent[r] > 0 => sent'[r] > 0,
         \A r \in Rows : isRow(disk'[r]) =>
           \/ disk'[r] = disk[r]
           \/ \E p \in Procs : r \in DOMAIN snap[p] /\ disk'[r] = snap[p][r]
           \/ Honest(disk'[r], sent'[r]),
         \A p \in Procs : \A r \in DOMAIN snap'[p] :
           \/ r \in DOMAIN snap[p] /\ snap'[p][r] = snap[p][r]
           \/ r \in Rows /\ isRow(disk[r]) /\ snap'[p][r] = disk[r]
           \/ r \in Rows /\ Honest(snap'[p][r], sent'[r])
  PROVE  HonestInv'
<1>1. ASSUME NEW r \in Rows, isRow(disk'[r])
      PROVE  Honest(disk'[r], sent'[r])
  BY <1>1 DEF HonestInv, Honest
<1>2. ASSUME NEW p \in Procs, NEW r \in DOMAIN snap'[p]
      PROVE  Honest(snap'[p][r], sent'[r])
  <2>1. r \in DOMAIN snap[p] => r \in Rows
    BY Unmoved
  <2> QED BY <1>2, <2>1 DEF HonestInv, Honest
<1> QED BY <1>1, <1>2 DEF HonestInv, Honest, isRow

(* Every step preserves HonestInv.                                         *)
LEMMA HonestNext ==
  ASSUME MaxSent > 0
  PROVE  RowInv /\ HonestInv /\ [Next]_vars => HonestInv'
<1> SUFFICES ASSUME RowInv, HonestInv, [Next]_vars PROVE HonestInv'
  OBVIOUS
<1>1. /\ disk \in [Rows -> RowType \cup {Absent, Torn}] /\ sent \in [Rows -> Nat]
      /\ snap = [q \in Procs |-> snap[q]] /\ now \in Nat
  BY DEF RowInv, TypeOK
<1>2. ASSUME UNCHANGED sent,
             \A r \in Rows : isRow(disk'[r]) =>
               \/ disk'[r] = disk[r]
               \/ \E p \in Procs : r \in DOMAIN snap[p] /\ disk'[r] = snap[p][r],
             NEW q \in Procs, snap'[q] = snap[q] \/ DOMAIN snap'[q] = {},
             \A p \in Procs \ {q} : snap'[p] = snap[p]
      PROVE  HonestInv'
  <2>1. \A p \in Procs : \A r \in DOMAIN snap'[p] : r \in DOMAIN snap[p] /\ snap'[p][r] = snap[p][r]
    BY <1>2
  <2> QED BY <1>2, <2>1, HonestStep
<1>3. ASSUME NEW q \in Procs, Forget(q)
      PROVE  DOMAIN snap'[q] = {} /\ \A p \in Procs \ {q} : snap'[p] = snap[p]
  BY <1>1, <1>3, EmptySnapshot DEF Forget
<1>4. ASSUME NEW s \in Rows, Enqueue(s) PROVE HonestInv'
  <2>1. UNCHANGED snap
    BY <1>4 DEF Enqueue, EnqueueFresh, SinkPosted, SinkFailed, CrashInEnqueue, Create, locals
  <2>2. PICK file : /\ disk' = [disk EXCEPT ![s] = file]
                    /\ \/ sent' = sent /\ (file = Torn \/ file.status # "posted")
                       \/ sent' = [sent EXCEPT ![s] = 1]
    <3>1. CASE EnqueueFresh(s)
      BY <1>1, <3>1, CreatedRows DEF EnqueueFresh, Create
    <3>2. CASE SinkPosted(s)
      BY <3>2 DEF SinkPosted, Create
    <3>3. CASE SinkFailed(s)
      BY <1>1, <3>3, CreatedRows DEF SinkFailed, Create
    <3>4. CASE CrashInEnqueue(s)
      BY <3>4 DEF CrashInEnqueue, Create
    <3> QED BY <1>4, <3>1, <3>2, <3>3, <3>4 DEF Enqueue
  <2>3. \A r \in Rows \ {s} : disk'[r] = disk[r] /\ sent'[r] = sent[r]
    BY <1>1, <2>2
  <2>4. \A r \in Rows : sent[r] > 0 => sent'[r] > 0
    BY <1>1, <2>2
  <2>5. isRow(disk'[s]) => Honest(disk'[s], sent'[s])
    BY <1>1, <2>2 DEF Honest, isRow
  <2> QED BY <2>1, <2>3, <2>4, <2>5, HonestStep
<1>5. ASSUME NEW q \in Procs, Run(q) PROVE HonestInv'
  <2>1. CASE StartList(q) \/ EndPosting(q)
    BY <1>2, <2>1 DEF StartList, EndPosting
  <2>2. CASE ScanEmpty(q) \/ \E r \in Rows : ListThrows(q, r)
    BY <1>2, <1>3, <2>2 DEF ScanEmpty, ListThrows
  <2>3. CASE SelectDue(q)
    BY <1>2, <2>3 DEF SelectDue
  <2>4. CASE SelectDead(q)
    <3>1. UNCHANGED <<disk, sent>> /\ (Forget(q) \/ UNCHANGED snap)
      BY <2>4 DEF SelectDead
    <3> QED BY <1>2, <1>3, <3>1
  <2>5. ASSUME NEW s \in Rows, ListRow(q, s) PROVE HonestInv'
    <3>1. UNCHANGED <<disk, sent>> /\ \A p \in Procs \ {q} : snap'[p] = snap[p]
      BY <1>1, <2>5 DEF ListRow
    <3>2. CASE isRow(disk[s])
      <4>1. snap'[q] = [t \in DOMAIN snap[q] \cup {s} |-> IF t = s THEN disk[s] ELSE snap[q][t]]
        BY <1>1, <2>5, <3>2 DEF ListRow
      <4> QED BY <3>1, <3>2, <4>1, HonestStep
    <3>3. CASE ~ isRow(disk[s])
      BY <1>2, <2>5, <3>3 DEF ListRow
    <3> QED BY <3>2, <3>3
  <2>6. ASSUME NEW s \in Rows, NEW outcome \in PossibleOutcomes(s), Post(q, s, outcome)
        PROVE  HonestInv'
    <3> DEFINE row == Attempted(snap[q][s], outcome, started[q])
    <3>1. s \in DOMAIN snap[q]
      BY <2>6, Unmoved DEF Post, PhaseOK, isFirst
    <3>2. sent' = IF outcome \in {"ok", "lost"} /\ sent[s] < MaxSent
                  THEN [sent EXCEPT ![s] = sent[s] + 1] ELSE sent
      BY <2>6 DEF Post
    <3>3. /\ \A r \in Rows : sent[r] > 0 => sent'[r] > 0
          /\ outcome = "ok" => sent'[s] > 0
      BY <1>1, <3>2, WorkerAssumption
    <3>4. outcome # "ok" => Honest(row, 0)
      BY <3>1, Unmoved, AttemptedHonest
    <3>5. /\ UNCHANGED disk /\ snap' = [snap EXCEPT ![q] = [snap[q] EXCEPT ![s] = row]]
      BY <2>6 DEF Post
    <3> HIDE DEF row
    <3>6. Honest(row, sent'[s])
      BY <3>3, <3>4 DEF Honest
    <3>7. /\ snap'[q] = [snap[q] EXCEPT ![s] = row]
          /\ \A p \in Procs \ {q} : snap'[p] = snap[p]
      BY <1>1, <3>5
    <3>8. \A r \in DOMAIN snap'[q] :
            \/ r \in DOMAIN snap[q] /\ snap'[q][r] = snap[q][r]
            \/ r \in Rows /\ Honest(snap'[q][r], sent'[r])
      BY <3>1, <3>6, <3>7
    <3> QED BY <3>3, <3>5, <3>7, <3>8, HonestStep
  <2>7. ASSUME NEW s \in Rows, OpenRow(q, s) PROVE HonestInv'
    <3>1. \A r \in Rows : isRow(disk'[r]) => disk'[r] = disk[r]
      BY <1>1, <2>7 DEF OpenRow, isRow
    <3> QED BY <1>2, <2>7, <3>1 DEF OpenRow
  <2>8. CASE WriteRow(q)
    <3>1. UNCHANGED sent /\ (Forget(q) \/ UNCHANGED snap)
      BY <2>8 DEF WriteRow
    <3>2. \A r \in Rows : isRow(disk'[r]) =>
            \/ disk'[r] = disk[r]
            \/ r \in DOMAIN snap[q] /\ disk'[r] = snap[q][r]
      <4>1. CASE fd[q] = Orphan
        BY <2>8, <4>1 DEF WriteRow
      <4>2. CASE fd[q] # Orphan
        <5>1. fd[q] \in Rows /\ fd[q] \in DOMAIN snap[q]
          BY <2>8, <4>2, Unmoved DEF WriteRow, PhaseOK
        <5>2. PICK file \in Written(fd[q], snap[q][fd[q]]) : disk' = [disk EXCEPT ![fd[q]] = file]
          BY <2>8, <4>2 DEF WriteRow
        <5>3. file \in {snap[q][fd[q]], Torn}
          BY <5>2 DEF Written
        <5> QED BY <1>1, <5>1, <5>2, <5>3 DEF isRow
      <4> QED BY <4>1, <4>2
    <3> QED BY <1>2, <1>3, <3>1, <3>2
  <2>9. ASSUME NEW s \in Rows, RemoveRow(q, s) PROVE HonestInv'
    <3>1. UNCHANGED sent /\ (Forget(q) \/ UNCHANGED snap)
      BY <2>9 DEF RemoveRow
    <3>2. \A r \in Rows : isRow(disk'[r]) => disk'[r] = disk[r]
      BY <1>1, <2>9 DEF RemoveRow, isRow
    <3> QED BY <1>2, <1>3, <3>1, <3>2
  <2> QED BY <1>5, <2>1, <2>2, <2>3, <2>4, <2>5, <2>6, <2>7, <2>8, <2>9 DEF Run
<1>6. ASSUME NEW q \in Procs, Crash(q) PROVE HonestInv'
  BY <1>2, <1>3, <1>6 DEF Crash
<1>7. CASE UNCHANGED <<disk, snap, sent>>
  BY <1>7 DEF HonestInv, Honest, isRow
<1> QED BY <1>4, <1>5, <1>6, <1>7 DEF Next, Tick, vars, locals

(* A file that says posted, with an identifier, tells the truth: however   *)
(* many workers overlap and whichever of them writes last.                 *)
THEOREM PostedRowsWerePublished ==
  ASSUME MaxSent > 0
  PROVE  Spec => []PostedWasPublished
<1>1. Init => HonestInv
  BY EmptySnapshot DEF Init, HonestInv, isRow
<1>2. HonestInv => PostedWasPublished
  BY DEF HonestInv, Honest, PostedWasPublished
<1> QED BY <1>1, <1>2, RowInvInit, RowInvNext, HonestNext, PTL DEF Spec

-----------------------------------------------------------------------------
(* No row is lost, when there is one worker.                               *)

(* A file that is open for writing is empty until it is written.           *)
KeepInv ==
  /\ \A p \in Procs : fd[p] \in Rows => disk[fd[p]] = Torn
  /\ RowsSurvive

(* Every step preserves KeepInv.                                           *)
LEMMA KeepNext ==
  ASSUME OneWorker
  PROVE  RowInv /\ SentInv /\ KeepInv /\ [Next]_vars => KeepInv'
<1> SUFFICES ASSUME RowInv, SentInv, KeepInv, [Next]_vars PROVE KeepInv'
  OBVIOUS
<1>1. /\ disk \in [Rows -> RowType \cup {Absent, Torn}] /\ faults \in Nat
      /\ fd \in [Procs -> Rows \cup {None, Orphan}]
      /\ life \in [Rows -> {"new", "enqueued", "pruned"}] /\ now \in Nat
  BY DEF RowInv, TypeOK
<1>2. ASSUME NEW p \in Procs, fd[p] \in Rows
      PROVE  /\ p \in Workers /\ pc[p] = "saving" /\ fd[p] \in DOMAIN snap[p]
             /\ life[fd[p]] # "new" /\ disk[fd[p]] = Torn
             /\ \A q \in Procs \ {p} : fd[q] \notin Rows
  <2>1. /\ p \in Workers /\ pc[p] = "saving" /\ fd[p] \in DOMAIN snap[p]
    BY <1>2, Unmoved DEF PhaseOK
  <2>2. \A q \in Procs : fd[q] \in Rows => q \in Workers
    BY Unmoved DEF PhaseOK
  <2> QED BY <1>2, <2>1, <2>2, OneWorker DEF KeepInv, SentInv, OneWorker
<1>3. ASSUME UNCHANGED <<disk, life, fd, faults>>
      PROVE  KeepInv'
  BY <1>3 DEF KeepInv, RowsSurvive, isRow
<1>4. ASSUME NEW s \in Rows, Enqueue(s) PROVE KeepInv'
  <2>1. life[s] = "new" /\ life' = [life EXCEPT ![s] = "enqueued"] /\ UNCHANGED fd
    BY <1>4 DEF Enqueue, EnqueueFresh, SinkPosted, SinkFailed, CrashInEnqueue, Create, locals
  <2>2. PICK file : /\ disk' = [disk EXCEPT ![s] = file]
                    /\ \/ file \in RowType /\ faults' = faults
                       \/ file = Torn /\ faults' = faults + 1
    <3>1. CASE EnqueueFresh(s)
      BY <1>1, <3>1, CreatedRows DEF EnqueueFresh, Create
    <3>2. CASE SinkPosted(s)
      BY <1>1, <3>2, CreatedRows DEF SinkPosted, Create
    <3>3. CASE SinkFailed(s)
      BY <1>1, <3>3, CreatedRows DEF SinkFailed, Create
    <3>4. CASE CrashInEnqueue(s)
      BY <3>4 DEF CrashInEnqueue, Create
    <3> QED BY <1>4, <3>1, <3>2, <3>3, <3>4 DEF Enqueue
  <2>3. \A p \in Procs : fd[p] # s
    BY <1>2, <2>1
  <2>4. isRow(disk'[s]) \/ (disk'[s] = Torn /\ faults' > 0)
    BY <1>1, <2>2, WorkerAssumption DEF isRow
  <2>5. /\ \A r \in Rows \ {s} : disk'[r] = disk[r] /\ life'[r] = life[r]
        /\ faults > 0 => faults' > 0
    BY <1>1, <2>1, <2>2
  <2> QED BY <2>1, <2>3, <2>4, <2>5 DEF KeepInv, RowsSurvive, isRow
<1>5. ASSUME NEW p \in Procs, Run(p) PROVE KeepInv'
  <2>1. ASSUME NEW s \in Rows, OpenRow(p, s) PROVE KeepInv'
    <3>1. /\ disk' = [disk EXCEPT ![s] = Torn] /\ fd' = [fd EXCEPT ![p] = s]
          /\ UNCHANGED <<life, faults>> /\ fd[p] = None
      BY <2>1 DEF OpenRow
    <3>2. /\ \A r \in Rows \ {s} : disk'[r] = disk[r]
          /\ disk'[s] = Torn /\ fd'[p] = s
          /\ \A q \in Procs \ {p} : fd'[q] = fd[q]
      BY <1>1, <3>1
    <3>3. \A r \in Rows : (\A q \in Procs : fd'[q] # r) => r # s /\ (\A q \in Procs : fd[q] # r)
      BY <3>1, <3>2, WorkerAssumption
    <3> QED BY <3>1, <3>2, <3>3 DEF KeepInv, RowsSurvive, isRow
  <2>2. CASE WriteRow(p)
    <3>1. /\ fd' = [fd EXCEPT ![p] = None] /\ UNCHANGED <<life, faults>>
          /\ fd[p] # None
      BY <2>2 DEF WriteRow
    <3>2. CASE fd[p] = Orphan
      <4>1. UNCHANGED disk
        BY <2>2, <3>2 DEF WriteRow
      <4>2. /\ \A r \in Rows : (\A q \in Procs : fd'[q] # r) => (\A q \in Procs : fd[q] # r)
            /\ \A q \in Procs : fd'[q] \in Rows => fd'[q] = fd[q]
        BY <1>1, <3>1, <3>2, WorkerAssumption
      <4> QED BY <3>1, <4>1, <4>2 DEF KeepInv, RowsSurvive, isRow
    <3>3. CASE fd[p] # Orphan
      <4> DEFINE s == fd[p]
      <4>1. s \in Rows
        BY <1>1, <3>1, <3>3
      <4>2. disk' = [disk EXCEPT ![s] = snap[p][s]]
        BY <1>2, <2>2, <3>3, <4>1 DEF WriteRow, Written
      <4>3. snap[p][s] \in RowType
        BY <1>2, <4>1, Unmoved
      <4>4. isRow(disk'[s]) /\ \A r \in Rows \ {s} : disk'[r] = disk[r]
        BY <1>1, <4>1, <4>2, <4>3, WorkerAssumption DEF isRow
      <4>5. /\ \A q \in Procs : fd'[q] \notin Rows
            /\ \A q \in Procs, r \in Rows \ {s} : fd[q] # r
        <5>1. \A q \in Procs \ {p} : fd[q] \notin Rows
          BY <1>2, <4>1
        <5> QED BY <1>1, <3>1, <5>1, WorkerAssumption
      <4> QED BY <3>1, <4>4, <4>5 DEF KeepInv, RowsSurvive, isRow
    <3> QED BY <3>2, <3>3
  <2>3. ASSUME NEW s \in Rows, RemoveRow(p, s) PROVE KeepInv'
    <3>1. /\ disk' = [disk EXCEPT ![s] = Absent]
          /\ life' = [life EXCEPT ![s] = "pruned"]
          /\ fd' = [q \in Procs |-> IF fd[q] = s THEN Orphan ELSE fd[q]]
          /\ UNCHANGED faults
      BY <2>3 DEF RemoveRow
    <3>2. /\ \A r \in Rows \ {s} : disk'[r] = disk[r] /\ life'[r] = life[r]
          /\ life'[s] = "pruned"
      BY <1>1, <3>1
    <3>3. \A q \in Procs, r \in Rows : fd'[q] = r <=> (fd[q] = r /\ r # s)
      BY <3>1, WorkerAssumption
    <3> QED BY <3>1, <3>2, <3>3 DEF KeepInv, RowsSurvive, isRow
  <2>4. CASE UNCHANGED <<disk, life, fd, faults>>
    BY <1>3, <2>4
  <2>5. ASSUME NEW s \in Rows, NEW outcome, Post(p, s, outcome) PROVE KeepInv'
    <3>1. UNCHANGED <<disk, life, fd>> /\ (faults' = faults \/ faults' = faults + 1)
      BY <2>5 DEF Post
    <3> QED BY <1>1, <3>1 DEF KeepInv, RowsSurvive, isRow
  <2>6. ScanEmpty(p) \/ SelectDue(p) \/ SelectDead(p) \/ StartList(p) \/ EndPosting(p)
          => UNCHANGED <<disk, life, fd, faults>>
    BY DEF ScanEmpty, SelectDue, SelectDead, StartList, EndPosting
  <2>7. \A r \in Rows : ListRow(p, r) \/ ListThrows(p, r) => UNCHANGED <<disk, life, fd, faults>>
    BY DEF ListRow, ListThrows
  <2> QED BY <1>5, <2>1, <2>2, <2>3, <2>4, <2>5, <2>6, <2>7 DEF Run
<1>6. ASSUME NEW p \in Procs, Crash(p) PROVE KeepInv'
  <2>1. /\ UNCHANGED <<disk, life>> /\ faults' > 0
        /\ fd' = [fd EXCEPT ![p] = None]
    BY <1>1, <1>6 DEF Crash
  <2>2. \A q \in Procs : fd'[q] \in Rows => fd'[q] = fd[q]
    BY <1>1, <2>1, WorkerAssumption
  <2>3. ASSUME NEW r \in Rows, life[r] = "enqueued", \A q \in Procs : fd'[q] # r
        PROVE  isRow(disk[r]) \/ disk[r] = Torn
    <3>1. CASE fd[p] = r
      BY <1>2, <3>1
    <3>2. CASE fd[p] # r
      <4>1. \A q \in Procs : fd[q] # r
        BY <1>1, <2>1, <2>3, <3>2
      <4> QED BY <2>3, <4>1 DEF KeepInv, RowsSurvive
    <3> QED BY <3>1, <3>2
  <2> QED BY <2>1, <2>2, <2>3 DEF KeepInv, RowsSurvive, isRow
<1>7. CASE UNCHANGED <<disk, life, fd, faults>>
  BY <1>3, <1>7
<1> QED BY <1>4, <1>5, <1>6, <1>7 DEF Next, Tick, vars, locals

(* With one worker a row leaves the queue only by prune, and a file that   *)
(* nobody is writing is whole unless somebody died.                        *)
THEOREM NoRowIsLost ==
  ASSUME OneWorker
  PROVE  Spec => []RowsSurvive
<1>1. Init => KeepInv
  BY WorkerAssumption DEF Init, KeepInv, RowsSurvive
<1>2. KeepInv => RowsSurvive
  BY DEF KeepInv
<1> QED BY <1>1, <1>2, RowInvInit, RowInvNext, SentInvInit, SentInvNext, KeepNext, PTL DEF Spec

-----------------------------------------------------------------------------
(* With one worker the rows live as QueueLifecycle says.                   *)

(* A copy of a row that agrees with the file it was read from: prune may   *)
(* have taken the file away since, but only if the row is dead.            *)
Same(old, new) == old = new \/ (old = Absent /\ new.status = "failed_dead")

(* A copy that is at most one attempt ahead of the file.                   *)
Follows(old, new) ==
  \/ Same(old, new)
  \/ isRow(old) /\ ~ isTerminal(old) /\ new.attempts = old.attempts + 1

(* How the copy that worker w holds of r relates to the file of r, phase   *)
(* by phase: a row to be posted is as its file says, and due; a row to be  *)
(* saved is at most one attempt ahead; a saved row is what the file holds. *)
Tracks(w, r) ==
  /\ pc[w] \in {"listing", "posting", "saving"}
  /\ pc[w] = "listing" => Same(disk[r], snap[w][r])
  /\ pc[w] = "posting" =>
       IF r \in todo[w] THEN disk[r] = snap[w][r] /\ isDue(disk[r], now)
                        ELSE Follows(disk[r], snap[w][r])
  /\ pc[w] = "saving" =>
       IF r \in todo[w] THEN Follows(disk[r], snap[w][r])
                        ELSE fd[w] # r /\ isRow(disk[r]) => disk[r] = snap[w][r]

(* Wherever there is a copy of row r, it is dead.                          *)
Dead(r) ==
  /\ isRow(disk[r]) => disk[r].status = "failed_dead"
  /\ \A w \in Workers : r \in DOMAIN snap[w] => snap[w][r].status = "failed_dead"

LifeInv ==
  /\ \A w \in Workers : \A r \in DOMAIN snap[w] : Tracks(w, r)
  /\ \A p \in Pruners : \A r \in Prunable(snap[p]) : Dead(r)
  /\ \A p \in Procs : pc[p] = "pruning" => p \in Pruners /\ todo[p] \subseteq Prunable(snap[p])

(* All that is known of a queue with one worker.                           *)
OneWorkerInv == RowInv /\ SentInv /\ KeepInv /\ LifeInv

(* What RowInv says of the files and of time.                              *)
LEMMA StateTypes ==
  ASSUME RowInv
  PROVE  /\ disk \in [Rows -> RowType \cup {Absent, Torn}]
         /\ fd \in [Procs -> Rows \cup {None, Orphan}]
         /\ pc \in [Procs -> {"idle", "listing", "posting", "saving", "pruning"}]
         /\ todo \in [Procs -> SUBSET Rows]
         /\ snap = [q \in Procs |-> snap[q]]
         /\ started \in [Procs -> Nat]
         /\ life \in [Rows -> {"new", "enqueued", "pruned"}]
         /\ now \in Nat /\ faults \in Nat /\ sent \in [Rows -> Nat]
BY DEF RowInv, TypeOK

(* What holds of a row's copies goes on to hold when the file and the      *)
(* process are left as they are; time may pass.                            *)
LEMMA TracksKept ==
  ASSUME RowInv, NEW w \in Workers, NEW r \in DOMAIN snap[w], Tracks(w, r),
         snap'[w] = snap[w], pc'[w] = pc[w], todo'[w] = todo[w],
         fd'[w] = fd[w] \/ fd[w] # r,
         disk'[r] = disk[r], now' \in {now, now + 1}
  PROVE  Tracks(w, r)'
<1>1. ASSUME pc[w] = "posting", r \in todo[w]
      PROVE  isDue(disk'[r], now')
  <2>1. w \in Procs /\ snap[w][r] \in RowType
    BY Unmoved DEF Procs
  <2>2. disk[r].nextAttemptAt \in Nat /\ now \in Nat
    BY <1>1, <2>1, StateTypes DEF Tracks, RowType
  <2> QED BY <1>1, <2>2 DEF Tracks, isDue
<1> QED BY <1>1 DEF Tracks

(* And so when a dead row is taken away.                                   *)
LEMMA TracksGone ==
  ASSUME NEW w \in Workers, NEW r \in DOMAIN snap[w], Tracks(w, r),
         snap'[w] = snap[w], pc'[w] = pc[w], todo'[w] = todo[w],
         disk'[r] = Absent, snap[w][r].status = "failed_dead"
  PROVE  Tracks(w, r)'
<1>1. pc[w] = "posting" => r \notin todo[w]
  BY DEF Tracks, isDue, isTerminal, TerminalStatuses
<1>2. Same(disk'[r], snap'[w][r])
  BY DEF Same
<1> QED BY <1>1, <1>2 DEF Tracks, Follows, isRow

(* What any step must establish for LifeInv: files are only written by     *)
(* whoever creates a row or from a worker's snapshot; what a worker knows  *)
(* of a row it read from the file, or it has attempted it; and what a      *)
(* prune has just found dead is dead.                                      *)
LEMMA LifeStep ==
  ASSUME RowInv, SentInv, LifeInv,
         \A w \in Workers : \A r \in DOMAIN snap'[w] : Tracks(w, r)',
         \A p \in Pruners : \A r \in Prunable(snap'[p]) : r \in Prunable(snap[p]) \/ Dead(r),
         \A r \in Rows : isRow(disk'[r]) =>
           \/ disk'[r] = disk[r] \/ life[r] = "new"
           \/ \E w \in Workers : r \in DOMAIN snap[w] /\ disk'[r] = snap[w][r],
         \A w \in Workers : \A r \in DOMAIN snap'[w] :
           \/ r \in DOMAIN snap[w] /\ snap'[w][r] = snap[w][r]
           \/ r \in DOMAIN snap[w] /\ snap[w][r].status # "failed_dead"
           \/ isRow(disk[r]) /\ snap'[w][r] = disk[r],
         \A p \in Procs : pc'[p] = "pruning" =>
           p \in Pruners /\ todo'[p] \subseteq Prunable(snap'[p]),
         \A p \in Procs : \A r \in DOMAIN snap'[p] : r \in Rows /\ life[r] # "new"
  PROVE  LifeInv'
<1>1. ASSUME NEW p \in Pruners, NEW r \in Prunable(snap'[p])
      PROVE  Dead(r)'
  <2>1. Dead(r)
    BY DEF LifeInv
  <2>2. r \in Rows /\ life[r] # "new"
    BY DEF Prunable, Procs
  <2>3. isRow(disk'[r]) => disk'[r].status = "failed_dead"
    BY <2>1, <2>2 DEF Dead
  <2>4. ASSUME NEW w \in Workers, r \in DOMAIN snap'[w]
        PROVE  snap'[w][r].status = "failed_dead"
    BY <2>1, <2>4 DEF Dead
  <2> QED BY <2>3, <2>4 DEF Dead, isRow
<1> QED BY <1>1 DEF LifeInv, Prunable

(* A new row is in nobody's snapshot.                                      *)
LEMMA KnownRows ==
  ASSUME RowInv, SentInv, NEW p \in Procs, NEW r \in DOMAIN snap[p]
  PROVE  r \in Rows /\ life[r] # "new"
BY Unmoved DEF SentInv

(* The writers of new rows preserve LifeInv.                               *)
LEMMA EnqueueLife ==
  ASSUME RowInv, SentInv, LifeInv, NEW s \in Rows, Enqueue(s)
  PROVE  LifeInv'
<1>1. /\ life[s] = "new" /\ life' = [life EXCEPT ![s] = "enqueued"]
      /\ \E file : disk' = [disk EXCEPT ![s] = file]
      /\ UNCHANGED <<now, pc, todo, snap, fd>>
  BY DEF Enqueue, EnqueueFresh, SinkPosted, SinkFailed, CrashInEnqueue, Create, locals
<1>2. \A r \in Rows \ {s} : disk'[r] = disk[r]
  BY <1>1, StateTypes
<1>3. ASSUME NEW w \in Workers, NEW r \in DOMAIN snap'[w]
      PROVE  Tracks(w, r)'
  <2>1. r \in DOMAIN snap[w] /\ r \in Rows \ {s}
    BY <1>1, KnownRows DEF Procs
  <2>2. Tracks(w, r)
    BY <2>1 DEF LifeInv
  <2> QED BY <1>1, <1>2, <2>1, <2>2, TracksKept
<1>4. \A p \in Procs : \A r \in DOMAIN snap'[p] : r \in Rows /\ life[r] # "new"
  BY <1>1, KnownRows
<1>5. \A p \in Procs : pc'[p] = "pruning" =>
        p \in Pruners /\ todo'[p] \subseteq Prunable(snap'[p])
  BY <1>1 DEF LifeInv
<1> QED BY <1>1, <1>2, <1>3, <1>4, <1>5, LifeStep

(* A step of process p that touches neither files nor time preserves       *)
(* LifeInv if what p holds then is as it should be.                        *)
LEMMA OwnLife ==
  ASSUME RowInv, SentInv, LifeInv, NEW p \in Procs,
         UNCHANGED <<disk, now, life, fd>>,
         \A q \in Procs \ {p} : pc'[q] = pc[q] /\ todo'[q] = todo[q] /\ snap'[q] = snap[q],
         p \in Workers => \A r \in DOMAIN snap'[p] : Tracks(p, r)',
         p \in Pruners => \A r \in Prunable(snap'[p]) : r \in Prunable(snap[p]) \/ Dead(r),
         \A r \in DOMAIN snap'[p] :
           \/ r \in DOMAIN snap[p] /\ snap'[p][r] = snap[p][r]
           \/ r \in DOMAIN snap[p] /\ snap[p][r].status # "failed_dead"
           \/ r \in Rows /\ isRow(disk[r]) /\ snap'[p][r] = disk[r],
         pc'[p] = "pruning" => p \in Pruners /\ todo'[p] \subseteq Prunable(snap'[p])
  PROVE  LifeInv'
<1>1. ASSUME NEW w \in Workers, NEW r \in DOMAIN snap'[w]
      PROVE  Tracks(w, r)'
  <2>1. CASE w = p
    BY <2>1
  <2>2. CASE w # p
    <3>1. r \in DOMAIN snap[w] /\ snap'[w] = snap[w] /\ Tracks(w, r)
      BY <2>2 DEF LifeInv, Procs
    <3>2. pc'[w] = pc[w] /\ todo'[w] = todo[w] /\ fd'[w] = fd[w]
      BY <2>2 DEF Procs
    <3> QED BY <3>1, <3>2, TracksKept
  <2> QED BY <2>1, <2>2
<1>2. \A q \in Pruners : \A r \in Prunable(snap'[q]) : r \in Prunable(snap[q]) \/ Dead(r)
  BY DEF Procs
<1>3. \A w \in Workers : \A r \in DOMAIN snap'[w] :
        \/ r \in DOMAIN snap[w] /\ snap'[w][r] = snap[w][r]
        \/ r \in DOMAIN snap[w] /\ snap[w][r].status # "failed_dead"
        \/ isRow(disk[r]) /\ snap'[w][r] = disk[r]
  BY DEF Procs
<1>4. \A q \in Procs : pc'[q] = "pruning" =>
        q \in Pruners /\ todo'[q] \subseteq Prunable(snap'[q])
  <2>1. ASSUME NEW q \in Procs, q # p, pc'[q] = "pruning"
        PROVE  q \in Pruners /\ todo'[q] \subseteq Prunable(snap'[q])
    BY <2>1 DEF LifeInv
  <2> QED BY <2>1
<1>5. \A q \in Procs : \A r \in DOMAIN snap'[q] : r \in Rows /\ life[r] # "new"
  <2>1. \A r \in Rows : isRow(disk[r]) => life[r] # "new"
    BY DEF SentInv, isRow
  <2> QED BY <2>1, KnownRows
<1> QED BY ONLY RowInv, SentInv, LifeInv, UNCHANGED disk, <1>1, <1>2, <1>3, <1>4, <1>5, LifeStep

(* Forgetting everything, for whatever reason, preserves LifeInv.          *)
LEMMA ForgetLife ==
  ASSUME RowInv, SentInv, LifeInv, NEW p \in Procs, Forget(p),
         UNCHANGED <<disk, now, life, fd>>
  PROVE  LifeInv'
<1>1. /\ DOMAIN snap'[p] = {} /\ pc'[p] = "idle"
      /\ \A q \in Procs \ {p} : pc'[q] = pc[q] /\ todo'[q] = todo[q] /\ snap'[q] = snap[q]
  BY StateTypes, EmptySnapshot DEF Forget
<1> QED BY <1>1, OwnLife DEF Prunable

(* A row that is dead on disk is dead in the worker's memory as well.      *)
LEMMA DeadOnDisk ==
  ASSUME RowInv, KeepInv, LifeInv, NEW r \in Rows,
         isRow(disk[r]), disk[r].status = "failed_dead"
  PROVE  Dead(r)
<1>1. ASSUME NEW w \in Workers, r \in DOMAIN snap[w]
      PROVE  snap[w][r].status = "failed_dead"
  <2>1. Tracks(w, r)
    BY <1>1 DEF LifeInv
  <2>2. isTerminal(disk[r])
    BY DEF isTerminal, TerminalStatuses
  <2>3. fd[w] # r
    BY DEF KeepInv, isRow, Procs
  <2> QED BY <2>1, <2>2, <2>3 DEF Tracks, Follows, Same, isRow, isDue
<1> QED BY <1>1 DEF Dead

(* Listing preserves LifeInv: a copy is made of the file.                  *)
LEMMA ListLife ==
  ASSUME RowInv, SentInv, KeepInv, LifeInv, NEW p \in Procs,
         \/ StartList(p)
         \/ \E s \in Rows : ListRow(p, s) \/ ListThrows(p, s)
         \/ ScanEmpty(p)
  PROVE  LifeInv'
<1> USE StateTypes
<1>1. CASE StartList(p)
  <2>1. /\ pc'[p] = "listing" /\ snap' = snap /\ UNCHANGED <<disk, now, life, fd>>
        /\ \A q \in Procs \ {p} : pc'[q] = pc[q] /\ todo'[q] = todo[q]
        /\ pc[p] = "idle"
    BY <1>1 DEF StartList
  <2>2. p \in Workers => DOMAIN snap[p] = {}
    BY <2>1 DEF LifeInv, Tracks
  <2> QED BY <2>1, <2>2, OwnLife
<1>2. ASSUME NEW s \in Rows, ListRow(p, s)
      PROVE  LifeInv'
  <2>1. /\ pc[p] = "listing" /\ pc' = pc /\ UNCHANGED <<disk, now, life, fd>>
        /\ \A q \in Procs \ {p} : todo'[q] = todo[q] /\ snap'[q] = snap[q]
    BY <1>2 DEF ListRow
  <2>2. snap'[p] = IF isRow(disk[s])
                   THEN [r \in DOMAIN snap[p] \cup {s} |-> IF r = s THEN disk[s] ELSE snap[p][r]]
                   ELSE snap[p]
    BY <1>2 DEF ListRow
  <2>3. \A r \in DOMAIN snap'[p] :
          \/ r \in DOMAIN snap[p] /\ snap'[p][r] = snap[p][r]
          \/ r \in Rows /\ isRow(disk[r]) /\ snap'[p][r] = disk[r]
    BY <2>2
  <2>4. ASSUME p \in Workers, NEW r \in DOMAIN snap'[p]
        PROVE  Tracks(p, r)'
    <3>1. Same(disk[r], snap'[p][r])
      BY <2>1, <2>3, <2>4 DEF LifeInv, Tracks, Same
    <3> QED BY <2>1, <3>1 DEF Tracks
  <2>5. ASSUME NEW r \in Prunable(snap'[p])
        PROVE  r \in Prunable(snap[p]) \/ Dead(r)
    BY <2>3, <2>5, DeadOnDisk DEF Prunable
  <2> QED BY <2>1, <2>3, <2>4, <2>5, OwnLife
<1>3. ASSUME NEW s \in Rows, ListThrows(p, s)
      PROVE  LifeInv'
  BY <1>3, ForgetLife DEF ListThrows
<1>4. CASE ScanEmpty(p)
  BY <1>4, ForgetLife DEF ScanEmpty
<1> QED BY <1>1, <1>2, <1>3, <1>4

(* A batch holds rows that are due.                                        *)
LEMMA BatchIsDue ==
  ASSUME NEW rows, NEW t, NEW batch \in Batches(rows, t), NEW r \in batch
  PROVE  r \in DOMAIN rows /\ isDue(rows[r], t)
BY DEF Batches

(* processQueue preserves LifeInv: only rows to be posted are attempted,   *)
(* each once.                                                              *)
LEMMA ProcessLife ==
  ASSUME RowInv, SentInv, KeepInv, LifeInv, NEW p \in Procs,
         \/ SelectDue(p)
         \/ \E s \in Rows : \E outcome \in PossibleOutcomes(s) : Post(p, s, outcome)
         \/ EndPosting(p)
  PROVE  LifeInv'
<1> USE StateTypes
<1>1. CASE SelectDue(p)
  <2>1. PICK batch \in Batches(snap[p], now) : todo' = [todo EXCEPT ![p] = batch]
    BY <1>1 DEF SelectDue
  <2>2. /\ p \in Workers /\ pc[p] = "listing" /\ pc'[p] = "posting"
        /\ snap' = snap /\ UNCHANGED <<disk, now, life, fd>>
        /\ \A q \in Procs \ {p} : pc'[q] = pc[q] /\ todo'[q] = todo[q]
        /\ todo'[p] = batch
    BY <1>1, <2>1 DEF SelectDue
  <2>3. ASSUME NEW r \in DOMAIN snap[p]
        PROVE  Tracks(p, r)'
    <3>1. Same(disk[r], snap[p][r])
      BY <2>2 DEF LifeInv, Tracks
    <3>2. r \in batch => disk[r] = snap[p][r] /\ isDue(disk[r], now)
      BY <3>1, BatchIsDue DEF Same, isDue, isTerminal, TerminalStatuses
    <3> QED BY <2>2, <3>1, <3>2 DEF Tracks, Follows, isDue, isRow
  <2> QED BY <2>2, <2>3, OwnLife, WorkerAssumption
<1>2. ASSUME NEW s \in Rows, NEW outcome \in PossibleOutcomes(s), Post(p, s, outcome)
      PROVE  LifeInv'
  <2> DEFINE row == Attempted(snap[p][s], outcome, started[p])
  <2>1. /\ pc[p] = "posting" /\ p \in Workers /\ s \in todo[p] /\ s \in DOMAIN snap[p]
        /\ ~ isTerminal(snap[p][s]) /\ snap[p][s] \in RowType
    BY <1>2, Unmoved DEF Post, PhaseOK, isFirst
  <2>2. /\ pc' = pc /\ UNCHANGED <<disk, now, life, fd>>
        /\ todo'[p] = todo[p] \ {s}
        /\ snap'[p] = [snap[p] EXCEPT ![s] = row]
        /\ \A q \in Procs \ {p} : todo'[q] = todo[q] /\ snap'[q] = snap[q]
    BY <1>2 DEF Post
  <2>3. row.attempts = snap[p][s].attempts + 1
    BY <2>1, Unmoved, AttemptedFields
  <2>4. snap[p][s].status # "failed_dead" /\ isRow(snap[p][s])
    BY <2>1, WorkerAssumption DEF isTerminal, TerminalStatuses, isRow
  <2> HIDE DEF row
  <2>5. ASSUME NEW r \in DOMAIN snap'[p]
        PROVE  Tracks(p, r)'
    <3>1. r \in DOMAIN snap[p] /\ Tracks(p, r)
      BY <2>1, <2>2 DEF LifeInv
    <3>2. CASE r = s
      <4>1. Follows(disk[s], row)
        BY <2>1, <2>3, <2>4, <3>1, <3>2 DEF Tracks, Follows
      <4> QED BY <2>1, <2>2, <3>2, <4>1 DEF Tracks, Follows, Same, isRow, isTerminal
    <3>3. CASE r # s
      <4>1. snap'[p][r] = snap[p][r] /\ (r \in todo'[p] <=> r \in todo[p])
        BY <2>2, <3>1, <3>3
      <4> QED BY <2>1, <2>2, <3>1, <4>1 DEF Tracks, Follows, Same, isRow, isTerminal, isDue
    <3> QED BY <3>2, <3>3
  <2>6. \A r \in DOMAIN snap'[p] :
          \/ r \in DOMAIN snap[p] /\ snap'[p][r] = snap[p][r]
          \/ r \in DOMAIN snap[p] /\ snap[p][r].status # "failed_dead"
    BY <2>1, <2>2, <2>4
  <2> QED BY <2>1, <2>2, <2>5, <2>6, OwnLife, WorkerAssumption
<1>3. CASE EndPosting(p)
  <2>1. /\ pc[p] = "posting" /\ p \in Workers /\ todo[p] = {}
        /\ pc'[p] = "saving" /\ todo'[p] = DOMAIN snap[p]
        /\ snap' = snap /\ UNCHANGED <<disk, now, life, fd>>
        /\ \A q \in Procs \ {p} : pc'[q] = pc[q] /\ todo'[q] = todo[q]
    BY <1>3, Unmoved DEF EndPosting, PhaseOK
  <2>2. ASSUME NEW r \in DOMAIN snap[p]
        PROVE  Tracks(p, r)'
    BY <2>1 DEF LifeInv, Tracks, Follows, Same, isRow, isTerminal
  <2> QED BY <2>1, <2>2, OwnLife, WorkerAssumption
<1> QED BY <1>1, <1>2, <1>3

(* replaceAll preserves LifeInv: what it has written is what it holds.     *)
LEMMA SaveLife ==
  ASSUME RowInv, SentInv, KeepInv, LifeInv, OneWorker, NEW p \in Procs,
         (\E s \in Rows : OpenRow(p, s)) \/ WriteRow(p)
  PROVE  LifeInv'
<1> USE StateTypes
<1>1. /\ p \in Workers /\ p \notin Pruners /\ pc[p] = "saving" /\ \A w \in Workers : w = p
      /\ UNCHANGED <<now, life>>
      /\ todo[p] \subseteq DOMAIN snap[p]
      /\ \A q \in Procs \ {p} : /\ pc'[q] = pc[q] /\ todo'[q] = todo[q]
                                /\ snap'[q] = snap[q] /\ fd'[q] = fd[q]
  BY Unmoved, WorkerAssumption DEF OpenRow, WriteRow, Forget, PhaseOK, OneWorker
<1>2. ASSUME \A r \in DOMAIN snap'[p] : Tracks(p, r)',
             snap'[p] = snap[p] \/ DOMAIN snap'[p] = {},
             pc'[p] # "pruning",
             \A r \in Rows : isRow(disk'[r]) =>
               disk'[r] = disk[r] \/ (r \in DOMAIN snap[p] /\ disk'[r] = snap[p][r])
      PROVE  LifeInv'
  <2>1. \A q \in Pruners : q # p /\ q \in Procs
    BY <1>1 DEF Procs
  <2>2. \A q \in Procs : pc'[q] = "pruning" => q \in Pruners /\ todo'[q] \subseteq Prunable(snap'[q])
    BY <1>1, <1>2 DEF LifeInv
  <2>3. \A q \in Procs : \A r \in DOMAIN snap'[q] : r \in Rows /\ life[r] # "new"
    BY <1>1, <1>2, KnownRows
  <2>4. \A w \in Workers : \A r \in DOMAIN snap'[w] : Tracks(w, r)'
    BY <1>1, <1>2
  <2>5. \A w \in Workers : \A r \in DOMAIN snap'[w] : r \in DOMAIN snap[w] /\ snap'[w][r] = snap[w][r]
    BY <1>1, <1>2
  <2>6. \A q \in Pruners : snap'[q] = snap[q]
    BY <1>1, <2>1
  <2> QED BY ONLY RowInv, SentInv, LifeInv, <1>1, <1>2, <2>2, <2>3, <2>4, <2>5, <2>6, LifeStep
<1>3. ASSUME NEW s \in Rows, OpenRow(p, s)
      PROVE  LifeInv'
  <2>1. /\ pc' = pc /\ snap' = snap /\ fd[p] = None /\ fd'[p] = s
        /\ todo'[p] = todo[p] \ {s} /\ disk' = [disk EXCEPT ![s] = Torn]
    BY <1>3 DEF OpenRow
  <2>2. disk'[s] = Torn /\ \A r \in Rows \ {s} : disk'[r] = disk[r]
    BY <2>1
  <2>3. ASSUME NEW r \in DOMAIN snap[p]
        PROVE  Tracks(p, r)'
    <3>1. Tracks(p, r) /\ r \in Rows
      BY <1>1, Unmoved DEF LifeInv
    <3>2. CASE r = s
      BY <1>1, <2>1, <3>2 DEF Tracks
    <3>3. CASE r # s
      BY <1>1, <2>1, <2>2, <3>1, <3>3, WorkerAssumption DEF Tracks, Follows, Same, isRow, isTerminal
    <3> QED BY <3>2, <3>3
  <2>4. \A r \in Rows : isRow(disk'[r]) => disk'[r] = disk[r]
    BY <2>2 DEF isRow
  <2> QED BY <1>1, <1>2, <2>1, <2>3, <2>4
<1>4. CASE WriteRow(p)
  <2>1. fd[p] # None /\ fd'[p] = None /\ (Forget(p) \/ UNCHANGED <<pc, todo, snap>>)
    BY <1>4 DEF WriteRow
  <2>2. /\ \A r \in Rows : r # fd[p] => disk'[r] = disk[r]
        /\ fd[p] \in Rows => fd[p] \in DOMAIN snap[p] /\ disk'[fd[p]] = snap[p][fd[p]]
    <3>1. CASE fd[p] = Orphan
      BY <1>4, <3>1, WorkerAssumption DEF WriteRow
    <3>2. CASE fd[p] # Orphan
      <4>1. fd[p] \in Rows /\ fd[p] \in DOMAIN snap[p] /\ disk[fd[p]] = Torn
        BY <2>1, <3>2, Unmoved DEF PhaseOK, KeepInv
      <4>2. disk' = [disk EXCEPT ![fd[p]] = snap[p][fd[p]]]
        BY <1>4, <3>2, <4>1 DEF WriteRow, Written
      <4> QED BY <4>1, <4>2
    <3> QED BY <3>1, <3>2
  <2>3. \A r \in Rows : isRow(disk'[r]) =>
          disk'[r] = disk[r] \/ (r \in DOMAIN snap[p] /\ disk'[r] = snap[p][r])
    BY <2>2
  <2>4. CASE Forget(p)
    <3>1. DOMAIN snap'[p] = {} /\ pc'[p] = "idle"
      BY <2>4, EmptySnapshot DEF Forget
    <3> QED BY <1>2, <2>3, <3>1
  <2>5. CASE UNCHANGED <<pc, todo, snap>>
    <3>1. ASSUME NEW r \in DOMAIN snap[p]
          PROVE  Tracks(p, r)'
      <4>1. Tracks(p, r) /\ r \in Rows
        BY <1>1, Unmoved DEF LifeInv
      <4>2. CASE r = fd[p]
        BY <1>1, <2>2, <2>5, <4>1, <4>2 DEF Tracks, Follows, Same
      <4>3. CASE r # fd[p]
        BY <1>1, <2>2, <2>5, <4>1, <4>3 DEF Tracks, Follows, Same, isRow, isTerminal
      <4> QED BY <4>2, <4>3
    <3> QED BY <1>1, <1>2, <2>3, <2>5, <3>1
  <2> QED BY <2>1, <2>4, <2>5
<1> QED BY <1>3, <1>4

(* prune preserves LifeInv: what it takes away is dead, also for a worker  *)
(* that holds a copy.                                                      *)
LEMMA PruneLife ==
  ASSUME RowInv, SentInv, KeepInv, LifeInv, NEW p \in Procs,
         SelectDead(p) \/ \E s \in Rows : RemoveRow(p, s)
  PROVE  LifeInv'
<1> USE StateTypes
<1>1. CASE SelectDead(p)
  <2>1. p \in Pruners /\ UNCHANGED <<disk, now, life, fd>>
    BY <1>1 DEF SelectDead
  <2>2. CASE Prunable(snap[p]) = {}
    BY <1>1, <2>1, <2>2, ForgetLife DEF SelectDead
  <2>3. CASE Prunable(snap[p]) # {}
    <3>1. /\ pc'[p] = "pruning" /\ todo'[p] = Prunable(snap[p]) /\ snap' = snap
          /\ \A q \in Procs \ {p} : pc'[q] = pc[q] /\ todo'[q] = todo[q]
      BY <1>1, <2>3 DEF SelectDead
    <3> QED BY <2>1, <3>1, OwnLife, WorkerAssumption
  <2> QED BY <2>2, <2>3
<1>2. ASSUME NEW s \in Rows, RemoveRow(p, s)
      PROVE  LifeInv'
  <2>1. /\ pc[p] = "pruning" /\ s \in todo[p]
        /\ disk' = [disk EXCEPT ![s] = Absent] /\ now' = now
        /\ fd' = [q \in Procs |-> IF fd[q] = s THEN Orphan ELSE fd[q]]
        /\ Forget(p) \/ (UNCHANGED <<pc, snap>> /\ todo' = [todo EXCEPT ![p] = todo[p] \ {s}])
    BY <1>2 DEF RemoveRow
  <2>2. p \in Pruners /\ p \notin Workers /\ s \in Prunable(snap[p]) /\ Dead(s)
    BY <2>1, WorkerAssumption DEF LifeInv
  <2>3. disk'[s] = Absent /\ \A r \in Rows \ {s} : disk'[r] = disk[r]
    BY <2>1
  <2>4. /\ \A q \in Procs \ {p} : pc'[q] = pc[q] /\ todo'[q] = todo[q] /\ snap'[q] = snap[q]
        /\ \/ DOMAIN snap'[p] = {} /\ pc'[p] = "idle"
           \/ snap'[p] = snap[p] /\ pc'[p] = pc[p] /\ todo'[p] \subseteq todo[p]
    BY <2>1, EmptySnapshot DEF Forget
  <2>5. ASSUME NEW w \in Workers, NEW r \in DOMAIN snap'[w]
        PROVE  Tracks(w, r)'
    <3>1. /\ w \in Procs \ {p} /\ r \in DOMAIN snap[w] /\ Tracks(w, r) /\ r \in Rows
          /\ pc'[w] = pc[w] /\ todo'[w] = todo[w] /\ snap'[w] = snap[w]
      BY <2>2, <2>4, <2>5, Unmoved DEF LifeInv, Procs
    <3>2. CASE r = s
      <4>1. snap[w][r].status = "failed_dead"
        BY <2>2, <3>1, <3>2 DEF Dead
      <4> QED BY <2>3, <3>1, <3>2, <4>1, TracksGone
    <3>3. CASE r # s
      <4>1. fd'[w] = fd[w] \/ fd[w] # r
        BY <2>1, <3>1, <3>3
      <4> QED BY <2>1, <2>3, <3>1, <3>3, <4>1, TracksKept
    <3> QED BY <3>2, <3>3
  <2>6. \A q \in Pruners : \A r \in Prunable(snap'[q]) : r \in Prunable(snap[q])
    BY <2>4 DEF Prunable, Procs
  <2>7. \A r \in Rows : isRow(disk'[r]) => disk'[r] = disk[r]
    BY <2>3 DEF isRow
  <2>8. \A w \in Workers : \A r \in DOMAIN snap'[w] : r \in DOMAIN snap[w] /\ snap'[w][r] = snap[w][r]
    BY <2>2, <2>4 DEF Procs
  <2>9. \A q \in Procs : pc'[q] = "pruning" =>
          q \in Pruners /\ todo'[q] \subseteq Prunable(snap'[q])
    BY <2>1, <2>4 DEF LifeInv
  <2>10. \A q \in Procs : \A r \in DOMAIN snap'[q] : r \in Rows /\ life[r] # "new"
    BY <2>4, KnownRows
  <2> QED BY ONLY RowInv, SentInv, LifeInv, <2>5, <2>6, <2>7, <2>8, <2>9, <2>10, LifeStep
<1> QED BY <1>1, <1>2

(* Every step preserves LifeInv when there is one worker.                  *)
LEMMA LifeNext ==
  ASSUME OneWorker
  PROVE  RowInv /\ SentInv /\ KeepInv /\ LifeInv /\ [Next]_vars => LifeInv'
<1> SUFFICES ASSUME RowInv, SentInv, KeepInv, LifeInv, [Next]_vars PROVE LifeInv'
  OBVIOUS
<1>1. ASSUME NEW r \in Rows, Enqueue(r) PROVE LifeInv'
  BY <1>1, EnqueueLife
<1>2. ASSUME NEW p \in Procs, Run(p) PROVE LifeInv'
  BY <1>2, OneWorker, ListLife, ProcessLife, SaveLife, PruneLife DEF Run
<1>3. ASSUME NEW p \in Procs, Crash(p) PROVE LifeInv'
  <2>1. /\ UNCHANGED <<disk, now, life>> /\ DOMAIN snap'[p] = {} /\ pc'[p] = "idle"
        /\ \A q \in Procs \ {p} : /\ pc'[q] = pc[q] /\ todo'[q] = todo[q]
                                  /\ snap'[q] = snap[q] /\ fd'[q] = fd[q]
    BY <1>3, StateTypes, EmptySnapshot DEF Crash, Forget
  <2>2. ASSUME NEW w \in Workers, NEW r \in DOMAIN snap'[w]
        PROVE  Tracks(w, r)'
    <3>1. w # p /\ w \in Procs
      BY <2>1 DEF Procs
    <3>2. r \in DOMAIN snap[w] /\ Tracks(w, r)
      BY <2>1, <3>1 DEF LifeInv
    <3> QED BY <2>1, <3>1, <3>2, TracksKept
  <2>3. \A q \in Procs : snap'[q] = snap[q] \/ DOMAIN snap'[q] = {}
    BY <2>1
  <2>4. \A q \in Pruners : \A r \in Prunable(snap'[q]) : r \in Prunable(snap[q])
    BY <2>3 DEF Prunable, Procs
  <2>5. \A w \in Workers : \A r \in DOMAIN snap'[w] : r \in DOMAIN snap[w] /\ snap'[w][r] = snap[w][r]
    BY <2>3 DEF Procs
  <2>6. \A q \in Procs : pc'[q] = "pruning" =>
          q \in Pruners /\ todo'[q] \subseteq Prunable(snap'[q])
    BY <2>1 DEF LifeInv
  <2>7. \A q \in Procs : \A r \in DOMAIN snap'[q] : r \in Rows /\ life[r] # "new"
    BY <2>3, KnownRows
  <2> QED BY ONLY RowInv, SentInv, LifeInv, <2>1, <2>2, <2>4, <2>5, <2>6, <2>7, LifeStep
<1>4. CASE Tick \/ UNCHANGED vars
  <2>1. UNCHANGED <<disk, pc, todo, snap, fd, life>> /\ now' \in {now, now + 1}
    BY <1>4 DEF Tick, vars, locals
  <2>2. ASSUME NEW w \in Workers, NEW r \in DOMAIN snap'[w]
        PROVE  Tracks(w, r)'
    BY <2>1, TracksKept DEF LifeInv
  <2> QED BY <2>1, <2>2 DEF LifeInv, Dead, isRow
<1> QED BY <1>1, <1>2, <1>3, <1>4 DEF Next

(* With one worker, what is known of the queue is inductive.               *)
LEMMA OneWorkerInit == Init => OneWorkerInv
<1>1. Init => KeepInv
  BY WorkerAssumption DEF Init, KeepInv, RowsSurvive
<1>2. Init => LifeInv
  BY EmptySnapshot DEF Init, LifeInv, Prunable, Procs
<1> QED BY <1>1, <1>2, RowInvInit, SentInvInit DEF OneWorkerInv

(* ... and every step preserves it.                                        *)
LEMMA OneWorkerNext ==
  ASSUME OneWorker
  PROVE  OneWorkerInv /\ [Next]_vars => OneWorkerInv'
BY ONLY OneWorker, RowInvNext, SentInvNext, KeepNext, LifeNext DEF OneWorkerInv

(* With one worker a channel is called for a row only while the file of    *)
(* the row says that it is unfinished and due: the worker's snapshot is    *)
(* not stale, whatever prune and the writers of new rows do meanwhile.     *)
THEOREM PublishedOnlyWhenDue ==
  ASSUME OneWorker
  PROVE  Spec => PublishesOnlyDueRows
<1>1. ASSUME OneWorkerInv, [Next]_vars, NEW r \in Rows, sent'[r] > sent[r], life[r] = "enqueued"
      PROVE  isRow(disk[r]) /\ isDue(disk[r], now)
  <2>1. sent \in [Rows -> Nat]
    BY <1>1, StateTypes DEF OneWorkerInv
  <2>2. ASSUME NEW s \in Rows, Enqueue(s)
        PROVE  FALSE
    BY <1>1, <2>1, <2>2
       DEF Enqueue, EnqueueFresh, SinkPosted, SinkFailed, CrashInEnqueue, Create
  <2>3. sent' # sent
    BY <1>1, <2>1
  <2>4. ~ (\E p \in Procs : Crash(p)) /\ ~ Tick /\ ~ UNCHANGED vars
    BY <2>3 DEF Crash, Tick, vars
  <2>5. PICK p \in Procs : Run(p)
    BY <1>1, <2>2, <2>4 DEF Next
  <2>6. /\ ~ StartList(p) /\ ~ ScanEmpty(p) /\ ~ SelectDue(p) /\ ~ EndPosting(p)
        /\ ~ WriteRow(p) /\ ~ SelectDead(p)
        /\ \A s \in Rows : ~ ListRow(p, s) /\ ~ ListThrows(p, s) /\ ~ OpenRow(p, s)
                          /\ ~ RemoveRow(p, s)
    BY <2>3 DEF StartList, ListRow, ListThrows, ScanEmpty, SelectDue, EndPosting, OpenRow,
                WriteRow, SelectDead, RemoveRow
  <2>7. PICK s \in Rows : \E outcome \in PossibleOutcomes(s) : Post(p, s, outcome)
    BY <2>5, <2>6 DEF Run
  <2>8. pc[p] = "posting" /\ s \in todo[p] /\ s = r
    BY <1>1, <2>1, <2>7 DEF Post, isFirst
  <2>9. p \in Workers /\ s \in DOMAIN snap[p] /\ snap[p][s] \in RowType
    BY <1>1, <2>8, Unmoved DEF OneWorkerInv, PhaseOK
  <2>10. Tracks(p, r)
    BY <1>1, <2>8, <2>9 DEF OneWorkerInv, LifeInv
  <2> QED BY <2>8, <2>9, <2>10, WorkerAssumption DEF Tracks, isRow
<1>2. OneWorkerInv /\ [Next]_vars =>
        [\A r \in Rows : sent'[r] > sent[r] /\ life[r] = "enqueued" =>
           isRow(disk[r]) /\ isDue(disk[r], now)]_vars
  BY <1>1
<1> QED BY <1>2, OneWorkerInit, OneWorkerNext, PTL DEF Spec, PublishesOnlyDueRows

-----------------------------------------------------------------------------
(* With one worker the queue implements QueueLifecycle.                    *)

(* The row a reader of the abstract specification sees is the file when no *)
(* worker has it open.                                                     *)
LEMMA ViewFree ==
  ASSUME NEW r \in Rows
  PROVE  (\A p \in Procs : fd[p] # r) => View(r) = disk[r]
BY DEF View

(* With one worker it is the worker's copy while that is being written.    *)
LEMMA ViewIs ==
  ASSUME OneWorkerInv, OneWorker, NEW r \in Rows
  PROVE  /\ \A p \in Procs : fd[p] = r => View(r) = snap[p][r]
         /\ (\A p \in Procs : fd[p] # r) => View(r) = disk[r]
<1>1. ASSUME NEW p \in Procs, fd[p] = r
      PROVE  p \in Workers
  BY <1>1 DEF OneWorkerInv, RowInv, PhaseOK
<1>2. ASSUME NEW p \in Procs, NEW q \in Procs, fd[p] = r, fd[q] = r
      PROVE  p = q
  BY <1>1, <1>2 DEF OneWorker
<1>3. ASSUME NEW p \in Procs, fd[p] = r
      PROVE  View(r) = snap[p][r]
  <2>1. (CHOOSE q \in Procs : fd[q] = r) = p
    BY <1>2, <1>3
  <2> QED BY <1>3, <2>1 DEF View
<1> QED BY <1>3, ViewFree

Shown(r) == StageOf(r, View(r))
Counted(r) == IF isRow(View(r)) THEN View(r).attempts ELSE 0

(* What is seen of a row whose contents are known.                         *)
LEMMA ShownIs ==
  ASSUME NEW r \in Rows
  PROVE  /\ View(r) = Absent =>
              Shown(r) = (IF life[r] = "pruned" THEN "pruned" ELSE "new") /\ Counted(r) = 0
         /\ View(r) = Torn => Shown(r) = "lost" /\ Counted(r) = 0
         /\ isRow(View(r)) =>
              /\ Counted(r) = View(r).attempts
              /\ View(r).status = "posted" => Shown(r) = "posted"
              /\ View(r).status = "failed_dead" => Shown(r) = "dead"
              /\ View(r).status \notin {"posted", "failed_dead"} => Shown(r) = "waiting"
BY WorkerAssumption DEF Shown, Counted, StageOf, isRow

(* The same after a step.                                                  *)
LEMMA ShownIsNext ==
  ASSUME NEW r \in Rows
  PROVE  /\ View(r)' = Absent =>
              Shown(r)' = (IF life'[r] = "pruned" THEN "pruned" ELSE "new") /\ Counted(r)' = 0
         /\ View(r)' = Torn => Shown(r)' = "lost" /\ Counted(r)' = 0
         /\ isRow(View(r)') =>
              /\ Counted(r)' = View(r)'.attempts
              /\ View(r)'.status = "posted" => Shown(r)' = "posted"
              /\ View(r)'.status = "failed_dead" => Shown(r)' = "dead"
              /\ View(r)'.status \notin {"posted", "failed_dead"} => Shown(r)' = "waiting"
<1>1. (/\ View(r) = Absent =>
            Shown(r) = (IF life[r] = "pruned" THEN "pruned" ELSE "new") /\ Counted(r) = 0
       /\ View(r) = Torn => Shown(r) = "lost" /\ Counted(r) = 0
       /\ isRow(View(r)) =>
            /\ Counted(r) = View(r).attempts
            /\ View(r).status = "posted" => Shown(r) = "posted"
            /\ View(r).status = "failed_dead" => Shown(r) = "dead"
            /\ View(r).status \notin {"posted", "failed_dead"} => Shown(r) = "waiting")'
  BY ShownIs, PTL
<1> QED BY <1>1

(* A step that leaves the sight of all rows but one is a step of that row  *)
(* in QueueLifecycle.                                                      *)
LEMMA ShownStep ==
  ASSUME NEW r \in Rows,
         \A q \in Rows \ {r} : View(q)' = View(q) /\ life'[q] = life[q]
  PROVE  Lifecycle!Become(r, Shown(r)', Counted(r)')
<1>1. \A q \in Rows \ {r} : Shown(q)' = Shown(q) /\ Counted(q)' = Counted(q)
  BY ShownIs, ShownIsNext DEF isRow
<1> QED BY <1>1 DEF Lifecycle!Become, Shown, Counted

(* And one that leaves the sight of all is a stuttering step.              *)
LEMMA ShownStutter ==
  ASSUME \A q \in Rows : Shown(q)' = Shown(q) /\ Counted(q)' = Counted(q)
  PROVE  UNCHANGED Lifecycle!vars
BY DEF Lifecycle!vars, Shown, Counted

(* The same after a step.                                                  *)
LEMMA ViewIsNext ==
  ASSUME NEW r \in Rows
  PROVE  OneWorkerInv' /\ OneWorker =>
           /\ \A p \in Procs : fd'[p] = r => View(r)' = snap'[p][r]
           /\ (\A p \in Procs : fd'[p] # r) => View(r)' = disk'[r]
<1>1. OneWorkerInv /\ OneWorker =>
        /\ \A p \in Procs : fd[p] = r => View(r) = snap[p][r]
        /\ (\A p \in Procs : fd[p] # r) => View(r) = disk[r]
  BY ViewIs
<1>2. (OneWorkerInv /\ OneWorker =>
         /\ \A p \in Procs : fd[p] = r => View(r) = snap[p][r]
         /\ (\A p \in Procs : fd[p] # r) => View(r) = disk[r])'
  BY <1>1, PTL
<1>3. OneWorker <=> OneWorker'
  BY DEF OneWorker
<1> QED BY <1>2, <1>3

(* A row is seen as before when neither its file nor its writer moved.     *)
LEMMA ViewKept ==
  ASSUME OneWorker, OneWorkerInv, OneWorkerInv', NEW r \in Rows,
         disk'[r] = disk[r],
         \A p \in Procs : /\ fd'[p] = r <=> fd[p] = r
                          /\ fd[p] = r => snap'[p][r] = snap[p][r]
  PROVE  View(r)' = View(r)
BY ViewIs, ViewIsNext

(* The steps that move no file change nothing that is seen.                *)
LEMMA QuietStutters ==
  ASSUME OneWorker, OneWorkerInv, OneWorkerInv', UNCHANGED <<disk, life, fd>>,
         \A p \in Procs : fd[p] \in Rows => snap'[p] = snap[p]
  PROVE  UNCHANGED Lifecycle!vars
<1>1. \A r \in Rows : View(r)' = View(r) /\ life'[r] = life[r]
  BY ViewKept
<1>2. \A r \in Rows : Shown(r)' = Shown(r) /\ Counted(r)' = Counted(r)
  BY <1>1, ShownIs, ShownIsNext DEF isRow
<1> QED BY <1>2, ShownStutter

(* The creation of a row is a Create, the Fail of an attempt that          *)
(* PublishAgent made itself, or, cut short, a Lose.                        *)
LEMMA EnqueueMaps ==
  ASSUME OneWorker, OneWorkerInv, OneWorkerInv', NEW r \in Rows, Enqueue(r)
  PROVE  Lifecycle!Create(r) \/ Lifecycle!Fail(r) \/ Lifecycle!Lose(r)
<1>1. /\ life[r] = "new" /\ disk[r] = Absent /\ disk \in [Rows -> RowType \cup {Absent, Torn}]
      /\ \A p \in Procs : fd[p] # r
      /\ \A q \in Rows \ {r} : disk'[q] = disk[q] /\ life'[q] = life[q]
      /\ UNCHANGED <<fd, snap>>
      /\ now \in Nat
  <2>1. \A p \in Procs : r \notin DOMAIN snap[p]
    BY DEF OneWorkerInv, SentInv, Enqueue, EnqueueFresh, SinkPosted, SinkFailed, CrashInEnqueue,
           Create
  <2>2. \A p \in Procs : fd[p] # r
    BY <2>1 DEF OneWorkerInv, RowInv, PhaseOK
  <2> QED BY <2>2, StateTypes
          DEF OneWorkerInv, SentInv, Enqueue, EnqueueFresh, SinkPosted, SinkFailed,
              CrashInEnqueue, Create, locals
<1>2. Lifecycle!Become(r, Shown(r)', Counted(r)')
  <2>1. \A q \in Rows \ {r} : View(q)' = View(q)
    BY <1>1, ViewKept
  <2> QED BY <1>1, <2>1, ShownStep
<1>3. Shown(r) = "new" /\ Counted(r) = 0
  BY <1>1, ViewIs, ShownIs
<1>4. View(r)' = disk'[r]
  BY <1>1, ViewIsNext
<1>5. CASE EnqueueFresh(r)
  <2>1. disk'[r] = createQueueItem(now)
    BY <1>1, <1>5 DEF EnqueueFresh, Create
  <2>2. Shown(r)' = "waiting" /\ Counted(r)' = 0
    <3>1. isRow(disk'[r]) /\ disk'[r].attempts = 0 /\ disk'[r].status = "pending"
      <4>1. createQueueItem(now) \in RowType
        BY <1>1, CreatedRows
      <4>2. isRow(disk'[r])
        BY <2>1, <4>1, WorkerAssumption DEF isRow
      <4> QED BY <2>1, <4>2 DEF createQueueItem
    <3> QED BY <1>4, <3>1, ShownIsNext
  <2> QED BY <1>2, <1>3, <2>2 DEF Lifecycle!Create, Shown
<1>6. CASE SinkPosted(r)
  <2> DEFINE file == [createQueueItem(now) EXCEPT !.status = "posted", !.postId = "id"]
  <2>1. file \in RowType /\ file.status = "posted" /\ file.attempts = 0
    BY <1>1, CreatedRows DEF createQueueItem
  <2>2. disk'[r] = file
    BY <1>1, <1>6 DEF SinkPosted, Create
  <2> HIDE DEF file
  <2>3. Shown(r)' = "posted" /\ Counted(r)' = 0
    BY <1>1, <1>4, <2>1, <2>2, ShownIsNext, WorkerAssumption DEF isRow
  <2> QED BY <1>2, <1>3, <2>3 DEF Lifecycle!Create, Shown
<1>7. CASE SinkFailed(r)
  <2> DEFINE file == recordAttemptFailure(createQueueItem(now), now)
  <2>1. file \in RowType /\ RowConsistent(file) /\ file.status # "posted"
    BY <1>1, CreatedRows
  <2>2. file.attempts = 1 /\ file.status \in {"failed_retry", "failed_dead"}
    BY DEF recordAttemptFailure, createQueueItem
  <2>3. disk'[r] = file
    BY <1>1, <1>7 DEF SinkFailed, Create
  <2> HIDE DEF file
  <2>4. /\ Counted(r)' = 1
        /\ Shown(r)' = IF 1 = MaxAttempts THEN "dead" ELSE "waiting"
    BY <1>1, <1>4, <2>1, <2>2, <2>3, ShownIsNext, WorkerAssumption, QueueAssumption
       DEF isRow, RowConsistent
  <2> QED BY <1>2, <1>3, <2>4 DEF Lifecycle!Fail, Shown, Counted
<1>8. CASE CrashInEnqueue(r)
  <2>1. disk'[r] = Torn
    BY <1>1, <1>8 DEF CrashInEnqueue, Create
  <2> QED BY <1>2, <1>4, <2>1, ShownIsNext DEF Lifecycle!Lose
<1> QED BY <1>5, <1>6, <1>7, <1>8 DEF Enqueue

(* Opening a file for writing shows what the worker is about to write: the *)
(* same row, the row after one attempt, or a dead row that prune has taken *)
(* away meanwhile.                                                         *)
LEMMA OpenMaps ==
  ASSUME OneWorker, OneWorkerInv, OneWorkerInv', NEW p \in Procs, NEW r \in Rows, OpenRow(p, r)
  PROVE  \/ UNCHANGED Lifecycle!vars
         \/ Lifecycle!Fail(r) \/ Lifecycle!Succeed(r) \/ Lifecycle!Reappear(r)
<1>1. /\ pc[p] = "saving" /\ fd[p] = None /\ r \in todo[p]
      /\ disk' = [disk EXCEPT ![r] = Torn] /\ fd' = [fd EXCEPT ![p] = r]
      /\ UNCHANGED <<snap, life>>
  BY DEF OpenRow
<1>2. /\ p \in Workers /\ r \in DOMAIN snap[p] /\ snap[p][r] \in RowType
      /\ RowConsistent(snap[p][r])
      /\ disk \in [Rows -> RowType \cup {Absent, Torn}] /\ fd \in [Procs -> Rows \cup {None, Orphan}]
  BY <1>1, Unmoved, StateTypes DEF OneWorkerInv, RowInv, PhaseOK
<1>3. Follows(disk[r], snap[p][r])
  BY <1>1, <1>2 DEF OneWorkerInv, LifeInv, Tracks
<1>4. ASSUME NEW q \in Procs, fd[q] \in Rows
      PROVE  FALSE
  BY <1>1, <1>2, <1>4, WorkerAssumption DEF OneWorkerInv, RowInv, PhaseOK, OneWorker
<1>5. fd'[p] = r /\ \A q \in Procs \ {p} : fd'[q] \notin Rows
  BY <1>1, <1>2, <1>4
<1>6. View(r) = disk[r] /\ View(r)' = snap[p][r] /\ isRow(snap[p][r])
  BY <1>1, <1>2, <1>4, <1>5, ViewIs, ViewIsNext, WorkerAssumption DEF isRow
<1>7. \A q \in Rows \ {r} : View(q)' = View(q) /\ life'[q] = life[q]
  <2>1. ASSUME NEW q \in Rows \ {r}
        PROVE  disk'[q] = disk[q] /\ \A x \in Procs : fd[x] # q /\ fd'[x] # q
    BY <1>1, <1>2, <1>4, <1>5
  <2> QED BY <1>1, <2>1, ViewKept
<1>8. Lifecycle!Become(r, Shown(r)', Counted(r)')
  BY <1>7, ShownStep
<1>9. CASE disk[r] = snap[p][r]
  <2>1. \A q \in Rows : Shown(q)' = Shown(q) /\ Counted(q)' = Counted(q)
    BY <1>1, <1>6, <1>7, <1>9, ShownIs, ShownIsNext DEF isRow
  <2> QED BY <2>1, ShownStutter
<1>10. CASE disk[r] = Absent /\ snap[p][r].status = "failed_dead"
  <2>1. life[r] = "pruned"
    <3>1. life[r] \in {"new", "enqueued", "pruned"}
      BY StateTypes DEF OneWorkerInv
    <3>2. life[r] # "new"
      BY <1>2, KnownRows DEF OneWorkerInv
    <3>3. life[r] # "enqueued"
      BY <1>4, <1>10, WorkerAssumption DEF OneWorkerInv, KeepInv, RowsSurvive, isRow
    <3> QED BY <3>1, <3>2, <3>3
  <2>2. Shown(r) = "pruned"
    BY <1>6, <1>10, <2>1, ShownIs
  <2>3. Shown(r)' = "dead" /\ Counted(r)' = MaxAttempts
    BY <1>2, <1>6, <1>10, ShownIsNext DEF RowConsistent
  <2> QED BY <1>8, <2>2, <2>3 DEF Lifecycle!Reappear, Shown
<1>11. CASE isRow(disk[r]) /\ ~ isTerminal(disk[r]) /\ snap[p][r].attempts = disk[r].attempts + 1
  <2>1. Shown(r) = "waiting" /\ Counted(r) = disk[r].attempts
    BY <1>6, <1>11, ShownIs DEF isTerminal, TerminalStatuses
  <2>2. disk[r].attempts \in Nat /\ MaxAttempts \in Nat
    BY <1>2, <1>11, QueueAssumption DEF isRow, RowType
  <2>3. Counted(r)' = Counted(r) + 1 /\ snap[p][r].attempts = Counted(r) + 1
    BY <1>6, <1>11, <2>1, ShownIsNext
  <2>4. snap[p][r].status \in {"posted", "failed_retry", "failed_dead"}
    BY <1>2, <1>11, <2>2 DEF RowConsistent, RowType, Statuses
  <2>5. CASE snap[p][r].status = "posted"
    BY <1>6, <1>8, <2>1, <2>3, <2>5, ShownIsNext DEF Lifecycle!Succeed, Shown, Counted
  <2>6. CASE snap[p][r].status \in {"failed_retry", "failed_dead"}
    <3>1. Shown(r)' = IF Counted(r) + 1 = MaxAttempts THEN "dead" ELSE "waiting"
      BY <1>2, <1>6, <2>1, <2>2, <2>3, <2>6, ShownIsNext DEF RowConsistent
    <3> QED BY <1>8, <2>1, <2>3, <3>1 DEF Lifecycle!Fail, Shown, Counted
  <2> QED BY <2>4, <2>5, <2>6
<1> QED BY <1>3, <1>9, <1>10, <1>11 DEF Follows, Same

(* Writing it leaves what was to be written.                               *)
LEMMA WriteMaps ==
  ASSUME OneWorker, OneWorkerInv, OneWorkerInv', NEW p \in Procs, WriteRow(p)
  PROVE  UNCHANGED Lifecycle!vars
<1>1. /\ fd[p] # None /\ fd' = [fd EXCEPT ![p] = None] /\ UNCHANGED life
      /\ pc[p] = "saving"
  BY DEF WriteRow
<1>2. /\ p \in Workers /\ disk \in [Rows -> RowType \cup {Absent, Torn}]
      /\ fd \in [Procs -> Rows \cup {None, Orphan}]
  BY <1>1, StateTypes DEF OneWorkerInv, RowInv, PhaseOK
<1>3. ASSUME NEW q \in Procs, q # p
      PROVE  fd[q] \notin Rows /\ fd'[q] \notin Rows
  BY <1>1, <1>2, <1>3, WorkerAssumption DEF OneWorkerInv, RowInv, PhaseOK, OneWorker
<1>4. fd'[p] \notin Rows
  BY <1>1, <1>2, WorkerAssumption
<1>5. ASSUME NEW r \in Rows
      PROVE  View(r)' = View(r) /\ View(r)' = disk'[r]
  <2>1. View(r)' = disk'[r]
    BY <1>3, <1>4, ViewIsNext
  <2>2. CASE fd[p] = r
    <3>1. disk[r] = Torn
      BY <2>2 DEF OneWorkerInv, KeepInv
    <3>2. disk'[r] = snap[p][r]
      BY <1>2, <2>2, <3>1, WorkerAssumption DEF WriteRow, Written
    <3> QED BY <2>1, <2>2, <3>2, ViewIs
  <2>3. CASE fd[p] # r
    <3>1. disk'[r] = disk[r]
      BY <1>2, <2>3 DEF WriteRow
    <3>2. View(r) = disk[r]
      BY <1>3, <2>3, ViewIs
    <3> QED BY <2>1, <3>1, <3>2
  <2> QED BY <2>1, <2>2, <2>3
<1>6. \A r \in Rows : Shown(r)' = Shown(r) /\ Counted(r)' = Counted(r)
  BY <1>1, <1>5, ShownIs, ShownIsNext DEF isRow
<1> QED BY <1>6, ShownStutter

(* Removing a dead row is a Prune, or nothing when the file was gone.      *)
LEMMA RemoveMaps ==
  ASSUME OneWorker, OneWorkerInv, OneWorkerInv', NEW p \in Procs, NEW r \in Rows, RemoveRow(p, r)
  PROVE  Lifecycle!Prune(r) \/ UNCHANGED Lifecycle!vars
<1>1. /\ pc[p] = "pruning" /\ r \in todo[p]
      /\ disk' = [disk EXCEPT ![r] = Absent] /\ life' = [life EXCEPT ![r] = "pruned"]
      /\ fd' = [q \in Procs |-> IF fd[q] = r THEN Orphan ELSE fd[q]]
      /\ \A q \in Procs \ {p} : snap'[q] = snap[q]
  <2>1. snap = [q \in Procs |-> snap[q]]
    BY StateTypes DEF OneWorkerInv
  <2> QED BY <2>1 DEF RemoveRow, Forget
<1>2. /\ disk \in [Rows -> RowType \cup {Absent, Torn}]
      /\ fd \in [Procs -> Rows \cup {None, Orphan}]
      /\ life \in [Rows -> {"new", "enqueued", "pruned"}]
  BY StateTypes DEF OneWorkerInv
<1>3. fd[p] \notin Rows
  BY <1>1 DEF OneWorkerInv, RowInv, PhaseOK
<1>4. r \in DOMAIN snap[p] /\ Dead(r)
  BY <1>1 DEF OneWorkerInv, LifeInv, Prunable
<1>5. life[r] # "new"
  BY <1>4, KnownRows DEF OneWorkerInv
<1>6. \A q \in Procs : fd'[q] # r
  BY <1>1, WorkerAssumption
<1>7. View(r)' = Absent /\ life'[r] = "pruned"
  BY <1>1, <1>2, <1>6, ViewIsNext
<1>8. Shown(r)' = "pruned" /\ Counted(r)' = 0
  BY <1>7, ShownIsNext
<1>9. \A q \in Rows \ {r} : View(q)' = View(q) /\ life'[q] = life[q]
  <2>1. ASSUME NEW q \in Rows \ {r}, NEW x \in Procs
        PROVE  (fd'[x] = q <=> fd[x] = q) /\ (fd[x] = q => snap'[x][q] = snap[x][q])
    BY <1>1, <1>3, WorkerAssumption
  <2> QED BY <1>1, <1>2, <2>1, ViewKept
<1>10. Lifecycle!Become(r, "pruned", 0)
  BY <1>8, <1>9, ShownStep
<1>11. Shown(r) \in {"dead", "lost"} \/ (Shown(r) = "pruned" /\ Counted(r) = 0)
  <2>1. CASE \E q \in Procs : fd[q] = r
    <3>1. PICK q \in Procs : fd[q] = r
      BY <2>1
    <3>2. /\ q \in Workers /\ r \in DOMAIN snap[q] /\ snap[q][r] \in RowType
          /\ snap[q][r].status = "failed_dead"
      BY <1>4, <3>1, Unmoved DEF OneWorkerInv, RowInv, PhaseOK, Dead
    <3> QED BY <3>1, <3>2, ViewIs, ShownIs, WorkerAssumption DEF isRow
  <2>2. CASE \A q \in Procs : fd[q] # r
    <3>1. View(r) = disk[r]
      BY <2>2, ViewIs
    <3>2. CASE isRow(disk[r])
      BY <1>4, <3>1, <3>2, ShownIs DEF Dead
    <3>3. CASE disk[r] = Torn
      BY <3>1, <3>3, ShownIs
    <3>4. CASE disk[r] = Absent
      <4>1. life[r] # "enqueued"
        BY <2>2, <3>4, WorkerAssumption DEF OneWorkerInv, KeepInv, RowsSurvive, isRow
      <4> QED BY <1>2, <1>5, <3>1, <3>4, <4>1, ShownIs
    <3> QED BY <3>2, <3>3, <3>4 DEF isRow
  <2> QED BY <2>1, <2>2
<1>12. CASE Shown(r) \in {"dead", "lost"}
  BY <1>10, <1>12 DEF Lifecycle!Prune, Shown
<1>13. CASE Shown(r) = "pruned" /\ Counted(r) = 0
  <2>1. \A q \in Rows : Shown(q)' = Shown(q) /\ Counted(q)' = Counted(q)
    BY <1>8, <1>9, <1>13, ShownIs, ShownIsNext DEF isRow
  <2> QED BY <2>1, ShownStutter
<1> QED BY <1>11, <1>12, <1>13

(* A crash loses the row that was being written, if there was one.         *)
LEMMA CrashMaps ==
  ASSUME OneWorker, OneWorkerInv, OneWorkerInv', NEW p \in Procs, Crash(p)
  PROVE  (\E r \in Rows : Lifecycle!Lose(r)) \/ UNCHANGED Lifecycle!vars
<1>1. /\ fd' = [fd EXCEPT ![p] = None] /\ UNCHANGED <<disk, life>>
      /\ \A q \in Procs \ {p} : snap'[q] = snap[q]
  BY DEF Crash, Forget
<1>2. fd \in [Procs -> Rows \cup {None, Orphan}]
  BY StateTypes DEF OneWorkerInv
<1>3. ASSUME NEW q \in Rows, q # fd[p]
      PROVE  View(q)' = View(q) /\ life'[q] = life[q]
  <2>1. ASSUME NEW x \in Procs
        PROVE  (fd'[x] = q <=> fd[x] = q) /\ (fd[x] = q => snap'[x][q] = snap[x][q])
    BY <1>1, <1>2, <1>3, WorkerAssumption
  <2> QED BY <1>1, <2>1, ViewKept
<1>4. CASE fd[p] \in Rows
  <2>1. PICK r \in Rows : r = fd[p]
    BY <1>4
  <2>2. disk'[r] = Torn
    BY <1>1, <2>1 DEF OneWorkerInv, KeepInv
  <2>3. \A x \in Procs : fd'[x] # r
    BY <1>1, <1>2, <2>1, WorkerAssumption DEF OneWorkerInv, RowInv, PhaseOK, OneWorker
  <2>4. Shown(r)' = "lost" /\ Counted(r)' = 0
    BY <2>2, <2>3, ViewIsNext, ShownIsNext
  <2>5. Lifecycle!Become(r, "lost", 0)
    BY <1>3, <2>1, <2>4, ShownStep
  <2> QED BY <2>5 DEF Lifecycle!Lose
<1>5. CASE fd[p] \notin Rows
  <2>1. \A r \in Rows : Shown(r)' = Shown(r) /\ Counted(r)' = Counted(r)
    BY <1>3, <1>5, ShownIs, ShownIsNext DEF isRow
  <2> QED BY <2>1, ShownStutter
<1> QED BY <1>4, <1>5

(* Every step of the queue is one of a row in QueueLifecycle, or none.     *)
LEMMA StepMaps ==
  ASSUME OneWorker
  PROVE  OneWorkerInv /\ OneWorkerInv' /\ [Next]_vars => [Lifecycle!Next]_(Lifecycle!vars)
<1> SUFFICES ASSUME OneWorkerInv, OneWorkerInv', [Next]_vars
             PROVE  Lifecycle!Next \/ UNCHANGED Lifecycle!vars
  OBVIOUS
<1>1. ASSUME NEW r \in Rows, Enqueue(r) PROVE Lifecycle!Next
  BY <1>1, EnqueueMaps DEF Lifecycle!Next
<1>2. ASSUME NEW p \in Procs, NEW r \in Rows, OpenRow(p, r)
      PROVE  Lifecycle!Next \/ UNCHANGED Lifecycle!vars
  BY <1>2, OpenMaps DEF Lifecycle!Next
<1>3. ASSUME NEW p \in Procs, WriteRow(p) PROVE UNCHANGED Lifecycle!vars
  BY <1>3, WriteMaps
<1>4. ASSUME NEW p \in Procs, NEW r \in Rows, RemoveRow(p, r)
      PROVE  Lifecycle!Next \/ UNCHANGED Lifecycle!vars
  BY <1>4, RemoveMaps DEF Lifecycle!Next
<1>5. ASSUME NEW p \in Procs, Crash(p)
      PROVE  Lifecycle!Next \/ UNCHANGED Lifecycle!vars
  BY <1>5, CrashMaps DEF Lifecycle!Next
<1>6. CASE Tick \/ UNCHANGED vars
  BY <1>6, QuietStutters DEF Tick, vars, locals
<1>7. ASSUME NEW p \in Procs,
             \/ StartList(p) \/ ScanEmpty(p) \/ SelectDue(p) \/ EndPosting(p) \/ SelectDead(p)
             \/ \E r \in Rows : ListRow(p, r) \/ ListThrows(p, r)
             \/ \E r \in Rows : \E outcome \in PossibleOutcomes(r) : Post(p, r, outcome)
      PROVE  UNCHANGED Lifecycle!vars
  <2>1. pc[p] # "saving" /\ UNCHANGED <<disk, life, fd>>
    BY <1>7 DEF StartList, ScanEmpty, SelectDue, EndPosting, SelectDead, ListRow, ListThrows, Post
  <2>2. fd[p] \notin Rows
    BY <2>1 DEF OneWorkerInv, RowInv, PhaseOK
  <2>3. \A q \in Procs \ {p} : snap'[q] = snap[q]
    <3>1. snap = [q \in Procs |-> snap[q]]
      BY StateTypes DEF OneWorkerInv
    <3>2. snap' = snap \/ \E f : snap' = [snap EXCEPT ![p] = f]
      BY <1>7 DEF StartList, ScanEmpty, SelectDue, EndPosting, SelectDead, ListRow, ListThrows,
                  Post, Forget
    <3> QED BY <3>1, <3>2
  <2> QED BY <2>1, <2>2, <2>3, QuietStutters
<1> QED BY <1>1, <1>2, <1>3, <1>4, <1>5, <1>6, <1>7 DEF Next, Run

(* The queue begins as QueueLifecycle does.                                *)
LEMMA InitMaps == Init => Lifecycle!Init
<1> SUFFICES ASSUME Init PROVE Lifecycle!Init
  OBVIOUS
<1>1. ASSUME NEW r \in Rows
      PROVE  Shown(r) = "new" /\ Counted(r) = 0
  <2>1. disk[r] = Absent /\ life[r] = "new" /\ \A p \in Procs : fd[p] # r
    BY WorkerAssumption DEF Init
  <2> QED BY <2>1, ViewFree, ShownIs
<1> QED BY <1>1 DEF Lifecycle!Init, Shown, Counted

(* With one worker the queue implements QueueLifecycle: whatever crashes,  *)
(* lost answers, prunes and new rows do meanwhile, each row is attempted   *)
(* at most MaxAttempts times, one attempt at a time, ends posted or dead,  *)
(* and is never brought back to be posted again.                           *)
THEOREM QueueImplementsLifecycle ==
  ASSUME OneWorker
  PROVE  Spec => LifecycleSpec
BY InitMaps, OneWorkerInit, OneWorkerNext, StepMaps, PTL
   DEF Spec, LifecycleSpec, Lifecycle!Spec

-----------------------------------------------------------------------------
(* The daemon that runs the worker's ticks.                                *)

(* A process that runs no command holds nothing, and files are only open   *)
(* while they are saved.                                                   *)
Clean ==
  \A p \in Procs :
    /\ pc[p] = "idle" => todo[p] = {} /\ snap[p] = NoRows /\ started[p] = 0
    /\ pc[p] # "saving" => fd[p] = None

(* Every step of the queue keeps it so.                                    *)
LEMMA CleanNext == RowInv /\ Clean /\ [Next]_vars => Clean'
<1> SUFFICES ASSUME RowInv, Clean, [Next]_vars PROVE Clean'
  OBVIOUS
<1> USE StateTypes
<1>1. ASSUME NEW p \in Procs,
             \A q \in Procs \ {p} :
               /\ pc'[q] = pc[q] /\ todo'[q] = todo[q] /\ snap'[q] = snap[q]
               /\ started'[q] = started[q]
               /\ fd'[q] = fd[q] \/ (fd[q] \in Rows /\ fd'[q] = Orphan),
             pc'[p] = "idle" => todo'[p] = {} /\ snap'[p] = NoRows /\ started'[p] = 0,
             pc'[p] # "saving" => fd'[p] = None
      PROVE  Clean'
  <2>1. \A q \in Procs : fd[q] \in Rows => pc[q] = "saving"
    BY DEF RowInv, PhaseOK
  <2> QED BY <1>1, <2>1 DEF Clean
<1>2. ASSUME NEW r \in Rows, Enqueue(r) PROVE Clean'
  <2>1. UNCHANGED locals
    BY <1>2 DEF Enqueue, EnqueueFresh, SinkPosted, SinkFailed, CrashInEnqueue, Create
  <2> QED BY <2>1 DEF Clean, locals
<1>3. CASE Tick \/ UNCHANGED vars
  <2>1. UNCHANGED locals
    BY <1>3 DEF Tick, vars
  <2> QED BY <2>1 DEF Clean, locals
<1>4. ASSUME NEW p \in Procs, Crash(p) PROVE Clean'
  BY <1>1, <1>4 DEF Crash, Forget
<1>5. ASSUME NEW p \in Procs, Run(p) PROVE Clean'
  <2>1. ASSUME Forget(p), pc[p] # "saving" \/ fd'[p] = None,
               fd' = fd \/ fd' = [fd EXCEPT ![p] = None]
                 \/ \E r \in Rows : fd' = [q \in Procs |-> IF fd[q] = r THEN Orphan ELSE fd[q]]
        PROVE  Clean'
    <3>1. fd'[p] = None
      BY <2>1, WorkerAssumption DEF Clean
    <3> QED BY <1>1, <2>1, <3>1 DEF Forget
  <2>2. CASE StartList(p)
    BY <1>1, <2>2 DEF StartList, Clean
  <2>3. ASSUME NEW r \in Rows, ListRow(p, r) PROVE Clean'
    BY <1>1, <2>3 DEF ListRow, Clean
  <2>4. CASE ScanEmpty(p) \/ \E r \in Rows : ListThrows(p, r)
    BY <2>1, <2>4 DEF ScanEmpty, ListThrows
  <2>5. CASE SelectDue(p)
    BY <1>1, <2>5 DEF SelectDue, Clean
  <2>6. ASSUME NEW r \in Rows, NEW outcome \in PossibleOutcomes(r), Post(p, r, outcome)
        PROVE  Clean'
    BY <1>1, <2>6 DEF Post, Clean
  <2>7. CASE EndPosting(p)
    BY <1>1, <2>7 DEF EndPosting, Clean
  <2>8. ASSUME NEW r \in Rows, OpenRow(p, r) PROVE Clean'
    BY <1>1, <2>8 DEF OpenRow, Clean
  <2>9. CASE WriteRow(p)
    <3>1. fd' = [fd EXCEPT ![p] = None] /\ pc[p] = "saving"
      BY <2>9 DEF WriteRow
    <3>2. CASE Forget(p)
      BY <2>1, <3>1, <3>2
    <3>3. CASE UNCHANGED <<pc, todo, snap, started>>
      BY <1>1, <3>1, <3>3
    <3> QED BY <2>9, <3>2, <3>3 DEF WriteRow
  <2>10. CASE SelectDead(p)
    <3>1. CASE Forget(p)
      BY <2>1, <2>10, <3>1 DEF SelectDead
    <3>2. CASE ~ Forget(p)
      <4>1. /\ pc[p] = "listing" /\ pc' = [pc EXCEPT ![p] = "pruning"]
            /\ \E S : todo' = [todo EXCEPT ![p] = S]
            /\ UNCHANGED <<snap, started, fd>>
        BY <2>10, <3>2 DEF SelectDead
      <4> QED BY <1>1, <4>1 DEF Clean
    <3> QED BY <3>1, <3>2
  <2>11. ASSUME NEW r \in Rows, RemoveRow(p, r) PROVE Clean'
    <3>1. /\ pc[p] = "pruning"
          /\ fd' = [q \in Procs |-> IF fd[q] = r THEN Orphan ELSE fd[q]]
      BY <2>11 DEF RemoveRow
    <3>2. CASE Forget(p)
      BY <2>1, <3>1, <3>2
    <3>3. CASE ~ Forget(p)
      <4>1. UNCHANGED <<pc, snap, started>> /\ \E S : todo' = [todo EXCEPT ![p] = S]
        BY <2>11, <3>3 DEF RemoveRow
      <4>2. fd'[p] = None
        BY <3>1, WorkerAssumption DEF Clean
      <4> QED BY <1>1, <3>1, <4>1, <4>2
    <3> QED BY <3>2, <3>3
  <2> QED BY <1>5, <2>2, <2>3, <2>4, <2>5, <2>6, <2>7, <2>8, <2>9, <2>10, <2>11 DEF Run
<1> QED BY <1>2, <1>3, <1>4, <1>5 DEF Next

(* The loop and the worker it runs agree: the closure that is up is        *)
(* running, and a worker inside runOnce is the tick of its chain.          *)
AgreeInv ==
  /\ chain \in [Chains -> {"none", "ticking", "armed"}]
  /\ running <=> proc = "up"
  /\ \A w \in Workers : pc[w] # "idle" => proc = "up" /\ chain[w] = "ticking"

DaemonInv == OneWorkerInv /\ Clean /\ AgreeInv

(* Only faults were counted.                                               *)
FaultOnly == faults' = faults + 1 /\ UNCHANGED <<disk, now, locals, life, sent>>

(* A process that ends between two ticks takes nothing with it; one that   *)
(* is killed within a tick takes what its worker held.                     *)
LEMMA ExitIs ==
  ASSUME OneWorker, DaemonInv, NEW status, Exit(status),
         \/ faults' = faults /\ \A w \in Workers : pc[w] = "idle"
         \/ faults' = faults + 1 /\ faults < MaxFaults
  PROVE  Next \/ UNCHANGED vars \/ FaultOnly
<1>1. /\ pc \in [Procs -> {"idle", "listing", "posting", "saving", "pruning"}]
      /\ todo \in [Procs -> SUBSET Rows] /\ started \in [Procs -> Nat]
      /\ snap = [q \in Procs |-> snap[q]]
      /\ fd \in [Procs -> Rows \cup {None, Orphan}]
  BY StateTypes DEF DaemonInv, OneWorkerInv
<1>2. CASE \A w \in Workers : pc[w] = "idle"
  <2>1. \A p \in Procs : /\ pc'[p] = pc[p] /\ todo'[p] = todo[p] /\ snap'[p] = snap[p]
                         /\ started'[p] = started[p] /\ fd'[p] = fd[p]
    BY <1>1, <1>2 DEF Exit, DaemonInv, Clean
  <2>2. UNCHANGED locals
    BY <1>1, <2>1 DEF Exit, locals
  <2> QED BY <2>2 DEF Exit, vars, FaultOnly
<1>3. CASE \E w \in Workers : pc[w] # "idle"
  <2>1. PICK w \in Workers : pc[w] # "idle"
    BY <1>3
  <2>2. w \in Procs /\ \A p \in Procs : p \in Workers <=> p = w
    BY DEF OneWorker, Procs
  <2>3. /\ pc'      = [pc EXCEPT ![w] = "idle"]
        /\ todo'    = [todo EXCEPT ![w] = {}]
        /\ snap'    = [snap EXCEPT ![w] = NoRows]
        /\ started' = [started EXCEPT ![w] = 0]
        /\ fd'      = [fd EXCEPT ![w] = None]
    BY <1>1, <2>2 DEF Exit
  <2>4. Crash(w)
    BY <2>1, <2>3 DEF Exit, Crash, Forget
  <2> QED BY <2>2, <2>4 DEF Next
<1> QED BY <1>2, <1>3

(* Unless the operator signals it, the daemon takes steps of the queue, or *)
(* dies between two ticks.                                                 *)
LEMMA DaemonStep ==
  ASSUME OneWorker, ~ MayStop, DaemonInv, [DaemonNext]_allVars
  PROVE  Next \/ UNCHANGED vars \/ FaultOnly
<1>1. ASSUME NEW from, Launch(from) PROVE Next
  BY <1>1 DEF Launch, Next, Run, Procs
<1>2. CASE Supervise \/ StartAgain
  BY <1>1, <1>2 DEF Supervise, StartAgain
<1>3. CASE Drained
  <2>1. \A w \in Workers : pc[w] = "idle"
    BY <1>3, DaemonAssumption DEF Drained, Alive, DaemonInv, AgreeInv
  <2> QED BY <1>3, <2>1, ExitIs DEF Drained
<1>4. ASSUME NEW c \in Workers, TimerFires(c) PROVE Next
  BY <1>4 DEF TimerFires, Next, Run, Procs
<1>5. ASSUME NEW c \in Workers, TickGoesOn(c) PROVE Next
  BY <1>5 DEF TickGoesOn, Next, Procs
<1>6. ASSUME NEW c \in Workers, TickReturns(c) PROVE Next
  BY <1>6 DEF TickReturns, Next, Run, Procs
<1>7. ASSUME NEW c \in Workers, TickThrows(c) PROVE Next
  BY <1>7 DEF TickThrows, Next, Run, Procs
<1>8. CASE Stop
  BY <1>8 DEF Stop
<1>9. CASE Kill
  BY <1>9, ExitIs DEF Kill
<1>10. CASE Others
  BY <1>10 DEF Others, Next, Procs
<1>11. CASE UNCHANGED allVars
  BY <1>11 DEF allVars
<1> QED BY <1>2, <1>3, <1>4, <1>5, <1>6, <1>7, <1>8, <1>9, <1>10, <1>11 DEF DaemonNext, Daemon

(* A fault that only is counted breaks none of what is known of the queue. *)
LEMMA FaultOnlyKeeps ==
  ASSUME OneWorkerInv, Clean, FaultOnly
  PROVE  OneWorkerInv' /\ Clean'
<1>1. /\ faults' = faults + 1 /\ faults \in Nat /\ sent \in [Rows -> Nat]
      /\ UNCHANGED <<disk, now, pc, todo, snap, started, fd, life, sent>>
  BY StateTypes DEF FaultOnly, locals, OneWorkerInv
<1>2. RowInv'
  BY <1>1 DEF OneWorkerInv, RowInv, TypeOK, RowsConsistent, PhaseOK, IsSnapshot, isRow
<1>3. SentInv'
  <2>1. \A r \in Rows : sent[r] \in Nat
    BY <1>1
  <2>2. \A w \in Workers : \A r \in DOMAIN snap[w] : r \in Rows
    BY Unmoved DEF OneWorkerInv, Procs
  <2> QED BY <1>1, <2>1, <2>2 DEF OneWorkerInv, SentInv, AtMostOncePerFault, HoldsNews, isRow
<1>4. KeepInv'
  BY <1>1 DEF OneWorkerInv, KeepInv, RowsSurvive, isRow
<1>5. LifeInv'
  BY <1>1 DEF OneWorkerInv, LifeInv, Tracks, Follows, Same, Dead, Prunable, isRow
<1>6. Clean'
  BY <1>1 DEF Clean
<1> QED BY <1>2, <1>3, <1>4, <1>5, <1>6 DEF OneWorkerInv

(* Every step of the daemon keeps loop and worker in agreement.            *)
LEMMA AgreeNext ==
  ASSUME OneWorker, DaemonInv, [DaemonNext]_allVars
  PROVE  AgreeInv'
<1> USE DaemonAssumption DEF AgreeInv, DaemonInv
<1>0. pc \in [Procs -> {"idle", "listing", "posting", "saving", "pruning"}]
  BY StateTypes DEF OneWorkerInv
<1>1. ASSUME NEW from, from # "up", Launch(from) PROVE AgreeInv'
  <2>1. PICK c \in Workers : c \in Ticking' /\ StartList(c)
    BY <1>1 DEF Launch
  <2>2. \A w \in Workers : w = c
    BY DEF OneWorker
  <2>3. running' /\ proc' = "up" /\ chain' \in [Chains -> {"none", "ticking", "armed"}]
    BY <1>1 DEF Launch, start, Alive
  <2> QED BY <2>1, <2>2, <2>3 DEF Ticking
<1>2. CASE Supervise \/ StartAgain
  BY <1>1, <1>2 DEF Supervise, StartAgain
<1>3. ASSUME NEW status, status # "up", Exit(status) PROVE AgreeInv'
  BY <1>0, <1>3 DEF Exit, Procs
<1>4. ASSUME NEW c \in Workers, TimerFires(c) PROVE AgreeInv'
  <2>1. \A w \in Workers : w = c
    BY DEF OneWorker
  <2> QED BY <1>4, <2>1 DEF TimerFires, timerFires
<1>5. ASSUME NEW c \in Workers, TickGoesOn(c) PROVE AgreeInv'
  <2>1. \A w \in Workers : w = c
    BY DEF OneWorker
  <2> QED BY <1>5, <2>1 DEF TickGoesOn, loopVars
<1>6. ASSUME NEW c \in Workers, TickReturns(c) \/ TickThrows(c) PROVE AgreeInv'
  <2>1. (\A w \in Workers : w = c) /\ c \in Procs
    BY DEF OneWorker, Procs
  <2>2. pc'[c] = "idle"
    BY <1>0, <1>6, <2>1 DEF TickReturns, TickThrows, ListThrows, Forget
  <2> QED BY <1>6, <2>1, <2>2
          DEF TickReturns, TickThrows, tickReturns, scheduleNext, tickThrows
<1>7. CASE Stop \/ Drained \/ Kill
  BY <1>3, <1>7 DEF Stop, Drained, Kill
<1>8. CASE Others
  <2>1. UNCHANGED <<proc, running, chain>>
    BY <1>8 DEF Others, loopVars
  <2>2. ASSUME NEW w \in Workers
        PROVE  pc'[w] = pc[w]
    <3>1. w \in Procs /\ w \notin Pruners
      BY WorkerAssumption DEF Procs
    <3>2. CASE \E r \in Rows : Enqueue(r)
      BY <3>2 DEF Enqueue, EnqueueFresh, SinkPosted, SinkFailed, CrashInEnqueue, Create, locals
    <3>3. CASE Tick
      BY <3>3 DEF Tick, locals
    <3>4. ASSUME NEW p \in Pruners, Run(p)
          PROVE  pc'[w] = pc[w]
      <4>1. pc' = pc \/ \E x : pc' = [pc EXCEPT ![p] = x]
        BY <3>4 DEF Run, StartList, ListRow, ListThrows, ScanEmpty, SelectDue, Post, EndPosting,
                    OpenRow, WriteRow, SelectDead, RemoveRow, Forget
      <4> QED BY <1>0, <3>1, <4>1
    <3> QED BY <1>8, <3>2, <3>3, <3>4 DEF Others
  <2> QED BY <2>1, <2>2
<1>9. CASE UNCHANGED allVars
  BY <1>9 DEF allVars, vars, locals, loopVars
<1> QED BY <1>2, <1>4, <1>5, <1>6, <1>7, <1>8, <1>9 DEF DaemonNext, Daemon

(* The daemon begins with nothing running,                                 *)
LEMMA DaemonInvInit == DaemonInit => DaemonInv
<1> SUFFICES ASSUME DaemonInit PROVE DaemonInv
  OBVIOUS
<1>1. Init /\ LoopInit /\ proc = "down"
  BY DEF DaemonInit
<1>2. Clean
  BY <1>1 DEF Init, Clean
<1>3. AgreeInv
  <2>1. chain = [c \in Chains |-> "none"] /\ running = FALSE
    BY <1>1 DEF LoopInit
  <2>2. \A w \in Workers : pc[w] = "idle"
    BY <1>1 DEF Init, Procs
  <2> QED BY <1>1, <2>1, <2>2, DaemonAssumption DEF AgreeInv
<1> QED BY <1>1, <1>2, <1>3, OneWorkerInit DEF DaemonInv

(* and each of its steps keeps the loop, the worker and the rows in order. *)
LEMMA DaemonInvNext ==
  ASSUME OneWorker, ~ MayStop
  PROVE  DaemonInv /\ [DaemonNext]_allVars => DaemonInv'
<1> SUFFICES ASSUME DaemonInv, [DaemonNext]_allVars PROVE DaemonInv'
  OBVIOUS
<1>1. OneWorkerInv' /\ Clean'
  <2>1. OneWorkerInv /\ Clean /\ RowInv
    BY DEF DaemonInv, OneWorkerInv
  <2>2. CASE [Next]_vars
    BY ONLY OneWorker, <2>1, <2>2, OneWorkerNext, CleanNext
  <2>3. CASE FaultOnly
    BY <2>1, <2>3, FaultOnlyKeeps
  <2> QED BY <2>2, <2>3, DaemonStep
<1>2. AgreeInv'
  BY AgreeNext
<1> QED BY <1>1, <1>2 DEF DaemonInv

(* A daemon that nobody signals keeps what the queue promises, however     *)
(* often its ticks throw, it drains or it is killed and restarted: it      *)
(* publishes a row at most once per crash or lost answer, and loses none   *)
(* without a crash.  It is the signal alone that GracefulStop fails for.   *)
THEOREM DaemonKeepsPromises ==
  ASSUME OneWorker, ~ MayStop
  PROVE  DaemonSpec => [](AtMostOncePerFault /\ RowsSurvive /\ RowsConsistent)
<1>1. DaemonInv => AtMostOncePerFault /\ RowsSurvive /\ RowsConsistent
  BY DEF DaemonInv, OneWorkerInv, RowInv, SentInv, KeepInv
<1> QED BY <1>1, DaemonInvInit, DaemonInvNext, PTL DEF DaemonSpec

(* And each row lives as QueueLifecycle says.                              *)
THEOREM DaemonImplementsLifecycle ==
  ASSUME OneWorker, ~ MayStop
  PROVE  DaemonSpec => LifecycleSpec
<1>1. DaemonInit => Lifecycle!Init
  BY InitMaps DEF DaemonInit
<1>2. ASSUME DaemonInv, DaemonInv', [DaemonNext]_allVars
      PROVE  [Lifecycle!Next]_(Lifecycle!vars)
  <2>1. OneWorkerInv /\ OneWorkerInv'
    BY <1>2 DEF DaemonInv
  <2>2. CASE [Next]_vars
    BY ONLY OneWorker, <2>1, <2>2, StepMaps
  <2>3. CASE FaultOnly
    BY <2>1, <2>3, QuietStutters DEF FaultOnly, locals
  <2> QED BY <1>2, <2>2, <2>3, DaemonStep
<1>3. DaemonInv /\ DaemonInv' /\ [DaemonNext]_allVars => [Lifecycle!Next]_(Lifecycle!vars)
  BY <1>2
<1> QED BY <1>1, <1>3, DaemonInvInit, DaemonInvNext, PTL
        DEF DaemonSpec, LifecycleSpec, Lifecycle!Spec
=============================================================================
