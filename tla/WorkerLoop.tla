----------------------------- MODULE WorkerLoop -----------------------------
(***************************************************************************)
(* createQueueWorkerLoop (packages/cli/src/queue-worker-loop.ts): the loop *)
(* that runs the publish worker again and again inside one Node process.   *)
(*                                                                         *)
(* A chain is the sequence tick, timer, tick, ... that one call of start() *)
(* begins.  JavaScript runs one callback at a time, so an action is the    *)
(* code between two returns to the event loop; while a tick awaits its     *)
(* worker, other callbacks run.  `timer' is the single variable that the   *)
(* closure keeps for whatever timer was armed last.                        *)
(***************************************************************************)
EXTENDS Naturals, FiniteSets

CONSTANTS
  Chains,       \* identities of chains; an ended one may be used again
  MayThrow,     \* may worker.runOnce throw
  MaxLeftovers, \* bound: stop() calls that leave a chain alive
  NoTimer

ASSUME LoopAssumption ==
  /\ NoTimer \notin Chains
  /\ MayThrow \in BOOLEAN
  /\ MaxLeftovers \in Nat

VARIABLES
  running,   \* the closure's flag
  chain,     \* what each chain is doing: "none", "ticking" or "armed"
  timer,     \* the chain whose timer the closure last armed, or NoTimer
  oneShot,   \* a runOnceAndWait is in flight
  leftovers, \* history: stop() calls that left a chain alive
  threw      \* history: a tick of a chain has thrown since the last start()

loopVars == <<running, chain, timer, oneShot, leftovers, threw>>

LoopTypeOK ==
  /\ running \in BOOLEAN
  /\ chain \in [Chains -> {"none", "ticking", "armed"}]
  /\ timer \in Chains \cup {NoTimer}
  /\ oneShot \in BOOLEAN
  /\ leftovers \in Nat
  /\ threw \in BOOLEAN

Alive   == {c \in Chains : chain[c] # "none"}
Ticking == {c \in Chains : chain[c] = "ticking"}

LoopInit ==
  /\ running = FALSE
  /\ chain = [c \in Chains |-> "none"]
  /\ timer = NoTimer
  /\ oneShot = FALSE
  /\ leftovers = 0
  /\ threw = FALSE

(* mutant: start() does not look at `running'.                             *)
start_unchecked ==
  /\ running' = TRUE
  /\ \E c \in Chains \ Alive : chain' = [chain EXCEPT ![c] = "ticking"]
  /\ threw' = FALSE
  /\ UNCHANGED <<timer, oneShot, leftovers>>

(* start(): a no-op while running, otherwise the first tick of a new chain *)
(* begins at once.                                                         *)
start ==
  /\ ~ running
  /\ running' = TRUE
  /\ \E c \in Chains \ Alive : chain' = [chain EXCEPT ![c] = "ticking"]
  /\ threw' = FALSE
  /\ UNCHANGED <<timer, oneShot, leftovers>>

(* mutant: a tick that found nothing to do arms no timer.                  *)
scheduleNext_busyOnly(c) ==
  \/ chain' = [chain EXCEPT ![c] = "armed"] /\ timer' = c
  \/ chain' = [chain EXCEPT ![c] = "none"] /\ UNCHANGED timer

(* scheduleNext: a finished tick arms the next timer unless stop() came in *)
(* between.  How long the timer sleeps depends on what the tick found.     *)
scheduleNext(c) ==
  IF running
  THEN /\ chain' = [chain EXCEPT ![c] = "armed"]
       /\ timer' = c
  ELSE /\ chain' = [chain EXCEPT ![c] = "none"]
       /\ UNCHANGED timer

tickReturns(c) ==
  /\ chain[c] = "ticking"
  /\ scheduleNext(c)
  /\ UNCHANGED <<running, oneShot, leftovers, threw>>

(* The catch swallows the error and schedules nothing: the chain is over.  *)
tickThrows(c) ==
  /\ MayThrow
  /\ chain[c] = "ticking"
  /\ chain' = [chain EXCEPT ![c] = "none"]
  /\ threw' = TRUE
  /\ UNCHANGED <<running, timer, oneShot, leftovers>>

(* mutants: the timer callback does not look at `running'; an interval     *)
(* timer, which stays armed when the callback returns early.               *)
timerFires_unchecked(c) ==
  /\ chain[c] = "armed"
  /\ chain' = [chain EXCEPT ![c] = "ticking"]
  /\ UNCHANGED <<running, timer, oneShot, leftovers, threw>>

timerFires_interval(c) ==
  /\ chain[c] = "armed"
  /\ chain' = [chain EXCEPT ![c] = IF running THEN "ticking" ELSE "armed"]
  /\ UNCHANGED <<running, timer, oneShot, leftovers, threw>>

timerFires(c) ==
  /\ chain[c] = "armed"
  /\ chain' = [chain EXCEPT ![c] = IF running THEN "ticking" ELSE "none"]
  /\ UNCHANGED <<running, timer, oneShot, leftovers, threw>>

(* stop(): clears the timer armed last; an older one stays armed and finds *)
(* `running' false when it fires.  A tick in flight is left to finish.     *)
stop ==
  /\ running' = FALSE
  /\ timer' = NoTimer
  /\ chain' = [c \in Chains |->
                 IF c = timer /\ chain[c] = "armed" THEN "none" ELSE chain[c]]
  /\ IF running /\ \E c \in Chains : chain'[c] # "none"
     THEN leftovers < MaxLeftovers /\ leftovers' = leftovers + 1
     ELSE leftovers' = leftovers
  /\ UNCHANGED <<oneShot, threw>>

(* runOnceAndWait(): a tick of its own, beside the chains.                 *)
runOnceBegins ==
  /\ ~ oneShot
  /\ oneShot' = TRUE
  /\ UNCHANGED <<running, chain, timer, leftovers, threw>>

runOnceEnds ==
  /\ oneShot
  /\ oneShot' = FALSE
  /\ UNCHANGED <<running, chain, timer, leftovers, threw>>

TickEnds(c) == tickReturns(c) \/ tickThrows(c)

LoopNext ==
  \/ start
  \/ stop
  \/ runOnceBegins
  \/ runOnceEnds
  \/ \E c \in Chains : tickReturns(c)
  \/ \E c \in Chains : tickThrows(c)
  \/ \E c \in Chains : timerFires(c)

LoopSpec == LoopInit /\ [][LoopNext]_loopVars

(* An armed timer fires and a tick ends: every channel call of a run is a  *)
(* fetch that ends or fails.  Nobody has to call start, stop or            *)
(* runOnceAndWait.                                                         *)
LoopFairness ==
  \A c \in Chains : WF_loopVars(timerFires(c)) /\ WF_loopVars(TickEnds(c))

LoopFairSpec == LoopSpec /\ LoopFairness

-----------------------------------------------------------------------------
(* Properties                                                              *)

(* After stop() no further tick of a chain begins, whatever timers were    *)
(* left behind by overlapping start() calls.                               *)
NoTickAfterStop ==
  [][\A c \in Chains : c \in Ticking' /\ c \notin Ticking => running']_loopVars

(* A loop has one chain, and one more at most for every stop() that left a *)
(* tick in flight or an older timer armed: only then can start() begin a   *)
(* second chain beside a living one.                                       *)
ChainsBounded == Cardinality(Alive) <= 1 + leftovers

(* A running loop in which no tick has thrown ticks again and again.       *)
KeepsTicking == running /\ ~ threw ~> (Ticking # {} \/ ~ running \/ threw)

(* After stop() every chain comes to an end, unless start() is called.     *)
StopsAll == ~ running ~> (Alive = {} \/ running)

(* "daemon must not die on a single bad cycle" (queue-worker-loop.ts): as  *)
(* long as the loop says it is running, some chain is ticking or has its   *)
(* next tick scheduled.                                                    *)
RunningMeansAlive == running => Alive # {}
=============================================================================
