-------------------------- MODULE WorkerLoopProofs --------------------------
(***************************************************************************)
(* The loop of the queue worker, for any set of chains and any number of   *)
(* calls of start, stop and runOnceAndWait: after stop() no tick begins,   *)
(* and a second chain only ever runs beside a first that a stop() has left *)
(* behind.                                                                 *)
(***************************************************************************)
EXTENDS WorkerLoop, FiniteSetTheorems, TLAPS

(* Every step keeps the types.                                             *)
LEMMA LoopTypeStep == LoopTypeOK /\ [LoopNext]_loopVars => LoopTypeOK'
<1> SUFFICES ASSUME LoopTypeOK, [LoopNext]_loopVars PROVE LoopTypeOK'
  OBVIOUS
<1> USE DEF LoopTypeOK
<1>1. CASE start
  BY <1>1 DEF start
<1>2. CASE stop
  <2>1. chain' \in [Chains -> {"none", "ticking", "armed"}]
    BY <1>2 DEF stop
  <2>2. leftovers' \in Nat
    BY <1>2 DEF stop
  <2> QED BY <1>2, <2>1, <2>2 DEF stop
<1>3. CASE runOnceBegins \/ runOnceEnds
  BY <1>3 DEF runOnceBegins, runOnceEnds
<1>4. ASSUME NEW c \in Chains, tickReturns(c) PROVE LoopTypeOK'
  BY <1>4 DEF tickReturns, scheduleNext
<1>5. ASSUME NEW c \in Chains, tickThrows(c) PROVE LoopTypeOK'
  BY <1>5 DEF tickThrows
<1>6. ASSUME NEW c \in Chains, timerFires(c) PROVE LoopTypeOK'
  BY <1>6 DEF timerFires
<1>7. CASE UNCHANGED loopVars
  BY <1>7 DEF loopVars
<1> QED BY <1>1, <1>2, <1>3, <1>4, <1>5, <1>6, <1>7 DEF LoopNext

(* The variables of the closure keep their types.                          *)
THEOREM LoopTypeCorrect == LoopSpec => []LoopTypeOK
<1>1. LoopInit => LoopTypeOK
  <2> SUFFICES ASSUME LoopInit PROVE LoopTypeOK
    OBVIOUS
  <2>1. chain \in [Chains -> {"none", "ticking", "armed"}]
    BY DEF LoopInit
  <2> QED BY <2>1 DEF LoopInit, LoopTypeOK
<1> QED BY <1>1, LoopTypeStep, PTL DEF LoopSpec

(* After stop() no tick of a chain begins: the one timer that stop()       *)
(* cannot clear finds the flag when it fires.                              *)
THEOREM NoTickOnceStopped == LoopSpec => NoTickAfterStop
<1>1. ASSUME LoopTypeOK, [LoopNext]_loopVars, NEW c \in Chains, c \in Ticking', c \notin Ticking
      PROVE  running'
  <2> USE <1>1 DEF LoopTypeOK, Ticking
  <2>1. CASE start
    BY <2>1 DEF start
  <2>2. CASE stop
    BY <2>2 DEF stop
  <2>3. CASE runOnceBegins \/ runOnceEnds \/ UNCHANGED loopVars
    BY <2>3 DEF runOnceBegins, runOnceEnds, loopVars
  <2>4. ASSUME NEW d \in Chains, tickReturns(d) PROVE running'
    BY <2>4 DEF tickReturns, scheduleNext
  <2>5. ASSUME NEW d \in Chains, tickThrows(d) PROVE running'
    BY <2>5 DEF tickThrows
  <2>6. ASSUME NEW d \in Chains, timerFires(d) PROVE running'
    BY <2>6 DEF timerFires
  <2> QED BY <2>1, <2>2, <2>3, <2>4, <2>5, <2>6 DEF LoopNext
<1>2. LoopTypeOK /\ [LoopNext]_loopVars =>
        [\A c \in Chains : c \in Ticking' /\ c \notin Ticking => running']_loopVars
  BY <1>1
<1> QED BY <1>2, LoopTypeCorrect, PTL DEF LoopSpec, NoTickAfterStop

-----------------------------------------------------------------------------
(* How many chains there are.                                              *)

(* Of the chains that live, all but the one that runs were left by stop(). *)
ChainInv ==
  /\ IsFiniteSet(Alive)
  /\ Cardinality(Alive) <= leftovers + (IF running THEN 1 ELSE 0)

(* A step that adds no chain and forgets no stop() keeps the count.        *)
LEMMA NoNewChain ==
  ASSUME LoopTypeOK, LoopTypeOK', ChainInv, Alive' \subseteq Alive, leftovers' >= leftovers,
         running => running' \/ leftovers' > leftovers \/ Alive' = {}
  PROVE  ChainInv'
<1>1. /\ IsFiniteSet(Alive') /\ Cardinality(Alive') <= Cardinality(Alive)
      /\ Cardinality(Alive') \in Nat /\ Cardinality(Alive) \in Nat
  BY FS_Subset, FS_CardinalityType DEF ChainInv
<1>2. Alive' = {} => Cardinality(Alive') = 0
  BY FS_EmptySet
<1> QED BY <1>1, <1>2 DEF ChainInv, LoopTypeOK

(* Every step preserves it: only start() adds a chain, and it sets the     *)
(* flag that stop() has taken away.                                        *)
LEMMA ChainStep ==
  LoopTypeOK /\ LoopTypeOK' /\ ChainInv /\ [LoopNext]_loopVars => ChainInv'
<1> SUFFICES ASSUME LoopTypeOK, LoopTypeOK', ChainInv, [LoopNext]_loopVars
             PROVE  ChainInv'
  OBVIOUS
<1>1. CASE start
  <2>1. PICK c \in Chains \ Alive : chain' = [chain EXCEPT ![c] = "ticking"]
    BY <1>1 DEF start
  <2>2. Alive' = Alive \cup {c}
    BY <2>1 DEF Alive, LoopTypeOK
  <2>3. IsFiniteSet(Alive') /\ Cardinality(Alive') = Cardinality(Alive) + 1
    BY <2>1, <2>2, FS_AddElement DEF ChainInv
  <2>4. Cardinality(Alive) \in Nat
    BY FS_CardinalityType DEF ChainInv
  <2>5. ~ running /\ running' /\ leftovers' = leftovers
    BY <1>1 DEF start
  <2> QED BY <2>3, <2>4, <2>5 DEF ChainInv, LoopTypeOK
<1>2. CASE stop
  <2>1. Alive' \subseteq Alive
    BY <1>2 DEF stop, Alive, LoopTypeOK
  <2>2. leftovers' >= leftovers /\ (running => leftovers' > leftovers \/ Alive' = {})
    BY <1>2 DEF stop, Alive, LoopTypeOK
  <2> QED BY <2>1, <2>2, NoNewChain
<1>3. CASE \/ runOnceBegins \/ runOnceEnds \/ UNCHANGED loopVars
           \/ \E c \in Chains : tickReturns(c) \/ tickThrows(c) \/ timerFires(c)
  <2>1. UNCHANGED <<running, leftovers>>
    BY <1>3 DEF runOnceBegins, runOnceEnds, loopVars, tickReturns, tickThrows, timerFires
  <2>2. Alive' \subseteq Alive
    BY <1>3 DEF runOnceBegins, runOnceEnds, loopVars, tickReturns, scheduleNext, tickThrows,
                timerFires, Alive, LoopTypeOK
  <2> QED BY <2>1, <2>2, NoNewChain DEF LoopTypeOK
<1> QED BY <1>1, <1>2, <1>3 DEF LoopNext

(* A loop has one chain, and one more at most for every stop() that left   *)
(* one behind.                                                             *)
THEOREM ChainsAreBounded == LoopSpec => []ChainsBounded
<1>1. LoopInit => ChainInv
  <2> SUFFICES ASSUME LoopInit PROVE ChainInv
    OBVIOUS
  <2>1. Alive = {}
    BY DEF LoopInit, Alive
  <2> QED BY <2>1, FS_EmptySet DEF LoopInit, ChainInv
<1>2. LoopTypeOK /\ ChainInv => ChainsBounded
  <2> SUFFICES ASSUME LoopTypeOK, ChainInv PROVE ChainsBounded
    OBVIOUS
  <2>1. Cardinality(Alive) \in Nat
    BY FS_CardinalityType DEF ChainInv
  <2> QED BY <2>1 DEF ChainInv, ChainsBounded, LoopTypeOK
<1> QED BY <1>1, <1>2, LoopTypeCorrect, ChainStep, PTL DEF LoopSpec
=============================================================================
