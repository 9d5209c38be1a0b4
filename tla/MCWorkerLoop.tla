----------------------------- MODULE MCWorkerLoop -----------------------------
(* The loop for TLC, in the daemon under pm2, or in other hands that start *)
(* and stop it at will, as its tests do: there is no daemon then, and the  *)
(* worker is not the subject.  The daemon has one worker, hence one chain. *)
EXTENDS MCQueueDaemon

CONSTANTS c2, c3

VARIABLE inHand

MCInit ==
  /\ Init /\ LoopInit
  /\ inHand \in BOOLEAN
  /\ proc = IF inHand THEN "stopped" ELSE "down"

LoopInHand ==
  /\ inHand
  /\ \/ LoopNext /\ UNCHANGED <<vars, proc>>
     \/ Tick /\ UNCHANGED <<proc, loopVars>>

MCNext == UNCHANGED inHand /\ (LoopInHand \/ (~ inHand /\ DaemonNext))

MCSpec ==
  /\ MCInit /\ [][MCNext]_<<inHand, allVars>>
  /\ DaemonFairness
  /\ \A c \in Chains :
       /\ WF_loopVars(inHand /\ timerFires(c))
       /\ WF_loopVars(inHand /\ TickEnds(c))
=============================================================================
