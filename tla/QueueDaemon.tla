----------------------------- MODULE QueueDaemon -----------------------------
(***************************************************************************)
(* The queue daemon: one Node process whose loop (WorkerLoop) runs the     *)
(* publish worker (QueueWorker) tick after tick, under a supervisor, beside*)
(* other commands that share the directory.  A chain of the loop and the   *)
(* worker it runs have one identity: the chain ticks exactly while that    *)
(* worker is inside runOnce.                                               *)
(*                                                                         *)
(*   packages/cli/src/queue-daemon.ts       main, the signal handlers      *)
(*   packages/cli/src/queue-worker-loop.ts  see WorkerLoop                 *)
(*   docs/queue-daemon.service              Restart=on-failure             *)
(*   docs/queue-daemon.pm2.cjs              autorestart: true              *)
(***************************************************************************)
EXTENDS QueueWorker, WorkerLoop

CONSTANTS
  RestartAlways,  \* TRUE for pm2 (any exit), FALSE for systemd (failures only)
  MayStop         \* may the operator signal the daemon

ASSUME DaemonAssumption == Workers \subseteq Chains /\ MayThrow

VARIABLE proc   \* "down", "up", "exited" (status 0), "stopped" by the operator

allVars == <<vars, proc, loopVars>>

DaemonInit == Init /\ LoopInit /\ proc = "down"

(* main(): a fresh closure, start(), and with it the first tick.           *)
Launch(from) ==
  /\ proc = from
  /\ proc' = "up"
  /\ start
  /\ \E c \in Workers : c \in Ticking' /\ StartList(c)

(* mutant: pm2 taken for a supervisor that restarts failures only.         *)
Supervise_failures == Launch("down")

Supervise  == Launch("down") \/ (RestartAlways /\ Launch("exited"))
StartAgain == Launch("stopped")

TimerFires(c) ==
  /\ proc = "up"
  /\ timerFires(c)
  /\ StartList(c)
  /\ UNCHANGED proc

(* runOnce goes on; the tick is not over.                                  *)
TickGoesOn(c) ==
  /\ pc[c] # "idle"
  /\ Run(c)
  /\ pc'[c] # "idle"
  /\ UNCHANGED <<proc, loopVars>>

TickReturns(c) ==
  /\ ScanEmpty(c) \/ WriteRow(c)
  /\ pc'[c] = "idle"
  /\ tickReturns(c)
  /\ UNCHANGED proc

TickThrows(c) ==
  /\ \E r \in Rows : ListThrows(c, r)
  /\ tickThrows(c)
  /\ UNCHANGED proc

(* The process ends: nothing of its memory survives, an open file stays    *)
(* truncated.                                                              *)
Exit(status) ==
  /\ proc' = status
  /\ pc'      = [p \in Procs |-> IF p \in Workers THEN "idle" ELSE pc[p]]
  /\ todo'    = [p \in Procs |-> IF p \in Workers THEN {} ELSE todo[p]]
  /\ snap'    = [p \in Procs |-> IF p \in Workers THEN NoRows ELSE snap[p]]
  /\ started' = [p \in Procs |-> IF p \in Workers THEN 0 ELSE started[p]]
  /\ fd'      = [p \in Procs |-> IF p \in Workers THEN None ELSE fd[p]]
  /\ running' = FALSE
  /\ chain'   = [c \in Chains |-> "none"]
  /\ timer'   = NoTimer
  /\ leftovers' = 0
  /\ threw'   = FALSE
  /\ UNCHANGED <<oneShot, disk, now, life, sent>>

(* With no timer armed and no call in flight nothing keeps the event loop  *)
(* alive, neither the pending promise at the end of main() nor the signal  *)
(* handlers: Node exits with status 0.                                     *)
Drained ==
  /\ proc = "up"
  /\ Alive = {}
  /\ Exit("exited")
  /\ UNCHANGED faults

(* SIGINT or SIGTERM: loop.stop(), then process.exit(0) at once.           *)
Stop ==
  /\ MayStop
  /\ proc = "up"
  /\ Exit("stopped")
  /\ UNCHANGED faults

Kill ==
  /\ proc = "up"
  /\ faults < MaxFaults
  /\ faults' = faults + 1
  /\ Exit("down")

(* The other processes and the clock.                                      *)
Others ==
  /\ \/ \E r \in Rows : Enqueue(r)
     \/ \E p \in Pruners : Run(p)
     \/ Tick
  /\ UNCHANGED <<proc, loopVars>>

Daemon ==
  \/ Supervise
  \/ Drained
  \/ \E c \in Workers : TimerFires(c)
  \/ \E c \in Workers : TickGoesOn(c)
  \/ \E c \in Workers : TickReturns(c)
  \/ \E c \in Workers : TickThrows(c)

DaemonNext ==
  \/ Daemon
  \/ Stop
  \/ StartAgain
  \/ Kill
  \/ Others

(* The supervisor restarts, timers fire, ticks go on and time passes; the  *)
(* operator, a crash and the other commands are under no obligation.       *)
DaemonFairness ==
  /\ WF_allVars(Daemon)
  /\ WF_allVars(Tick /\ UNCHANGED <<proc, loopVars>>)

DaemonSpec == DaemonInit /\ [][DaemonNext]_allVars /\ DaemonFairness

-----------------------------------------------------------------------------
(* Properties                                                              *)

(* "daemon must not die on a single bad cycle" (queue-worker-loop.ts): a   *)
(* daemon nobody stopped ticks again and again.                            *)
DaemonKeepsWorking == []<>(Ticking # {} \/ proc = "stopped")

(* Under a daemon that is always restarted, a due row is attempted in the  *)
(* end, however often a tick throws or the process is killed.              *)
DaemonAttemptsDueRows ==
  \A r \in Rows : \A k \in 0 .. MaxAttempts - 1 :
    DueAfter(r, k) ~> (TriedAfter(r, k) \/ proc = "stopped")

(* "SIGINT/SIGTERM" stop the daemon gracefully (README): stopping it while *)
(* a run is under way costs no row its outcome, so a row is still          *)
(* published at most once per crash or lost answer.  Stated by             *)
(* AtMostOncePerFault of QueueWorker, to which a signal is no fault.       *)
GracefulStop == AtMostOncePerFault
=============================================================================
