----------------------------- MODULE MCWebConsole -----------------------------
(* The web console and what it shares `.ima' with, for TLC: the page, its *)
(* server and the files it shows, or the commands that work on the other   *)
(* files while there is no console.  A behaviour is about one of them, or  *)
(* about one of those files, for files do not meet, but that the feedback  *)
(* takes the contents along.                                               *)
EXTENDS WebConsole, SharedFiles

CONSTANTS a, q, p1, p2

VARIABLE about

(* A pause of everything, by another client.                               *)
MCClients == {<<"pause", None>>}

MCInit ==
  /\ AtRest /\ FilesInit
  /\ about \in {"console"} \cup (Files \ {"content"})
  /\ up = (about = "console")

(* Bound: the clock of the files, which counts the days of the window,     *)
(* stands still while a command is under way.  The processes are alike: of *)
(* two idle ones, the first goes on.                                       *)
OneFile ==
  /\ FilesNext
  /\ \A p \in Procs :
       \/ file'[p] \in {about, Nothing}
       \/ about = "feedback.json" /\ file'[p] = "content"
  /\ \A p \in Procs : pc[p] = "idle" \/ now' = now
  /\ pc[p1] = "idle" => pc[p2] # "idle" \/ pc'[p2] = "idle"

MCNext ==
  /\ UNCHANGED about
  /\ \/ about = "console" /\ ConsoleNext /\ UNCHANGED filesVars
     \/ about # "console" /\ OneFile /\ UNCHANGED consoleVars

MCSpec == MCInit /\ [][MCNext]_<<about, consoleVars, filesVars>> /\ ConsoleFairness
=============================================================================
