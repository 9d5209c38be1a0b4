----------------------------- MODULE SharedFiles -----------------------------
(***************************************************************************)
(* The ledgers and settings in `.ima' that every `ima' command and the web *)
(* console share.  Each writer reads a whole file, changes what it read in *)
(* memory and writes the whole file back, with no lock, so the steps of    *)
(* two commands interleave; writeFileSync truncates before it writes, so a *)
(* command killed in between leaves a blank file or the beginning of one.  *)
(*                                                                         *)
(*   audit.jsonl         `ima reply'          cli/src/index.ts             *)
(*   token-ledger.jsonl  `ima token-ledger'   cli/src/index.ts             *)
(*   metrics.jsonl       increment, observe   core/src/persistent-metrics  *)
(*   content/<id>.json   steps, `ima feedback'   cli/src/app.ts            *)
(*   feedback.json       `ima feedback'       cli/src/app.ts               *)
(*   personas.json       `ima persona ...'    cli/src/app.ts, index.ts     *)
(*   secrets.json        `ima secret set'     cli/src/v12-helpers.ts       *)
(*                                                                         *)
(* The files differ in what becomes of one that cannot be parsed: the JSON *)
(* lines are appended to unread, feedback.json and a content make their    *)
(* command throw, and personas.json and secrets.json count as empty.       *)
(*                                                                         *)
(* Of the contents there is one, published to one post: what the feedback  *)
(* does to it.  The stages of a content are ContentPipeline's.             *)
(***************************************************************************)
EXTENDS Naturals

CONSTANTS
  Procs,        \* the processes running commands
  Window,       \* FeedbackState.windowDays; 0 keeps every record
  MaxTime,      \* bound: the clock stops here
  MaxCommands,  \* bound: commands run, over all processes
  MaxFaults,    \* bound: commands killed
  Nothing

Lines == {"audit.jsonl", "token-ledger.jsonl", "metrics.jsonl"}
Resettable == {"personas.json", "secrets.json"}
Files == Lines \cup {"content", "feedback.json"} \cup Resettable

ASSUME FilesAssumption ==
  /\ Window \in Nat /\ MaxTime \in Nat /\ MaxCommands \in Nat /\ MaxFaults \in Nat
  /\ Nothing \notin Files

(* What one command adds: an audit event, a metric, a persona, a secret... *)
(* The content's own part, its post, is the entry that no command adds.    *)
Entries == [id : 0 .. MaxCommands, at : 0 .. MaxTime]
Post    == [id |-> 0, at |-> 0]

(* A file by what can be parsed of it.  A file that is missing and a blank *)
(* one are the same to every reader.                                       *)
(*   bad    some part does not parse                                       *)
(*   tail   its last line is torn and has no newline                       *)
FileTexts == [entries : SUBSET Entries, bad : BOOLEAN, tail : BOOLEAN]

Clean(s) == [entries |-> s, bad |-> FALSE, tail |-> FALSE]
Blank    == Clean({})

VARIABLES
  disk,      \* the contents of each file
  now,       \* the clock
  pc,        \* each process: "idle", "loaded", "fetched", "read", "open"
  file,      \* the file its command is about
  op,        \* "add", "remove" or "none": what becomes of its entry;
             \* "save": a step that saves the whole content
  mine,      \* the entry it adds or removes
  text,      \* what it is about to write, made from what it read
  count,     \* commands so far
  faults,    \* commands killed so far
  recorded,  \* history: the entries of the commands that completed
  overlap,   \* history: two commands on this file were under way at once
  torn       \* history: a command was killed while it wrote this file:
             \* "no", "blank" or "half", the last such case

locals  == <<pc, file, op, mine, text>>
marks == <<recorded, overlap, torn>>
filesVars == <<disk, now, locals, count, faults, marks>>

FilesTypeOK ==
  /\ disk \in [Files -> FileTexts]
  /\ now \in 0 .. MaxTime
  /\ pc \in [Procs -> {"idle", "loaded", "fetched", "read", "open"}]
  /\ file \in [Procs -> Files \cup {Nothing}]
  /\ op \in [Procs -> {"add", "remove", "none", "save"}]
  /\ mine \in [Procs -> Entries \cup {Nothing}]
  /\ text \in [Procs -> FileTexts]
  /\ count \in 0 .. MaxCommands
  /\ faults \in 0 .. MaxFaults
  /\ recorded \in [Files -> SUBSET Entries]
  /\ overlap \in [Files -> BOOLEAN]
  /\ torn \in [Files -> {"no", "blank", "half"}]
  /\ \A p \in Procs : pc[p] # "idle" => file[p] \in Files /\ mine[p] \in Entries

FilesInit ==
  /\ recorded = [f \in Files |-> IF f = "content" THEN {Post} ELSE {}]
  /\ disk     = [f \in Files |-> Clean(recorded[f])]
  /\ now      = 0
  /\ pc       = [p \in Procs |-> "idle"]
  /\ file     = [p \in Procs |-> Nothing]
  /\ op       = [p \in Procs |-> "add"]
  /\ mine     = [p \in Procs |-> Nothing]
  /\ text     = [p \in Procs |-> Blank]
  /\ count    = 0
  /\ faults   = 0
  /\ overlap  = [f \in Files |-> FALSE]
  /\ torn     = [f \in Files |-> "no"]

-----------------------------------------------------------------------------
(* What a command makes of the file it reads.                              *)

(* mutant: feedback.json is as forgiving as the vault.                     *)
throws_never(f, c) == FALSE

(* JsonStore.read parses the whole file and lets the error out.            *)
throws(f, c) == f \in {"content", "feedback.json"} /\ c.bad

(* The personas that are built in stay when those of the file are lost;    *)
(* the vault starts anew.  Both say nothing.                               *)
loadPersonas(c) == IF c.bad THEN Blank ELSE c
readVault(c) == IF c.bad THEN Blank ELSE c

(* What a command goes on with.                                            *)
loaded(f, c) ==
  CASE f = "personas.json"  -> loadPersonas(c)
    [] f = "secrets.json"   -> readVault(c)
    [] f \notin Resettable -> c

(* The snapshot of the metrics and `ima production', which reports on the  *)
(* other two, parse every line that is not blank and let the first error   *)
(* out: one torn line, and there is no report.                             *)
readLines(c) == IF c.bad THEN Nothing ELSE c.entries

(* filterByWindow: a record is kept while it is not older than the window. *)
filterByWindow(s, t) == IF Window = 0 THEN s ELSE {e \in s : t <= e.at + Window}

appendFeedback(c, metrics, t) == Clean(filterByWindow(c.entries \cup metrics, t))

(* appendAuditJsonl and appendTokenLedgerJsonl trim the text and begin a   *)
(* line of their own: a torn line stays, and costs the new one nothing.    *)
appendAuditJsonl(c, e) == [entries |-> c.entries \cup {e}, bad |-> c.bad, tail |-> FALSE]

(* appendEvent goes on where the text ends: a torn line swallows the event.*)
appendEvent(c, e) ==
  [entries |-> IF c.tail THEN c.entries ELSE c.entries \cup {e}, bad |-> c.bad, tail |-> FALSE]

(* The registry with the persona in or out; the vault with the secret set. *)
savePersonas(c, o, e) ==
  Clean(IF o = "add" THEN c.entries \cup {e} ELSE c.entries \ {e})

setSecret(c, e) == Clean(c.entries \cup {e})

Changed(f, c, o, e) ==
  CASE f = "metrics.jsonl" -> appendEvent(c, e)
    [] f = "personas.json" -> savePersonas(c, o, e)
    [] f = "secrets.json"  -> setSecret(c, e)
    [] f \in {"audit.jsonl", "token-ledger.jsonl"} -> appendAuditJsonl(c, e)

-----------------------------------------------------------------------------
(* The steps of a command.                                                 *)

New == [id |-> count + 1, at |-> now]

Done(p) ==
  /\ pc'   = [pc EXCEPT ![p] = "idle"]
  /\ file' = [file EXCEPT ![p] = Nothing]
  /\ op'   = [op EXCEPT ![p] = "add"]
  /\ mine' = [mine EXCEPT ![p] = Nothing]
  /\ text' = [text EXCEPT ![p] = Blank]

(* The command is one more to work on this file.                           *)
Enter(p, f) ==
  overlap' = [overlap EXCEPT ![f] = @ \/ \E q \in Procs \ {p} :
                 pc[q] \in {"loaded", "read", "open"} /\ file[q] = f]

(* `ima feedback' first loads the contents.  One that another command has  *)
(* just truncated counts as missing: there is nothing to fetch for.        *)
LoadContents(p) ==
  /\ pc[p] = "idle"
  /\ count < MaxCommands
  /\ ~ throws("content", disk["content"])
  /\ count' = count + 1
  /\ mine'  = [mine EXCEPT ![p] = New]
  /\ \/ /\ disk["content"] = Blank
        /\ pc'   = [pc EXCEPT ![p] = "fetched"]
        /\ file' = [file EXCEPT ![p] = "feedback.json"]
        /\ op'   = [op EXCEPT ![p] = "none"]
        /\ UNCHANGED <<text, overlap>>
     \/ /\ disk["content"] # Blank
        /\ pc'   = [pc EXCEPT ![p] = "loaded"]
        /\ file' = [file EXCEPT ![p] = "content"]
        /\ text' = [text EXCEPT ![p] = disk["content"]]
        /\ Enter(p, "content")
        /\ UNCHANGED op
  /\ UNCHANGED <<disk, now, faults, recorded, torn>>

(* mutant: the content that the metric was pushed to is not saved.         *)
Fetch_unsaved(p) ==
  /\ pc[p] = "loaded"
  /\ pc'   = [pc EXCEPT ![p] = "fetched"]
  /\ file' = [file EXCEPT ![p] = "feedback.json"]
  /\ mine' = [mine EXCEPT ![p].at = now]
  /\ text' = [text EXCEPT ![p] = Blank]
  /\ UNCHANGED <<disk, now, op, count, faults, marks>>

(* fetchAndAppendEngagement asks for the metric of the post and pushes it  *)
(* to the content it loaded, or skips a post whose fetch throws.  Either   *)
(* way it goes on to save the whole content, as it was when it was loaded. *)
Fetch(p) ==
  /\ pc[p] = "loaded"
  /\ pc' = [pc EXCEPT ![p] = "read"]
  /\ \/ /\ mine' = [mine EXCEPT ![p].at = now]
        /\ text' = [text EXCEPT ![p].entries = @ \cup {mine'[p]}]
        /\ UNCHANGED op
     \/ op' = [op EXCEPT ![p] = "none"] /\ UNCHANGED <<mine, text>>
  /\ UNCHANGED <<disk, now, file, count, faults, marks>>

(* The content is saved: the metrics that were fetched go to feedback.json.*)
ReadFeedback(p) ==
  /\ pc[p] = "fetched"
  /\ ~ throws("feedback.json", disk["feedback.json"])
  /\ pc'   = [pc EXCEPT ![p] = "read"]
  /\ text' = [text EXCEPT ![p] =
                 appendFeedback(disk["feedback.json"], {e \in {mine[p]} : op[p] = "add"}, now)]
  /\ Enter(p, "feedback.json")
  /\ UNCHANGED <<disk, now, file, op, mine, count, faults, recorded, torn>>

(* The command fails; what it saved with the contents stays.               *)
ReadThrows(p) ==
  /\ pc[p] = "fetched"
  /\ throws("feedback.json", disk["feedback.json"])
  /\ Done(p)
  /\ UNCHANGED <<disk, now, count, faults, marks>>

(* Every other command reads its file first: `ima reply', `ima token-      *)
(* ledger', a metric, `ima secret set', and `ima persona', whose registry  *)
(* is loaded by createApp.                                                 *)
Read(p, f) ==
  /\ pc[p] = "idle"
  /\ f \notin {"content", "feedback.json"}
  /\ count < MaxCommands
  /\ count' = count + 1
  /\ pc'    = [pc EXCEPT ![p] = "read"]
  /\ file'  = [file EXCEPT ![p] = f]
  /\ \/ mine' = [mine EXCEPT ![p] = New] /\ UNCHANGED op
     \/ /\ f = "personas.json"
        /\ op' = [op EXCEPT ![p] = "remove"]
        /\ \E e \in loaded(f, disk[f]).entries : mine' = [mine EXCEPT ![p] = e]
  /\ text' = [text EXCEPT ![p] = Changed(f, loaded(f, disk[f]), op'[p], mine'[p])]
  /\ Enter(p, f)
  /\ UNCHANGED <<disk, now, faults, recorded, torn>>

(* A step of the pipeline, a bulk operation: whatever it changes of the    *)
(* content, it saves the engagement that it loaded.                        *)
ReadContent(p) ==
  /\ pc[p] = "idle"
  /\ count < MaxCommands
  /\ disk["content"] # Blank /\ ~ throws("content", disk["content"])
  /\ count' = count + 1
  /\ pc'    = [pc EXCEPT ![p] = "read"]
  /\ file'  = [file EXCEPT ![p] = "content"]
  /\ op'    = [op EXCEPT ![p] = "save"]
  /\ mine'  = [mine EXCEPT ![p] = New]
  /\ text'  = [text EXCEPT ![p] = disk["content"]]
  /\ Enter(p, "content")
  /\ UNCHANGED <<disk, now, faults, recorded, torn>>

(* writeFileSync opens and truncates, ...                                  *)
Open(p) ==
  /\ pc[p] = "read"
  /\ pc'   = [pc EXCEPT ![p] = "open"]
  /\ disk' = [disk EXCEPT ![file[p]] = Blank]
  /\ UNCHANGED <<now, file, op, mine, text, count, faults, marks>>

(* What cannot be parsed of a JSON file is the whole of it.                *)
Unparsable(f, s, t) ==
  [entries |-> IF f \in Lines THEN s ELSE {}, bad |-> TRUE, tail |-> f \in Lines /\ t]

(* ... and writes.  Over the text of a second writer that truncated and    *)
(* wrote meanwhile, a shorter text leaves the end of the longer one.       *)
Written(f, t) ==
  IF disk[f] = Blank THEN {t} ELSE {t, Unparsable(f, t.entries, FALSE)}

(* The feedback goes on from its content to feedback.json.                 *)
Write(p) ==
  /\ pc[p] = "open"
  /\ \E c \in Written(file[p], text[p]) : disk' = [disk EXCEPT ![file[p]] = c]
  /\ recorded' = [recorded EXCEPT ![file[p]] =
                    CASE op[p] = "add"             -> @ \cup {mine[p]}
                      [] op[p] = "remove"          -> @ \ {mine[p]}
                      [] op[p] \in {"none", "save"} -> @]
  /\ IF file[p] = "content" /\ op[p] # "save"
     THEN /\ pc'   = [pc EXCEPT ![p] = "fetched"]
          /\ file' = [file EXCEPT ![p] = "feedback.json"]
          /\ text' = [text EXCEPT ![p] = Blank]
          /\ UNCHANGED <<op, mine>>
     ELSE Done(p)
  /\ UNCHANGED <<now, count, faults, overlap, torn>>

-----------------------------------------------------------------------------
(* The process is killed.  While it writes, its file stays blank or ends   *)
(* somewhere: lines are in the order of the commands, so what is left of   *)
(* them are those before some entry, or none of them.                      *)

Beginnings(f, t) ==
  {Unparsable(f, {e \in t.entries : e.id < n.id}, TRUE) : n \in t.entries \cup {Post}}

Kill(p) ==
  /\ pc[p] # "idle"
  /\ faults < MaxFaults
  /\ faults' = faults + 1
  /\ \/ UNCHANGED disk
     \/ /\ pc[p] = "open"
        /\ \E c \in Beginnings(file[p], text[p]) : disk' = [disk EXCEPT ![file[p]] = c]
  /\ torn' = IF pc[p] # "open" THEN torn
             ELSE [torn EXCEPT ![file[p]] = IF disk'[file[p]] = Blank THEN "blank" ELSE "half"]
  /\ Done(p)
  /\ UNCHANGED <<now, count, recorded, overlap>>

Tick ==
  /\ now < MaxTime
  /\ now' = now + 1
  /\ UNCHANGED <<disk, locals, count, faults, marks>>

Command(p) ==
  \/ LoadContents(p)
  \/ Fetch(p)
  \/ ReadFeedback(p)
  \/ ReadThrows(p)
  \/ \E f \in Files : Read(p, f)
  \/ ReadContent(p)
  \/ Open(p)
  \/ Write(p)
  \/ Kill(p)

FilesNext == (\E p \in Procs : Command(p)) \/ Tick

FilesSpec == FilesInit /\ [][FilesNext]_filesVars

-----------------------------------------------------------------------------
(* Properties                                                              *)

Settled(f) == \A p \in Procs : ~ (pc[p] = "open" /\ file[p] = f)

(* The file holds what the commands recorded, no more and, but for records *)
(* of feedback that are past the window, no less.                          *)
HoldsAll(f) ==
  /\ disk[f].entries \subseteq recorded[f]
  /\ \/ recorded[f] \subseteq disk[f].entries
     \/ f = "feedback.json" /\ filterByWindow(recorded[f], now) \subseteq disk[f].entries

(* An entry that a command recorded is missing only if two commands        *)
(* overlapped on the file or one was killed while it wrote it; and of the  *)
(* ledgers and the feedback, a half-written file stays unparsable, so that *)
(* a later command never hides the loss by writing a clean one: no report  *)
(* of the ledgers is short of an entry, there is none.                     *)
LossesHaveACause ==
  \A f \in Files : Settled(f) =>
    \/ HoldsAll(f) /\ (f \in Lines => readLines(disk[f]) \in {Nothing, recorded[f]})
    \/ overlap[f]
    \/ torn[f] = "blank"
    \/ /\ torn[f] = "half"
       /\ \/ f \in Resettable
          \/ f \in Lines /\ readLines(disk[f]) = Nothing
          \/ throws(f, disk[f])

(* Every record of feedback.json was saved with its content before: the    *)
(* metric is pushed, the content saved and only then feedback.json read    *)
(* and written, and a feedback that is killed or fails in between leaves   *)
(* the metric with the content alone.  It is there still, unless commands  *)
(* that overlapped on the content saved it whole over one another, or one  *)
(* was killed while it wrote.  (The demo of bootstrap-demo.ts writes       *)
(* synthetic records of its own; it is not one of the commands here.)      *)
FeedbackBackedByContent ==
  /\ disk["feedback.json"].entries \subseteq recorded["content"]
  /\ Settled("content") =>
       \/ disk["feedback.json"].entries \subseteq disk["content"].entries
       \/ overlap["content"]
       \/ torn["content"] # "no"
=============================================================================
