------------------------------ MODULE McpStdio ------------------------------
(***************************************************************************)
(* The browser MCP server over stdin and stdout (packages/browser-mcp/src: *)
(* cli.ts, server.ts and the stub of browser.ts).                          *)
(*                                                                         *)
(* A client writes one JSON-RPC message after the other and may lay each   *)
(* out over several lines.  The server collects lines until one ends in    *)
(* `}' and takes what it has for a message.  The handler of a message      *)
(* begins at once, so that the browser sees the messages in their order;   *)
(* its answer comes later, and answers overtake each other.                *)
(***************************************************************************)
EXTENDS Naturals, Sequences

CONSTANTS
  MaxMessages,  \* bound: the messages the client sends
  Methods       \* bound: what they ask for

Messages == 1 .. MaxMessages

(* How a message is laid out, as the lines it takes: does each end in `}'? *)
(*   line     the whole message                                            *)
(*   wrapped  two lines, only the second of which ends in `}'              *)
(*   pretty   three lines, of which the last two are `}'                   *)
(*   padded   the whole message and a blank behind it                      *)
LinesOf(layout) ==
  CASE layout = "line"    -> <<TRUE>>
    [] layout = "wrapped" -> <<FALSE, TRUE>>
    [] layout = "pretty"  -> <<FALSE, TRUE, TRUE>>
    [] layout = "padded"  -> <<FALSE>>

Layouts == {"line", "wrapped", "pretty", "padded"}

ASSUME StdioAssumption ==
  /\ MaxMessages \in Nat
  /\ Methods \subseteq {"initialize", "navigate", "snapshot", "click", "close", "unknown"}

VARIABLES
  said,     \* what the client sends: the method and layout of each message
  at,       \* the message and the line of it that comes next
  buffer,   \* the lines collected so far
  browser,  \* the session: the messages its url and its title come from, 0
            \* for none
  opened,   \* is there a session
  running,  \* the messages whose handler has not answered
  seen,     \* what each snapshot saw, when its handler began
  replies,  \* the answers that carry the id of each message
  refusals  \* the answers with id 0

stdioVars == <<said, at, buffer, browser, opened, running, seen, replies, refusals>>

NoPage == [url |-> 0, title |-> 0]

StdioInit ==
  /\ said \in [Messages -> [method : Methods, layout : Layouts]]
  /\ at = <<1, 1>>
  /\ buffer = <<>>
  /\ browser = NoPage /\ opened = FALSE
  /\ running = {}
  /\ seen = [m \in Messages |-> NoPage]
  /\ replies = [m \in Messages |-> 0]
  /\ refusals = 0

(* JSON.parse of the collected lines: the message they are, or 0.          *)
Parsed ==
  LET whole == {m \in Messages :
        buffer \o <<at>> = [i \in 1 .. Len(LinesOf(said[m].layout)) |-> <<m, i>>]}
  IN  IF whole = {} THEN 0 ELSE CHOOSE m \in whole : TRUE

(* mutant: close leaves the page as it is.                                 *)
callTool_closeFirst(m) ==
  /\ opened' = TRUE
  /\ browser' = CASE said[m].method = "navigate" -> [url |-> m, title |-> m]
                  [] said[m].method = "close"    -> browser
                  [] OTHER                       -> browser
  /\ seen' = IF said[m].method = "snapshot" THEN [seen EXCEPT ![m] = browser] ELSE seen

(* The synchronous part of a tool call: the session is created at the first*)
(* one, the unknown tool included, and kept; close forgets the url only.   *)
callTool(m) ==
  /\ opened' = TRUE
  /\ browser' = CASE said[m].method = "navigate" -> [url |-> m, title |-> m]
                  [] said[m].method = "close"    -> [browser EXCEPT !.url = 0]
                  [] OTHER                       -> browser
  /\ seen' = IF said[m].method = "snapshot" THEN [seen EXCEPT ![m] = browser] ELSE seen

dispatch(m) ==
  IF said[m].method = "initialize"
  THEN UNCHANGED <<opened, browser, seen>>
  ELSE callTool(m)

(* The client goes on to its next line.                                    *)
Advance ==
  at' = IF at[2] < Len(LinesOf(said[at[1]].layout))
        THEN <<at[1], at[2] + 1>> ELSE <<at[1] + 1, 1>>

(* mutant: the buffer is emptied after a message only.                     *)
emptied_ifParsed(m) == IF m = 0 THEN buffer \o <<at>> ELSE <<>>

(* The buffer is emptied before the text is parsed.                        *)
emptied(m) == <<>>

ReadLine ==
  /\ at[1] \in Messages
  /\ Advance
  /\ IF ~ LinesOf(said[at[1]].layout)[at[2]]
     THEN /\ buffer' = Append(buffer, at)
          /\ UNCHANGED <<browser, opened, running, seen, refusals>>
     ELSE LET m == Parsed
          IN  /\ buffer' = emptied(m)
              /\ IF m = 0
                 THEN /\ refusals' = refusals + 1
                      /\ UNCHANGED <<browser, opened, running, seen>>
                 ELSE /\ dispatch(m)
                      /\ running' = running \cup {m}
                      /\ UNCHANGED refusals
  /\ UNCHANGED <<said, replies>>

(* handle answers a result or, with the same id, the error of an unknown   *)
(* method or tool.                                                         *)
Settles(m) ==
  /\ m \in running
  /\ running' = running \ {m}
  /\ replies' = [replies EXCEPT ![m] = @ + 1]
  /\ UNCHANGED <<said, at, buffer, browser, opened, seen, refusals>>

StdioNext == ReadLine \/ \E m \in Messages : Settles(m)

-----------------------------------------------------------------------------
(* Properties                                                              *)

Sent(m) == at[1] > m

(* A message is answered exactly once with its id if `}' ends its last line*)
(* and no other, and ended the last line before it; any other message      *)
(* never.  One that is laid out otherwise spoils no more than the message  *)
(* after it.                                                               *)
AnsweredByLine ==
  \A m \in Messages :
    LET understood == /\ said[m].layout \in {"line", "wrapped"}
                      /\ m > 1 => said[m - 1].layout # "padded"
    IN  replies[m] + (IF m \in running THEN 1 ELSE 0) =
          IF Sent(m) /\ understood THEN 1 ELSE 0

(* However the answers overtake each other, a snapshot shows the page of   *)
(* the last navigation understood before it, and no url if the browser was *)
(* closed since.                                                           *)
SnapshotsInOrder ==
  LET Begun(method) == {m \in running \cup {k \in Messages : replies[k] > 0} :
                          said[m].method = method}
      LastBefore(m, ms) == IF \E k \in ms : k < m
                           THEN CHOOSE k \in ms : k < m /\ \A j \in ms : j < m => j <= k
                           ELSE 0
  IN  \A m \in Begun("snapshot") :
        LET page   == LastBefore(m, Begun("navigate"))
            closed == LastBefore(m, Begun("close"))
        IN  seen[m] = [url |-> IF closed > page THEN 0 ELSE page, title |-> page]
=============================================================================
