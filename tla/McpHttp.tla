------------------------------- MODULE McpHttp -------------------------------
(***************************************************************************)
(* McpHttpServer (packages/browser-mcp/src/http.ts): JSON-RPC over HTTP    *)
(* POST, with event streams (SSE sessions) that live on after the request. *)
(*                                                                         *)
(* A session ends when its request reports "close" or "error", when it is  *)
(* too old, or when a client sends DELETE with its identifier, in any      *)
(* order and more than once.  Node reports "close" when the client goes    *)
(* away or when it takes the request for complete, which may be before the *)
(* session that would listen for it exists.  One callback runs at a time.  *)
(***************************************************************************)
EXTENDS Naturals

CONSTANTS
  Requests,  \* bound: the GET and POST requests that ever arrive
  Ids,       \* what `s-<time>-<random>' may yield: not unique
  None       \* no session

ASSUME McpAssumption == None \notin Requests \cup Ids /\ Ids # {}

VARIABLES
  socket,     \* "closed", "binding", "bound" or "closing": node's server
  listening,  \* the field of that name
  stage,      \* where each request is
  wantsSse,   \* does a POST accept an event stream
  signals,    \* "close" and "error" events of each request so far
  sid,        \* the session identifier each request was given
  sessions,   \* the map from identifiers to sessions
  closed,     \* the sessions whose closure has `closed' set
  beating,    \* the sessions whose heartbeat interval is armed
  aging,      \* the sessions whose age timer is armed
  ends,       \* history: how often res.end was called
  late        \* history: was anything written after res.end

server == <<socket, listening>>
streams == <<sid, sessions, closed, beating, aging, ends, late>>
vars == <<server, stage, wantsSse, signals, streams>>

(* The variables have their types; only a session that has not ended has a *)
(* heartbeat interval.                                                     *)
TypeOK ==
  /\ socket \in {"closed", "binding", "bound", "closing"}
  /\ listening \in BOOLEAN
  /\ stage \in [Requests -> {"none", "reading", "handling", "stream", "answered"}]
  /\ wantsSse \subseteq Requests
  /\ signals \in [Requests -> 0 .. 2]
  /\ sid \in [Requests -> Ids \cup {None}]
  /\ sessions \in [Ids -> Requests \cup {None}]
  /\ closed \subseteq Requests
  /\ beating \subseteq Requests \ closed
  /\ aging \subseteq Requests
  /\ ends \in [Requests -> Nat]
  /\ late \in BOOLEAN

Init ==
  /\ socket = "closed" /\ listening = FALSE
  /\ stage = [c \in Requests |-> "none"]
  /\ wantsSse = {}
  /\ signals = [c \in Requests |-> 0]
  /\ sid = [c \in Requests |-> None]
  /\ sessions = [id \in Ids |-> None]
  /\ closed = {} /\ beating = {} /\ aging = {}
  /\ ends = [c \in Requests |-> 0]
  /\ late = FALSE

-----------------------------------------------------------------------------
(* start() and stop().  While one of them is under way, or when there is   *)
(* nothing to do, the other calls return or reject and change nothing.     *)

Start ==
  /\ ~ listening /\ socket = "closed"
  /\ socket' = "binding"
  /\ UNCHANGED <<listening, stage, wantsSse, signals, streams>>

Bound ==
  /\ socket = "binding"
  /\ \/ socket' = "bound" /\ listening' = TRUE
     \/ socket' = "closed" /\ UNCHANGED listening
  /\ UNCHANGED <<stage, wantsSse, signals, streams>>

Stop ==
  /\ listening /\ socket = "bound"
  /\ socket' = "closing"
  /\ UNCHANGED <<listening, stage, wantsSse, signals, streams>>

(* A connection is open from the request to the end of its response.  A    *)
(* "close" may mean that it broke or only that its request is complete.    *)
Open(c) ==
  \/ stage[c] = "reading" /\ signals[c] = 0
  \/ stage[c] = "handling"
  \/ stage[c] = "stream" /\ ends[c] = 0

(* server.close calls back when no connection is left.                     *)
Stopped ==
  /\ socket = "closing"
  /\ \A c \in Requests : Open(c) => signals[c] > 0
  /\ socket' = "closed" /\ listening' = FALSE
  /\ UNCHANGED <<stage, wantsSse, signals, streams>>

-----------------------------------------------------------------------------
(* Sessions.                                                               *)

(* mutants: cleanup runs again at each event; it leaves the entry behind;  *)
(* it leaves the interval armed.                                           *)
cleanup_again(c) ==
  /\ closed' = closed \cup {c}
  /\ beating' = beating \ {c}
  /\ sessions' = [sessions EXCEPT ![sid[c]] = None]
  /\ ends' = [ends EXCEPT ![c] = @ + 1]
cleanup_keepsEntry(c) ==
  IF c \in closed
  THEN UNCHANGED <<sessions, closed, beating, ends>>
  ELSE /\ closed' = closed \cup {c}
       /\ beating' = beating \ {c}
       /\ UNCHANGED sessions
       /\ ends' = [ends EXCEPT ![c] = @ + 1]
cleanup_keepsBeating(c) ==
  IF c \in closed
  THEN UNCHANGED <<sessions, closed, beating, ends>>
  ELSE /\ closed' = closed \cup {c}
       /\ sessions' = [sessions EXCEPT ![sid[c]] = None]
       /\ ends' = [ends EXCEPT ![c] = @ + 1]
       /\ UNCHANGED beating

(* The closure of a session.  It deletes whatever session the map holds    *)
(* under its identifier.                                                   *)
cleanup(c) ==
  IF c \in closed
  THEN UNCHANGED <<sessions, closed, beating, ends>>
  ELSE /\ closed' = closed \cup {c}
       /\ beating' = beating \ {c}
       /\ sessions' = [sessions EXCEPT ![sid[c]] = None]
       /\ ends' = [ends EXCEPT ![c] = @ + 1]

(* mutant: no age timer, as if every session heard of its client's end.    *)
startSseSession_ageless(c) ==
  /\ stage' = [stage EXCEPT ![c] = "stream"]
  /\ \E id \in Ids :
       /\ sid' = [sid EXCEPT ![c] = id]
       /\ sessions' = [sessions EXCEPT ![id] = c]
  /\ beating' = beating \cup {c}
  /\ UNCHANGED <<aging, closed, ends, late>>

startSseSession(c) ==
  /\ stage' = [stage EXCEPT ![c] = "stream"]
  /\ \E id \in Ids :
       /\ sid' = [sid EXCEPT ![c] = id]
       /\ sessions' = [sessions EXCEPT ![id] = c]
  /\ beating' = beating \cup {c}
  /\ aging' = aging \cup {c}
  /\ UNCHANGED <<closed, ends, late>>

-----------------------------------------------------------------------------
(* Requests.  A closing server still serves the connections it has.        *)

Reachable ==
  \/ socket = "bound"
  \/ socket = "closing" /\ \E c \in Requests : Open(c)

Get(c) ==
  /\ Reachable /\ stage[c] = "none"
  /\ startSseSession(c)
  /\ UNCHANGED <<server, wantsSse, signals>>

Post(c) ==
  /\ Reachable /\ stage[c] = "none"
  /\ stage' = [stage EXCEPT ![c] = "reading"]
  /\ wantsSse' \in {wantsSse, wantsSse \cup {c}}
  /\ UNCHANGED <<server, signals, streams>>

(* The body has arrived: empty or not JSON, it is answered at once.        *)
BodyEnds(c) ==
  /\ stage[c] = "reading" /\ signals[c] = 0
  /\ \E next \in {"handling", "answered"} : stage' = [stage EXCEPT ![c] = next]
  /\ UNCHANGED <<server, wantsSse, signals, streams>>

(* The handler's promise settles; a rejection is answered like a result.   *)
HandlerSettles(c) ==
  /\ stage[c] = "handling"
  /\ IF c \in wantsSse
     THEN startSseSession(c)
     ELSE stage' = [stage EXCEPT ![c] = "answered"] /\ UNCHANGED streams
  /\ UNCHANGED <<server, wantsSse, signals>>

(* A "close" or "error" of the request; a session that exists by then hears*)
(* of it.                                                                  *)
RequestSignals(c) ==
  /\ stage[c] \in {"reading", "handling", "stream"} /\ signals[c] < 2
  /\ signals' = [signals EXCEPT ![c] = @ + 1]
  /\ IF stage[c] = "stream"
     THEN cleanup(c) /\ UNCHANGED <<sid, aging, late>>
     ELSE UNCHANGED streams
  /\ UNCHANGED <<server, stage, wantsSse>>

(* DELETE answers 204 whether or not the map knows the session.            *)
Delete(id) ==
  /\ Reachable /\ sessions[id] # None
  /\ cleanup(sessions[id])
  /\ UNCHANGED <<server, stage, wantsSse, signals, sid, aging, late>>

(* The age timer is never cleared: it also fires after the end.            *)
Ages(c) ==
  /\ c \in aging
  /\ aging' = aging \ {c}
  /\ cleanup(c)
  /\ UNCHANGED <<server, stage, wantsSse, signals, sid, late>>

Heartbeat(c) ==
  /\ c \in beating
  /\ late' = (late \/ ends[c] > 0)
  /\ UNCHANGED <<server, stage, wantsSse, signals, sid, sessions, closed,
                 beating, aging, ends>>

Next ==
  \/ Start
  \/ Bound
  \/ Stop
  \/ Stopped
  \/ \E c \in Requests : Get(c)
  \/ \E c \in Requests : Post(c)
  \/ \E c \in Requests : BodyEnds(c)
  \/ \E c \in Requests : HandlerSettles(c)
  \/ \E c \in Requests : RequestSignals(c)
  \/ \E c \in Requests : Ages(c)
  \/ \E c \in Requests : Heartbeat(c)
  \/ \E id \in Ids : Delete(id)

Spec == Init /\ [][Next]_vars

(* Handlers settle, ages run out, server.close calls back when certainly no*)
(* connection is left, and a body ends or its request is given up (Node's  *)
(* request timeout).  Nobody has to send a request, close a stream or stop *)
(* the server.                                                             *)
Fairness ==
  /\ WF_vars(Stopped /\ \A c \in Requests : ~ Open(c))
  /\ \A c \in Requests :
       /\ WF_vars(HandlerSettles(c))
       /\ WF_vars(Ages(c))
       /\ WF_vars(stage[c] = "reading" /\ (BodyEnds(c) \/ RequestSignals(c)))

-----------------------------------------------------------------------------
(* Properties                                                              *)

Streaming(c) == stage[c] = "stream" /\ ends[c] = 0

(* However the reasons for its end coincide (client, error, age, DELETE,   *)
(* a second session of the same identifier), a stream is ended once and    *)
(* nothing, no heartbeat either, is written to it afterwards.              *)
StreamsEndOnce == ~ late /\ \A c \in Requests : ends[c] <= 1

(* The map is exact: sessionCount() and DELETE never meet a session that    *)
(* has ended, and a stream is tracked, so that DELETE can end it, unless    *)
(* another session was given the same identifier.                          *)
TrackedWhileStreaming ==
  /\ \A id \in Ids : sessions[id] # None =>
       Streaming(sessions[id]) /\ sid[sessions[id]] = id
  /\ \A c \in Requests : Streaming(c) =>
       \/ sessions[sid[c]] = c
       \/ \E d \in Requests \ {c} : sid[d] = sid[c]

(* Every stream ends, also one whose "close" came before it could listen   *)
(* for it and one that lost its identifier to another.                     *)
StreamsEnd == \A c \in Requests : Streaming(c) ~> ends[c] > 0

(* stop() completes although it ends no stream itself: the streams age,    *)
(* and with finitely many requests that is enough.                         *)
StopCompletes == socket = "closing" ~> socket = "closed"
=============================================================================
