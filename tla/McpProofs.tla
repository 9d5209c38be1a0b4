------------------------------ MODULE McpProofs ------------------------------
(***************************************************************************)
(* The two transports of the browser MCP server.                           *)
(*                                                                         *)
(* The sessions over HTTP, for every number of requests and identifiers: a *)
(* stream is ended once and hears nothing afterwards, and the map of       *)
(* sessions holds streams that run.  A session may be ended by its         *)
(* request, its age, a DELETE or, through the identifier, by another       *)
(* session.  What keeps these apart is the flag `closed' of its closure:   *)
(* it counts the ends, takes the heartbeat with it, and no session has it  *)
(* before it exists.                                                       *)
(***************************************************************************)
EXTENDS McpHttp, McpStdio, TLAPS

(* A session that does not exist yet has left no trace.                    *)
Unborn ==
  \A c \in Requests : stage[c] # "stream" =>
    c \notin closed /\ c \notin beating /\ c \notin aging /\ sid[c] = None

EndsCounted == \A c \in Requests : ends[c] = IF c \in closed THEN 1 ELSE 0

Named == \A c \in Requests : stage[c] = "stream" => sid[c] \in Ids

HttpInv ==
  TypeOK /\ ~ late /\ Unborn /\ EndsCounted /\ Named /\ TrackedWhileStreaming

-----------------------------------------------------------------------------

LEMMA InitHttpInv == Init => HttpInv
<1> SUFFICES ASSUME Init PROVE HttpInv
  OBVIOUS
<1> USE McpAssumption DEF Init
<1>1. TypeOK
  <2>1. listening \in BOOLEAN /\ late \in BOOLEAN
    BY Zenon
  <2>2. signals \in [Requests -> 0 .. 2] /\ ends \in [Requests -> Nat]
    OBVIOUS
  <2>3. /\ stage \in [Requests -> {"none", "reading", "handling", "stream", "answered"}]
        /\ sid \in [Requests -> Ids \cup {None}]
        /\ sessions \in [Ids -> Requests \cup {None}]
    OBVIOUS
  <2> QED
    BY <2>1, <2>2, <2>3 DEF TypeOK
<1>2. ~ late /\ Unborn /\ EndsCounted /\ Named
  BY DEF Unborn, EndsCounted, Named
<1>3. TrackedWhileStreaming
  BY DEF TrackedWhileStreaming, Streaming
<1> QED
  BY <1>1, <1>2, <1>3 DEF HttpInv

(* What the sessions are told by a closure, however it comes to run.       *)
LEMMA CleanupKeepsInv ==
  ASSUME HttpInv, NEW c \in Requests, stage[c] = "stream", cleanup(c),
         UNCHANGED <<server, stage, wantsSse, sid, late>>,
         signals' \in [Requests -> 0 .. 2], aging' \subseteq aging
  PROVE  HttpInv'
<1> USE McpAssumption
<1>1. CASE c \in closed
  <2>1. UNCHANGED <<sessions, closed, beating, ends>>
    BY <1>1 DEF cleanup
  <2>2. TypeOK'
    BY <2>1 DEF HttpInv, TypeOK, server
  <2>3. ~ late' /\ Unborn' /\ EndsCounted' /\ Named'
    BY <2>1 DEF HttpInv, Unborn, EndsCounted, Named
  <2>4. TrackedWhileStreaming'
    BY <2>1 DEF HttpInv, TrackedWhileStreaming, Streaming
  <2> QED
    BY <2>2, <2>3, <2>4 DEF HttpInv
<1>2. CASE c \notin closed
  <2>1. /\ closed' = closed \cup {c} /\ beating' = beating \ {c}
        /\ sessions' = [sessions EXCEPT ![sid[c]] = None]
        /\ ends' = [ends EXCEPT ![c] = @ + 1]
    BY <1>2 DEF cleanup
  <2>2. sid[c] \in Ids /\ ends[c] = 0
    BY <1>2 DEF HttpInv, Named, EndsCounted
  <2>3. TypeOK'
    BY <2>1, <2>2 DEF HttpInv, TypeOK, server
  <2>4. ~ late' /\ Unborn' /\ Named'
    BY <2>1 DEF HttpInv, Unborn, Named
  <2>5. EndsCounted'
    BY <1>2, <2>1, <2>2 DEF HttpInv, EndsCounted, TypeOK
  <2>6. ASSUME NEW id \in Ids, sessions'[id] # None
        PROVE  Streaming(sessions[id])' /\ sid'[sessions'[id]] = id
    <3>1. id # sid[c] /\ sessions'[id] = sessions[id]
      BY <2>1, <2>2, <2>6 DEF HttpInv, TypeOK
    <3>2. Streaming(sessions[id]) /\ sid[sessions[id]] = id /\ sessions[id] \in Requests
      BY <2>6, <3>1 DEF HttpInv, TypeOK, TrackedWhileStreaming
    <3>3. sessions[id] # c
      BY <3>1, <3>2
    <3> QED
      BY <2>1, <3>1, <3>2, <3>3 DEF Streaming, HttpInv, TypeOK
  <2>7. ASSUME NEW d \in Requests, Streaming(d)'
        PROVE  sessions'[sid'[d]] = d \/ \E e \in Requests \ {d} : sid'[e] = sid'[d]
    <3>1. d # c /\ Streaming(d)
      BY <2>1, <2>2, <2>7 DEF Streaming, HttpInv, TypeOK
    <3>2. CASE sid[d] = sid[c]
      BY <3>1, <3>2
    <3>3. CASE sid[d] # sid[c]
      <4>1. sid[d] \in Ids
        BY <3>1 DEF HttpInv, Named, Streaming
      <4>2. sessions'[sid[d]] = sessions[sid[d]]
        BY <2>1, <3>3, <4>1 DEF HttpInv, TypeOK
      <4> QED
        BY <3>1, <4>2 DEF HttpInv, TrackedWhileStreaming
    <3> QED
      BY <3>2, <3>3
  <2>8. TrackedWhileStreaming'
    BY <2>6, <2>7 DEF TrackedWhileStreaming, Streaming
  <2> QED
    BY <2>3, <2>4, <2>5, <2>8 DEF HttpInv
<1> QED
  BY <1>1, <1>2

(* A session that begins takes its identifier over, from whoever had it.   *)
LEMMA StartKeepsInv ==
  ASSUME HttpInv, NEW c \in Requests, stage[c] # "stream", startSseSession(c),
         UNCHANGED <<server, wantsSse, signals>>
  PROVE  HttpInv'
<1> USE McpAssumption
<1>1. PICK id \in Ids : sid' = [sid EXCEPT ![c] = id] /\ sessions' = [sessions EXCEPT ![id] = c]
  BY DEF startSseSession
<1>2. /\ stage' = [stage EXCEPT ![c] = "stream"]
      /\ beating' = beating \cup {c} /\ aging' = aging \cup {c}
      /\ UNCHANGED <<closed, ends, late>>
  BY DEF startSseSession
<1>3. c \notin closed /\ sid[c] = None /\ ends[c] = 0
  BY DEF HttpInv, Unborn, EndsCounted
<1>4. TypeOK'
  BY <1>1, <1>2, <1>3 DEF HttpInv, TypeOK, server
<1>5. ~ late' /\ Unborn' /\ EndsCounted'
  BY <1>1, <1>2 DEF HttpInv, TypeOK, Unborn, EndsCounted
<1>6. Named'
  BY <1>1, <1>2 DEF HttpInv, TypeOK, Named
<1>7. ASSUME NEW i \in Ids, sessions'[i] # None
      PROVE  Streaming(sessions[i])' /\ sid'[sessions'[i]] = i
  <2>1. CASE i = id
    BY <1>1, <1>2, <1>3, <2>1 DEF HttpInv, TypeOK, Streaming
  <2>2. CASE i # id
    <3>1. sessions'[i] = sessions[i] /\ sessions[i] \in Requests
      BY <1>1, <1>7, <2>2 DEF HttpInv, TypeOK
    <3>2. Streaming(sessions[i]) /\ sid[sessions[i]] = i
      BY <1>7, <3>1 DEF HttpInv, TrackedWhileStreaming
    <3>3. sessions[i] # c
      BY <3>2 DEF Streaming
    <3> QED
      BY <1>1, <1>2, <3>1, <3>2, <3>3 DEF HttpInv, TypeOK, Streaming
  <2> QED
    BY <2>1, <2>2
<1>8. ASSUME NEW d \in Requests, Streaming(d)'
      PROVE  sessions'[sid'[d]] = d \/ \E e \in Requests \ {d} : sid'[e] = sid'[d]
  <2>1. CASE d = c
    BY <1>1, <2>1 DEF HttpInv, TypeOK
  <2>2. CASE d # c
    <3>1. Streaming(d) /\ sid'[d] = sid[d] /\ sid[d] \in Ids
      BY <1>1, <1>2, <1>8, <2>2 DEF Streaming, HttpInv, TypeOK, Named
    <3>2. CASE sid[d] = id
      BY <1>1, <2>2, <3>1, <3>2 DEF HttpInv, TypeOK
    <3>3. CASE sid[d] # id /\ sessions[sid[d]] = d
      BY <1>1, <3>1, <3>3 DEF HttpInv, TypeOK
    <3>4. CASE \E e \in Requests \ {d} : sid[e] = sid[d]
      <4>1. PICK e \in Requests \ {d} : sid[e] = sid[d]
        BY <3>4
      <4>2. e # c
        BY <1>3, <3>1, <4>1
      <4> QED
        BY <1>1, <3>1, <4>1, <4>2 DEF HttpInv, TypeOK
    <3> QED
      BY <3>1, <3>2, <3>3, <3>4 DEF HttpInv, TrackedWhileStreaming
  <2> QED
    BY <2>1, <2>2
<1>9. TrackedWhileStreaming'
  BY <1>7, <1>8 DEF TrackedWhileStreaming, Streaming
<1> QED
  BY <1>4, <1>5, <1>6, <1>9 DEF HttpInv

(* Whatever leaves the sessions alone and makes no stream keeps them.      *)
LEMMA OthersKeepInv ==
  ASSUME HttpInv, TypeOK', UNCHANGED streams,
         \A c \in Requests : stage'[c] = "stream" <=> stage[c] = "stream"
  PROVE  HttpInv'
<1>1. ~ late' /\ Unborn' /\ EndsCounted' /\ Named'
  BY DEF HttpInv, Unborn, EndsCounted, Named, streams
<1>2. TrackedWhileStreaming'
  <2>1. \A c \in Requests : Streaming(c)' <=> Streaming(c)
    BY DEF Streaming, streams
  <2>2. ASSUME NEW id \in Ids, sessions'[id] # None
        PROVE  Streaming(sessions[id])' /\ sid'[sessions'[id]] = id
    <3>1. sessions[id] \in Requests /\ sessions'[id] = sessions[id]
      BY <2>2 DEF HttpInv, TypeOK, streams
    <3> QED
      BY <2>1, <2>2, <3>1 DEF HttpInv, TrackedWhileStreaming, streams
  <2> QED
    BY <2>1, <2>2 DEF HttpInv, TrackedWhileStreaming, streams
<1> QED
  BY <1>1, <1>2 DEF HttpInv

-----------------------------------------------------------------------------

LEMMA NextHttpInv == HttpInv /\ [Next]_vars => HttpInv'
<1> SUFFICES ASSUME HttpInv, [Next]_vars PROVE HttpInv'
  OBVIOUS
<1> USE McpAssumption
<1>1. CASE Start
  <2>1. TypeOK'
    BY <1>1 DEF HttpInv, TypeOK, Start, streams
  <2> QED
    BY <1>1, <2>1, OthersKeepInv DEF Start
<1>2. CASE Bound
  <2>1. TypeOK'
    BY <1>2 DEF HttpInv, TypeOK, Bound, streams
  <2> QED
    BY <1>2, <2>1, OthersKeepInv DEF Bound
<1>3. CASE Stop
  <2>1. TypeOK'
    BY <1>3 DEF HttpInv, TypeOK, Stop, streams
  <2> QED
    BY <1>3, <2>1, OthersKeepInv DEF Stop
<1>4. CASE Stopped
  <2>1. TypeOK'
    BY <1>4 DEF HttpInv, TypeOK, Stopped, streams
  <2> QED
    BY <1>4, <2>1, OthersKeepInv DEF Stopped
<1>5. ASSUME NEW c \in Requests, Get(c) PROVE HttpInv'
  BY <1>5, StartKeepsInv DEF Get
<1>6. ASSUME NEW c \in Requests, Post(c) PROVE HttpInv'
  <2>1. TypeOK'
    BY <1>6 DEF HttpInv, TypeOK, Post, streams, server
  <2>2. \A d \in Requests : stage'[d] = "stream" <=> stage[d] = "stream"
    BY <1>6 DEF HttpInv, TypeOK, Post
  <2> QED
    BY <1>6, <2>1, <2>2, OthersKeepInv DEF Post
<1>7. ASSUME NEW c \in Requests, BodyEnds(c) PROVE HttpInv'
  <2>1. TypeOK'
    BY <1>7 DEF HttpInv, TypeOK, BodyEnds, streams, server
  <2>2. \A d \in Requests : stage'[d] = "stream" <=> stage[d] = "stream"
    BY <1>7 DEF HttpInv, TypeOK, BodyEnds
  <2> QED
    BY <1>7, <2>1, <2>2, OthersKeepInv DEF BodyEnds
<1>8. ASSUME NEW c \in Requests, HandlerSettles(c) PROVE HttpInv'
  <2>1. CASE c \in wantsSse
    BY <1>8, <2>1, StartKeepsInv DEF HandlerSettles
  <2>2. CASE c \notin wantsSse
    <3>1. TypeOK'
      BY <1>8, <2>2 DEF HttpInv, TypeOK, HandlerSettles, streams, server
    <3>2. \A d \in Requests : stage'[d] = "stream" <=> stage[d] = "stream"
      BY <1>8, <2>2 DEF HttpInv, TypeOK, HandlerSettles
    <3> QED
      BY <1>8, <2>2, <3>1, <3>2, OthersKeepInv DEF HandlerSettles
  <2> QED
    BY <2>1, <2>2
<1>9. ASSUME NEW c \in Requests, RequestSignals(c) PROVE HttpInv'
  <2>1. signals' \in [Requests -> 0 .. 2]
    BY <1>9 DEF HttpInv, TypeOK, RequestSignals
  <2>2. CASE stage[c] = "stream"
    BY <1>9, <2>1, <2>2, CleanupKeepsInv DEF RequestSignals
  <2>3. CASE stage[c] # "stream"
    <3>1. UNCHANGED <<streams, server, stage, wantsSse>>
      BY <1>9, <2>3 DEF RequestSignals
    <3>2. TypeOK'
      BY <2>1, <3>1 DEF HttpInv, TypeOK, streams, server
    <3> QED
      BY <3>1, <3>2, OthersKeepInv
  <2> QED
    BY <2>2, <2>3
<1>10. ASSUME NEW c \in Requests, Ages(c) PROVE HttpInv'
  <2>1. stage[c] = "stream"
    BY <1>10 DEF Ages, HttpInv, Unborn
  <2>2. signals' \in [Requests -> 0 .. 2] /\ aging' \subseteq aging
    BY <1>10 DEF Ages, HttpInv, TypeOK
  <2> QED
    BY <1>10, <2>1, <2>2, CleanupKeepsInv DEF Ages
<1>11. ASSUME NEW c \in Requests, Heartbeat(c) PROVE HttpInv'
  <2>1. c \notin closed /\ ends[c] = 0
    BY <1>11 DEF Heartbeat, HttpInv, TypeOK, EndsCounted
  <2>2. late' = late
    BY <1>11, <2>1 DEF Heartbeat, HttpInv, TypeOK
  <2>3. UNCHANGED streams /\ UNCHANGED <<server, stage, wantsSse, signals>>
    BY <1>11, <2>2 DEF Heartbeat, streams
  <2>4. TypeOK'
    BY <2>3 DEF HttpInv, TypeOK, streams, server
  <2> QED
    BY <2>3, <2>4, OthersKeepInv
<1>12. ASSUME NEW id \in Ids, Delete(id) PROVE HttpInv'
  <2>1. sessions[id] \in Requests /\ stage[sessions[id]] = "stream"
    BY <1>12 DEF Delete, HttpInv, TypeOK, TrackedWhileStreaming, Streaming
  <2>2. signals' \in [Requests -> 0 .. 2] /\ aging' \subseteq aging
    BY <1>12 DEF Delete, HttpInv, TypeOK
  <2> QED
    BY <1>12, <2>1, <2>2, CleanupKeepsInv DEF Delete
<1>13. CASE UNCHANGED vars
  <2>1. UNCHANGED streams /\ UNCHANGED <<server, stage, wantsSse, signals>>
    BY <1>13 DEF vars
  <2>2. TypeOK'
    BY <2>1 DEF HttpInv, TypeOK, streams, server
  <2> QED
    BY <2>1, <2>2, OthersKeepInv
<1> QED
  BY <1>1, <1>2, <1>3, <1>4, <1>5, <1>6, <1>7, <1>8, <1>9, <1>10, <1>11, <1>12, <1>13 DEF Next

(* So it always holds.                                                     *)
LEMMA HttpInvHolds == Spec => []HttpInv
  BY InitHttpInv, NextHttpInv, PTL DEF Spec

(* The variables have their types, and a session that has ended has no     *)
(* heartbeat (startSseSession and its cleanup).                            *)
THEOREM TypeCorrect == Spec => []TypeOK
<1>1. HttpInv => TypeOK
  BY DEF HttpInv
<1> QED
  BY <1>1, HttpInvHolds, PTL

(* Of the request's events, the age timer, DELETE and a second session of  *)
(* the same identifier, only the first calls res.end, and the heartbeat    *)
(* never writes after it.                                                  *)
THEOREM EveryStreamEndsOnce == Spec => []StreamsEndOnce
<1>1. HttpInv => StreamsEndOnce
  BY DEF HttpInv, EndsCounted, StreamsEndOnce
<1> QED
  BY <1>1, HttpInvHolds, PTL

(* The map of sessions holds running streams only, and every one of them   *)
(* whose identifier was given to no other.                                 *)
THEOREM MapIsExact == Spec => []TrackedWhileStreaming
<1>1. HttpInv => TrackedWhileStreaming
  BY DEF HttpInv
<1> QED
  BY <1>1, HttpInvHolds, PTL

-----------------------------------------------------------------------------
(* Messages over stdin, for every number of messages and every way to lay  *)
(* them out.  Two facts carry the proof: what lies in the buffer when a    *)
(* line comes (BufferHolds), from which it follows that exactly the        *)
(* messages that are Understood are parsed; and that the session always    *)
(* shows what the messages understood so far made of it, so that a         *)
(* snapshot copies the right page however late it is answered.             *)

StdioSpec == StdioInit /\ [][StdioNext]_stdioVars

(* Nothing is left in the buffer from before m.                            *)
Fresh(m) == m > 1 => said[m - 1].layout # "padded"

Understood(m) == said[m].layout \in {"line", "wrapped"} /\ Fresh(m)

StdioTypeOK ==
  /\ said \in [Messages -> [method : Methods, layout : Layouts]]
  /\ at \in Nat \X Nat
  /\ buffer \in Seq(Nat \X Nat)
  /\ browser \in [url : Nat, title : Nat]
  /\ running \subseteq Messages
  /\ seen \in [Messages -> [url : Nat, title : Nat]]
  /\ replies \in [Messages -> Nat]

(* The next line is one that its message has.                              *)
LineExists ==
  /\ at[1] \in 1 .. MaxMessages + 1
  /\ at[2] \in 1 .. 3
  /\ at[2] > 1 => /\ at[1] \in Messages
                  /\ \/ at[2] = 2 /\ said[at[1]].layout \in {"wrapped", "pretty"}
                     \/ at[2] = 3 /\ said[at[1]].layout = "pretty"

(* What lies in the buffer: the lines of this message that were read since *)
(* the last `}', and before them what a padded message left behind.        *)
BufferHolds ==
  /\ at[2] = 1 /\ Fresh(at[1]) => buffer = <<>>
  /\ at[2] = 2 /\ Fresh(at[1]) => buffer = << <<at[1], 1>> >>
  /\ at[2] < 3 /\ ~ Fresh(at[1]) => Len(buffer) > 0 /\ buffer[1][1] < at[1]
  /\ at[2] = 3 => buffer = <<>>

ReadInv == StdioTypeOK /\ LineExists /\ BufferHolds /\ AnsweredByLine

(* The number of lines of a message.                                       *)
Count(m) == Len(LinesOf(said[m].layout))

(* The lines of each layout.                                               *)
LEMMA LinesAre ==
  /\ LinesOf("line") = <<TRUE>>
  /\ LinesOf("wrapped") = <<FALSE, TRUE>>
  /\ LinesOf("pretty") = <<FALSE, TRUE, TRUE>>
  /\ LinesOf("padded") = <<FALSE>>
BY DEF LinesOf

(* The layout of a message, its lines and those that end in `}'.           *)
LEMMA MessageIs ==
  ASSUME StdioTypeOK, NEW m \in Messages
  PROVE  /\ said[m].layout \in {"line", "wrapped", "pretty", "padded"}
         /\ said[m].layout \in {"line", "padded"} => Count(m) = 1
         /\ said[m].layout = "wrapped" => Count(m) = 2
         /\ said[m].layout = "pretty" => Count(m) = 3
         /\ LinesOf(said[m].layout)[1] <=> said[m].layout = "line"
         /\ said[m].layout \in {"wrapped", "pretty"} => LinesOf(said[m].layout)[2]
         /\ said[m].layout = "pretty" => LinesOf(said[m].layout)[3]
<1> DEFINE lines == LinesOf(said[m].layout)
<1>1. said[m].layout \in {"line", "wrapped", "pretty", "padded"}
  BY DEF StdioTypeOK, Layouts
<1>2. /\ said[m].layout = "line" => lines = <<TRUE>>
      /\ said[m].layout = "wrapped" => lines = <<FALSE, TRUE>>
      /\ said[m].layout = "pretty" => lines = <<FALSE, TRUE, TRUE>>
      /\ said[m].layout = "padded" => lines = <<FALSE>>
  BY LinesAre
<1>3. Count(m) = Len(lines)
  BY DEF Count
<1> HIDE DEF lines
<1>4. CASE said[m].layout = "line"
  <2>1. lines = <<TRUE>>
    BY <1>2, <1>4
  <2>2. Count(m) = 1 /\ lines[1]
    BY <1>3, <2>1
  <2> QED BY <1>4, <2>2 DEF lines
<1>5. CASE said[m].layout = "wrapped"
  <2>1. lines = <<FALSE, TRUE>>
    BY <1>2, <1>5
  <2>2. Count(m) = 2 /\ ~ lines[1] /\ lines[2]
    BY <1>3, <2>1
  <2> QED BY <1>5, <2>2 DEF lines
<1>6. CASE said[m].layout = "pretty"
  <2>1. lines = <<FALSE, TRUE, TRUE>>
    BY <1>2, <1>6
  <2>2. Count(m) = 3 /\ ~ lines[1] /\ lines[2] /\ lines[3]
    BY <1>3, <2>1
  <2> QED BY <1>6, <2>2 DEF lines
<1>7. CASE said[m].layout = "padded"
  <2>1. lines = <<FALSE>>
    BY <1>2, <1>7
  <2>2. Count(m) = 1 /\ ~ lines[1]
    BY <1>3, <2>1
  <2> QED BY <1>7, <2>2 DEF lines
<1> QED BY <1>1, <1>4, <1>5, <1>6, <1>7

(* Where the client is after a line.                                       *)
LEMMA AdvanceIs ==
  ASSUME ReadInv, at[1] \in Messages, Advance
  PROVE  at' = IF \/ said[at[1]].layout = "wrapped" /\ at[2] < 2
                  \/ said[at[1]].layout = "pretty" /\ at[2] < 3
               THEN <<at[1], at[2] + 1>> ELSE <<at[1] + 1, 1>>
<1>1. at[1] \in Nat /\ at[2] \in 1 .. 3 /\ StdioTypeOK
  BY DEF ReadInv, StdioTypeOK, LineExists
<1>2. at' = IF at[2] < Count(at[1]) THEN <<at[1], at[2] + 1>> ELSE <<at[1] + 1, 1>>
  BY DEF Advance, Count
<1> QED BY <1>1, <1>2, MessageIs DEF ReadInv, LineExists

(* The lines that end in `}'.                                              *)
LEMMA BraceIs ==
  ASSUME ReadInv, at[1] \in Messages
  PROVE  LinesOf(said[at[1]].layout)[at[2]] <=>
           \/ said[at[1]].layout = "line"
           \/ said[at[1]].layout \in {"wrapped", "pretty"} /\ at[2] > 1
<1>1. StdioTypeOK
  BY DEF ReadInv
<1>2. /\ at[2] \in 1 .. 3
      /\ at[2] = 2 => said[at[1]].layout \in {"wrapped", "pretty"}
      /\ at[2] = 3 => said[at[1]].layout = "pretty"
  BY DEF ReadInv, LineExists
<1>3. CASE at[2] = 1
  BY <1>1, <1>3, MessageIs
<1>4. CASE at[2] = 2
  BY <1>1, <1>2, <1>4, MessageIs
<1>5. CASE at[2] = 3
  BY <1>1, <1>2, <1>5, MessageIs
<1> QED BY <1>2, <1>3, <1>4, <1>5

(* A text is parsed if it is all of one message and nothing else.          *)
LEMMA ParsedIs ==
  ASSUME ReadInv, at[1] \in Messages, LinesOf(said[at[1]].layout)[at[2]]
  PROVE  Parsed = IF Understood(at[1]) THEN at[1] ELSE 0
<1> DEFINE m == at[1]
           text == buffer \o <<at>>
           Whole(k) == text = [i \in 1 .. Count(k) |-> <<k, i>>]
<1>1. /\ at \in Nat \X Nat /\ at = <<at[1], at[2]>> /\ at[1] \in Nat /\ at[2] \in 1 .. 3
      /\ buffer \in Seq(Nat \X Nat)
      /\ StdioTypeOK
  BY DEF ReadInv, StdioTypeOK, LineExists
<1>2. /\ text \in Seq(Nat \X Nat)
      /\ Len(text) = Len(buffer) + 1 /\ text[Len(text)] = at
      /\ buffer # <<>> => Len(buffer) > 0 /\ text[1] = buffer[1]
  BY <1>1
<1>3. ASSUME NEW k \in Messages
      PROVE  Count(k) \in 1 .. 3
  BY <1>1, MessageIs
<1> HIDE DEF text
<1>4. ASSUME NEW k \in Messages, Whole(k)
      PROVE  /\ Len(text) = Count(k)
             /\ text[1] = <<k, 1>> /\ text[Len(text)] = <<k, Count(k)>>
  <2>1. DOMAIN text = 1 .. Len(text)
    BY <1>2
  <2>2. 1 .. Len(text) = 1 .. Count(k) /\ Len(text) \in Nat
    BY <1>2, <1>4, <2>1
  <2>3. Len(text) = Count(k)
    BY <1>3, <2>2
  <2> QED BY <1>3, <1>4, <2>3
<1>5. CASE Understood(m)
  <2>1. \/ said[m].layout = "line" /\ at[2] = 1 /\ buffer = <<>>
        \/ said[m].layout = "wrapped" /\ at[2] = 2 /\ buffer = << <<m, 1>> >>
    BY <1>1, <1>5, BraceIs DEF Understood, ReadInv, LineExists, BufferHolds
  <2>2. Whole(m)
    <3>1. CASE said[m].layout = "line" /\ at[2] = 1 /\ buffer = <<>>
      <4>1. Count(m) = 1
        BY <1>1, <3>1, MessageIs
      <4>2. text = << <<m, 1>> >>
        BY <1>1, <3>1 DEF text
      <4> QED BY <4>1, <4>2
    <3>2. CASE said[m].layout = "wrapped" /\ at[2] = 2 /\ buffer = << <<m, 1>> >>
      <4>1. Count(m) = 2
        BY <1>1, <3>2, MessageIs
      <4>2. Len(text) = 2 /\ text[2] = <<m, 2>> /\ text[1] = <<m, 1>>
        <5>1. Len(buffer) = 1 /\ buffer[1] = <<m, 1>> /\ buffer # <<>>
          BY <3>2
        <5> QED BY <1>1, <1>2, <3>2, <5>1
      <4>3. text = [i \in 1 .. 2 |-> text[i]]
        <5>1. text \in [1 .. Len(text) -> Nat \X Nat]
          BY <1>2
        <5>2. text \in [1 .. 2 -> Nat \X Nat]
          BY <4>2, <5>1
        <5> QED BY <5>2
      <4> QED BY <4>1, <4>2, <4>3
    <3> QED BY <2>1, <3>1, <3>2
  <2>3. ASSUME NEW k \in Messages, Whole(k)
        PROVE  k = m
    BY <1>1, <1>2, <1>4, <2>3
  <2> QED BY <1>5, <2>2, <2>3 DEF Parsed, text, Count
<1>6. CASE ~ Understood(m)
  <2>1. ASSUME NEW k \in Messages, Whole(k)
        PROVE  FALSE
    <3>1. k = m /\ at[2] = Count(m)
      BY <1>1, <1>2, <1>4, <2>1
    <3>2. CASE ~ Fresh(m) /\ at[2] < 3
      <4>1. Len(buffer) > 0 /\ buffer[1][1] < m
        BY <1>1, <3>2 DEF ReadInv, BufferHolds
      <4>2. buffer # <<>>
        BY <4>1
      <4>3. text[1] = buffer[1]
        BY <1>2, <4>2
      <4> QED BY <1>1, <1>4, <2>1, <3>1, <4>1, <4>3
    <3>3. CASE at[2] = 3
      <4>1. buffer = <<>>
        BY <3>3 DEF ReadInv, BufferHolds
      <4> QED BY <1>2, <1>4, <2>1, <3>1, <3>3, <4>1
    <3>4. CASE Fresh(m) /\ at[2] < 3
      <4>1. said[m].layout = "pretty"
        BY <1>6, <3>4, BraceIs DEF Understood
      <4> QED BY <1>1, <3>1, <3>4, <4>1, MessageIs
    <3> QED BY <1>1, <3>2, <3>3, <3>4
  <2> QED BY <1>6, <2>1 DEF Parsed, text, Count
<1> QED BY <1>5, <1>6

(* What a tool call does to the session.                                   *)
LEMMA DispatchIs ==
  ASSUME StdioTypeOK, NEW m \in Messages, dispatch(m)
  PROVE  /\ browser' \in [url : Nat, title : Nat]
         /\ browser' = IF said[m].method = "navigate" THEN [url |-> m, title |-> m]
                       ELSE [url |-> IF said[m].method = "close" THEN 0 ELSE browser.url,
                             title |-> browser.title]
         /\ seen' = IF said[m].method = "snapshot" THEN [seen EXCEPT ![m] = browser] ELSE seen
<1>1. browser \in [url : Nat, title : Nat] /\ m \in Nat
  BY DEF StdioTypeOK, Messages
<1>2. CASE said[m].method = "initialize"
  BY <1>1, <1>2 DEF dispatch
<1>3. CASE said[m].method = "navigate"
  BY <1>1, <1>3 DEF dispatch, callTool
<1>4. CASE said[m].method = "close"
  BY <1>1, <1>4 DEF dispatch, callTool
<1>5. CASE said[m].method \notin {"initialize", "navigate", "close"}
  BY <1>1, <1>5 DEF dispatch, callTool
<1> QED BY <1>2, <1>3, <1>4, <1>5

(* Nothing is left behind when the client is done with a message, unless   *)
(* that was padded.                                                        *)
LEMMA BufferNext ==
  ASSUME ReadInv, ReadLine
  PROVE  LineExists' /\ BufferHolds' /\ buffer' \in Seq(Nat \X Nat)
<1> DEFINE m == at[1]
<1>1. /\ at \in Nat \X Nat /\ m \in Messages /\ m \in Nat /\ at[2] \in 1 .. 3 /\ StdioTypeOK
      /\ buffer \in Seq(Nat \X Nat) /\ said' = said
      /\ MaxMessages \in Nat
  BY StdioAssumption DEF ReadInv, StdioTypeOK, LineExists, ReadLine
<1>2. at' = IF \/ said[m].layout = "wrapped" /\ at[2] < 2
               \/ said[m].layout = "pretty" /\ at[2] < 3
            THEN <<m, at[2] + 1>> ELSE <<m + 1, 1>>
  BY <1>1, AdvanceIs DEF ReadLine
<1>3. buffer' = IF \/ said[m].layout = "line"
                   \/ said[m].layout \in {"wrapped", "pretty"} /\ at[2] > 1
                THEN <<>> ELSE Append(buffer, at)
  BY <1>1, BraceIs DEF ReadLine, emptied
<1>4. /\ said[m].layout \in {"line", "wrapped", "pretty", "padded"}
      /\ at[2] > 1 => said[m].layout \in {"wrapped", "pretty"}
      /\ at[2] = 3 => said[m].layout = "pretty"
  BY <1>1, MessageIs DEF ReadInv, LineExists
<1>5. LineExists'
  BY <1>1, <1>2, <1>4 DEF LineExists, Messages
<1>6. buffer' \in Seq(Nat \X Nat)
  BY <1>1, <1>3
<1>7. /\ Fresh(m + 1) <=> said[m].layout # "padded"
      /\ \A k \in Nat : Fresh(k)' <=> Fresh(k)
  BY <1>1 DEF Fresh, Messages
<1>8. Fresh(at[1])' <=> Fresh(at'[1])
  <2>1. at'[1] \in Nat
    BY <1>1, <1>2
  <2> QED BY <1>7, <2>1
<1>9. BufferHolds'
  <2>1. CASE said[m].layout = "padded"
    <3>1. at' = <<m + 1, 1>> /\ buffer' = Append(buffer, at) /\ at[2] = 1
      BY <1>1, <1>2, <1>3, <1>4, <2>1
    <3>2. Len(buffer') > 0 /\ buffer'[1][1] < m + 1
      <4>1. CASE buffer = <<>>
        BY <1>1, <3>1, <4>1
      <4>2. CASE buffer # <<>>
        <5>1. Len(buffer) > 0 /\ buffer[1][1] < m
          BY <1>1, <3>1, <4>2 DEF ReadInv, BufferHolds
        <5>2. Len(buffer') = Len(buffer) + 1 /\ buffer'[1] = buffer[1] /\ buffer[1][1] \in Nat
          BY <1>1, <3>1, <5>1
        <5> QED BY <1>1, <5>1, <5>2
      <4> QED BY <4>1, <4>2
    <3> QED BY <1>1, <1>7, <1>8, <2>1, <3>1, <3>2 DEF BufferHolds
  <2>2. CASE said[m].layout = "line"
    BY <1>1, <1>2, <1>3, <1>7, <1>8, <2>2 DEF BufferHolds
  <2>3. CASE said[m].layout \in {"wrapped", "pretty"} /\ at[2] > 1
    BY <1>1, <1>2, <1>3, <1>4, <1>7, <1>8, <2>3 DEF BufferHolds
  <2>4. CASE said[m].layout \in {"wrapped", "pretty"} /\ at[2] = 1
    <3>1. at' = <<m, 2>> /\ buffer' = Append(buffer, at) /\ at = <<m, 1>>
      BY <1>1, <1>2, <1>3, <2>4
    <3>2. Fresh(at[1])' <=> Fresh(m)
      BY <1>1, <1>8, <3>1
    <3>3. CASE Fresh(m)
      <4>1. buffer = <<>>
        BY <2>4, <3>3 DEF ReadInv, BufferHolds
      <4> QED BY <1>1, <3>1, <3>2, <3>3, <4>1 DEF BufferHolds
    <3>4. CASE ~ Fresh(m)
      <4>1. Len(buffer) > 0 /\ buffer[1][1] < m
        BY <2>4, <3>4 DEF ReadInv, BufferHolds
      <4>2. Len(buffer') = Len(buffer) + 1 /\ buffer'[1] = buffer[1]
        BY <1>1, <3>1, <4>1
      <4> QED BY <1>1, <3>1, <3>2, <3>4, <4>1, <4>2 DEF BufferHolds
    <3> QED BY <3>3, <3>4
  <2> QED BY <1>1, <1>4, <2>1, <2>2, <2>3, <2>4
<1> QED BY <1>5, <1>6, <1>9

(* Reading a line begins the handler of at[1] if that completes a message  *)
(* that is understood, and else answers nothing that has an id.            *)
LEMMA ReadLineIs ==
  ASSUME ReadInv, ReadLine
  PROVE  /\ at[1] \in Messages /\ said' = said /\ replies' = replies
         /\ \/ /\ Understood(at[1]) /\ at' = <<at[1] + 1, 1>>
               /\ dispatch(at[1]) /\ running' = running \cup {at[1]}
            \/ /\ at' = <<at[1] + 1, 1>> /\ ~ Understood(at[1])
               /\ UNCHANGED <<browser, running, seen>>
            \/ /\ at'[1] = at[1]
               /\ UNCHANGED <<browser, running, seen>>
<1> DEFINE m == at[1]
<1>1. /\ m \in Messages /\ m \in Nat \ {0} /\ at[2] \in 1 .. 3 /\ StdioTypeOK
  BY DEF ReadInv, StdioTypeOK, LineExists, ReadLine, Messages
<1>2. at' = IF \/ said[m].layout = "wrapped" /\ at[2] < 2
               \/ said[m].layout = "pretty" /\ at[2] < 3
            THEN <<m, at[2] + 1>> ELSE <<m + 1, 1>>
  BY <1>1, AdvanceIs DEF ReadLine
<1>3. CASE LinesOf(said[m].layout)[at[2]]
  <2>1. \/ said[m].layout = "line"
        \/ said[m].layout \in {"wrapped", "pretty"} /\ at[2] > 1
    BY <1>1, <1>3, BraceIs
  <2>2. Parsed = IF Understood(m) THEN m ELSE 0
    BY <1>1, <1>3, ParsedIs
  <2>3. CASE Understood(m)
    <3>1. at' = <<m + 1, 1>>
      BY <1>1, <1>2, <2>1, <2>3 DEF Understood
    <3> QED BY <1>1, <1>3, <2>2, <2>3, <3>1 DEF ReadLine
  <2>4. CASE ~ Understood(m)
    <3>1. UNCHANGED <<browser, running, seen>>
      BY <1>3, <2>2, <2>4 DEF ReadLine
    <3> QED BY <1>1, <1>2, <2>4, <3>1 DEF ReadLine
  <2> QED BY <2>3, <2>4
<1>4. CASE ~ LinesOf(said[m].layout)[at[2]]
  <2>1. UNCHANGED <<browser, running, seen>>
    BY <1>4 DEF ReadLine
  <2>2. CASE said[m].layout = "padded"
    BY <1>1, <1>2, <2>1, <2>2 DEF ReadLine, Understood
  <2>3. CASE said[m].layout # "padded"
    <3>1. said[m].layout \in {"wrapped", "pretty"} /\ at[2] = 1
      BY <1>1, <1>4, <2>3, BraceIs, MessageIs
    <3> QED BY <1>1, <1>2, <2>1, <3>1 DEF ReadLine
  <2> QED BY <2>2, <2>3
<1> QED BY <1>3, <1>4

(* v is the last of ms before m, or 0 if there is none.                    *)
IsLast(v, m, ms) ==
  \/ v = 0 /\ \A k \in ms : ~ k < m
  \/ v \in ms /\ v < m /\ \A k \in ms : k < m => k <= v

(* The messages that ask for a method and are understood.                  *)
Asking(method) == {k \in Messages : Understood(k) /\ said[k].method = method}

(* page is what a browser shows after the messages before m.               *)
ShownBefore(m, page) ==
  \E nav, close \in Nat :
    /\ IsLast(nav, m, Asking("navigate")) /\ IsLast(close, m, Asking("close"))
    /\ page = [url |-> IF close > nav THEN 0 ELSE nav, title |-> nav]

StdioInv ==
  /\ ReadInv
  /\ ShownBefore(at[1], browser)
  /\ \A m \in Asking("snapshot") : m < at[1] => ShownBefore(m, seen[m])

(* Nothing was said yet.                                                   *)
LEMMA InitStdioInv == StdioInit => StdioInv
<1> SUFFICES ASSUME StdioInit PROVE StdioInv
  OBVIOUS
<1>1. StdioTypeOK
  <2>1. /\ said \in [Messages -> [method : Methods, layout : Layouts]]
        /\ running \subseteq Messages
    BY DEF StdioInit
  <2>2. at \in Nat \X Nat /\ buffer \in Seq(Nat \X Nat)
    BY DEF StdioInit
  <2>3. browser \in [url : Nat, title : Nat]
    BY DEF StdioInit, NoPage
  <2>4. seen \in [Messages -> [url : Nat, title : Nat]] /\ replies \in [Messages -> Nat]
    BY DEF StdioInit, NoPage
  <2> QED BY <2>1, <2>2, <2>3, <2>4 DEF StdioTypeOK
<1>2. at = <<1, 1>> /\ buffer = <<>> /\ running = {} /\ \A m \in Messages : replies[m] = 0
  BY DEF StdioInit
<1>3. LineExists /\ BufferHolds
  BY <1>2, StdioAssumption DEF LineExists, BufferHolds, Fresh
<1>4. AnsweredByLine
  BY <1>2 DEF AnsweredByLine, Sent, Messages
<1>5. ShownBefore(at[1], browser)
  <2>1. \A method : IsLast(0, at[1], Asking(method))
    BY <1>2 DEF IsLast, Asking, Messages
  <2>2. browser = [url |-> IF 0 > 0 THEN 0 ELSE 0, title |-> 0]
    BY DEF StdioInit, NoPage
  <2> QED BY <2>1, <2>2 DEF ShownBefore
<1>6. \A m \in Asking("snapshot") : ~ m < at[1]
  BY <1>2 DEF Asking, Messages
<1> QED BY <1>1, <1>3, <1>4, <1>5, <1>6 DEF StdioInv, ReadInv

(* What a message was understood as does not change.                       *)
LEMMA SaidFixed ==
  ASSUME said' = said
  PROVE  /\ \A m \in Messages : Understood(m)' <=> Understood(m)
         /\ \A method : Asking(method)' = Asking(method)
         /\ \A m \in Nat : \A page : ShownBefore(m, page)' <=> ShownBefore(m, page)
<1>1. \A m \in Messages : Understood(m)' <=> Understood(m)
  BY DEF Understood, Fresh
<1>2. \A method : Asking(method)' = Asking(method)
  BY <1>1 DEF Asking
<1> QED BY <1>1, <1>2 DEF ShownBefore, IsLast

(* A message that asks for neither leaves the last one what it was.        *)
LEMMA LastNext ==
  ASSUME NEW ms \in SUBSET Nat, NEW m \in Nat, NEW v \in Nat, IsLast(v, m, ms)
  PROVE  /\ m \in ms => IsLast(m, m + 1, ms)
         /\ m \notin ms => IsLast(v, m + 1, ms)
<1>1. \A k \in ms : k \in Nat /\ (k < m + 1 <=> k < m \/ k = m)
  OBVIOUS
<1> QED BY <1>1 DEF IsLast

(* Reading a line keeps the account of the answers.                        *)
LEMMA AnsweredNext ==
  ASSUME ReadInv, ReadLine
  PROVE  AnsweredByLine'
<1> DEFINE m == at[1]
<1>1. /\ m \in Messages /\ m \in Nat /\ said' = said /\ replies' = replies
      /\ replies \in [Messages -> Nat]
  BY ReadLineIs DEF ReadInv, StdioTypeOK, Messages
<1>2. \A k \in Messages :
        replies[k] + (IF k \in running THEN 1 ELSE 0) =
          IF k < m /\ Understood(k) THEN 1 ELSE 0
  BY <1>1 DEF ReadInv, AnsweredByLine, Sent, Understood, Fresh, Messages
<1>3. \A k \in Messages :
        replies[k] + (IF k \in running' THEN 1 ELSE 0) =
          IF k < at'[1] /\ Understood(k) THEN 1 ELSE 0
  <2>1. CASE Understood(m) /\ at' = <<m + 1, 1>> /\ running' = running \cup {m}
    BY <1>1, <1>2, <2>1 DEF Messages
  <2>2. CASE ~ Understood(m) /\ at' = <<m + 1, 1>> /\ running' = running
    BY <1>1, <1>2, <2>2 DEF Messages
  <2>3. CASE at'[1] = m /\ running' = running
    BY <1>2, <2>3
  <2> QED BY <2>1, <2>2, <2>3, ReadLineIs
<1>4. \A k \in Messages :
        (IF Sent(k)' /\ Understood(k)' THEN 1 ELSE 0) =
          IF k < at'[1] /\ Understood(k) THEN 1 ELSE 0
  BY <1>1, SaidFixed DEF Sent, Messages
<1> QED BY <1>1, <1>3, <1>4 DEF AnsweredByLine, Sent, Understood, Fresh, Messages

(* Reading a line keeps what is known of the session.                      *)
LEMMA ShownNext ==
  ASSUME StdioInv, ReadLine
  PROVE  /\ ShownBefore(at[1], browser)'
         /\ \A k \in Asking("snapshot")' : k < at'[1] => ShownBefore(k, seen[k])'
<1> DEFINE m == at[1]
<1>1. /\ ReadInv /\ StdioTypeOK /\ m \in Messages /\ m \in Nat /\ said' = said
      /\ browser \in [url : Nat, title : Nat]
      /\ seen \in [Messages -> [url : Nat, title : Nat]]
  BY ReadLineIs DEF StdioInv, ReadInv, StdioTypeOK, Messages
<1>2. \A method : Asking(method) \in SUBSET Nat /\ Asking(method)' = Asking(method)
  BY <1>1, SaidFixed DEF Asking, Messages
<1>3. PICK nav \in Nat, close \in Nat :
        /\ IsLast(nav, m, Asking("navigate")) /\ IsLast(close, m, Asking("close"))
        /\ browser = [url |-> IF close > nav THEN 0 ELSE nav, title |-> nav]
  BY DEF StdioInv, ShownBefore
<1>4. nav < m \/ nav = 0
  BY <1>3 DEF IsLast
<1>5. close < m \/ close = 0
  BY <1>3 DEF IsLast
<1>6. \A k \in Asking("snapshot") : k < m => ShownBefore(k, seen[k])
  BY DEF StdioInv
<1>7. CASE Understood(m) /\ at' = <<m + 1, 1>> /\ dispatch(m)
  <2>1. /\ browser' = IF said[m].method = "navigate" THEN [url |-> m, title |-> m]
                      ELSE [url |-> IF said[m].method = "close" THEN 0 ELSE browser.url,
                            title |-> browser.title]
        /\ seen' = IF said[m].method = "snapshot" THEN [seen EXCEPT ![m] = browser] ELSE seen
    BY <1>1, <1>7, DispatchIs
  <2>2. \A method : m \in Asking(method) <=> said[m].method = method
    BY <1>1, <1>7 DEF Asking
  <2>3. m > 0
    BY <1>1 DEF Messages
  <2>4. ShownBefore(m + 1, browser')
    <3>1. CASE said[m].method = "navigate"
      <4>1. IsLast(m, m + 1, Asking("navigate")) /\ IsLast(close, m + 1, Asking("close"))
        BY <1>1, <1>2, <1>3, <2>2, <3>1, LastNext
      <4>2. browser' = [url |-> IF close > m THEN 0 ELSE m, title |-> m]
        BY <1>1, <1>5, <2>1, <3>1
      <4> QED BY <1>1, <4>1, <4>2 DEF ShownBefore
    <3>2. CASE said[m].method = "close"
      <4>1. IsLast(nav, m + 1, Asking("navigate")) /\ IsLast(m, m + 1, Asking("close"))
        BY <1>1, <1>2, <1>3, <2>2, <3>2, LastNext
      <4>2. browser' = [url |-> IF m > nav THEN 0 ELSE nav, title |-> nav]
        BY <1>1, <1>3, <1>4, <2>1, <2>3, <3>2
      <4> QED BY <1>1, <4>1, <4>2 DEF ShownBefore
    <3>3. CASE said[m].method \notin {"navigate", "close"}
      <4>1. IsLast(nav, m + 1, Asking("navigate")) /\ IsLast(close, m + 1, Asking("close"))
        BY <1>1, <1>2, <1>3, <2>2, <3>3, LastNext
      <4>2. browser' = [url |-> IF close > nav THEN 0 ELSE nav, title |-> nav]
        BY <1>1, <1>3, <2>1, <3>3
      <4> QED BY <1>1, <4>1, <4>2 DEF ShownBefore
    <3> QED BY <3>1, <3>2, <3>3
  <2>5. ASSUME NEW k \in Asking("snapshot"), k < m + 1
        PROVE  ShownBefore(k, seen'[k])
    <3>1. k \in Messages /\ k \in Nat
      BY <1>2 DEF Asking
    <3>2. CASE k = m
      <4>1. seen'[k] = browser
        BY <1>1, <2>1, <2>2, <3>2
      <4> QED BY <3>2, <4>1 DEF StdioInv
    <3>3. CASE k # m
      <4>1. seen'[k] = seen[k] /\ k < m
        BY <1>1, <2>1, <2>5, <3>1, <3>3
      <4> QED BY <1>6, <4>1
    <3> QED BY <3>2, <3>3
  <2>6. /\ ShownBefore(at'[1], browser')
        /\ \A k \in Asking("snapshot") : k < at'[1] => ShownBefore(k, seen'[k])
    BY <1>7, <2>4, <2>5
  <2> QED BY <1>1, <1>2, <2>6, <1>7, SaidFixed
<1>8. CASE at' = <<m + 1, 1>> /\ ~ Understood(m) /\ UNCHANGED <<browser, running, seen>>
  <2>1. \A method : m \notin Asking(method)
    BY <1>8 DEF Asking
  <2>2. IsLast(nav, m + 1, Asking("navigate")) /\ IsLast(close, m + 1, Asking("close"))
    BY <1>1, <1>2, <1>3, <2>1, LastNext
  <2>3. ShownBefore(m + 1, browser)
    BY <1>3, <2>2 DEF ShownBefore
  <2>4. \A k \in Asking("snapshot") : k < m + 1 => k < m
    BY <1>1, <1>2, <2>1
  <2> QED BY <1>1, <1>2, <1>6, <1>8, <2>3, <2>4, SaidFixed
<1>9. CASE at'[1] = m /\ UNCHANGED <<browser, running, seen>>
  BY <1>1, <1>2, <1>6, <1>9, SaidFixed DEF StdioInv
<1> QED BY <1>1, <1>7, <1>8, <1>9, ReadLineIs

(* Every step keeps the invariant.                                         *)
LEMMA NextStdioInv == StdioInv /\ [StdioNext]_stdioVars => StdioInv'
<1> SUFFICES ASSUME StdioInv, [StdioNext]_stdioVars PROVE StdioInv'
  OBVIOUS
<1>1. ReadInv /\ StdioTypeOK
  BY DEF StdioInv, ReadInv
<1>2. CASE ReadLine
  <2>1. at[1] \in Messages /\ at[1] \in Nat /\ at[2] \in Nat /\ Advance
    BY <1>1, <1>2 DEF ReadLine, StdioTypeOK
  <2>2. at' \in Nat \X Nat
    BY <1>1, <2>1, AdvanceIs
  <2>3. browser' \in [url : Nat, title : Nat] /\ running' \subseteq Messages
        /\ seen' \in [Messages -> [url : Nat, title : Nat]]
    <3>1. CASE dispatch(at[1]) /\ running' = running \cup {at[1]}
      BY <1>1, <2>1, <3>1, DispatchIs DEF StdioTypeOK
    <3>2. CASE UNCHANGED <<browser, running, seen>>
      BY <1>1, <3>2 DEF StdioTypeOK
    <3> QED BY <1>1, <1>2, <3>1, <3>2, ReadLineIs
  <2>4. StdioTypeOK'
    BY <1>1, <1>2, <2>2, <2>3, BufferNext DEF StdioTypeOK, ReadLine
  <2> QED BY <1>1, <1>2, <2>4, BufferNext, AnsweredNext, ShownNext DEF StdioInv, ReadInv
<1>3. ASSUME NEW m \in Messages, Settles(m) PROVE StdioInv'
  <2>1. /\ UNCHANGED <<said, at, buffer, browser, seen>>
        /\ running' = running \ {m} /\ m \in running
        /\ replies' = [replies EXCEPT ![m] = @ + 1]
    BY <1>3 DEF Settles
  <2>2. StdioTypeOK' /\ LineExists' /\ BufferHolds'
    <3>1. StdioTypeOK'
      BY <1>1, <2>1 DEF StdioTypeOK
    <3>2. LineExists'
      BY <1>1, <2>1 DEF ReadInv, LineExists
    <3>3. BufferHolds'
      BY <1>1, <2>1 DEF ReadInv, BufferHolds, Fresh
    <3> QED BY <3>1, <3>2, <3>3
  <2>3. \A k \in Messages :
          replies'[k] + (IF k \in running' THEN 1 ELSE 0) =
            replies[k] + (IF k \in running THEN 1 ELSE 0)
    BY <1>1, <2>1 DEF StdioTypeOK
  <2>4. AnsweredByLine'
    BY <1>1, <2>1, <2>3 DEF ReadInv, AnsweredByLine, Sent
  <2>5. ShownBefore(at[1], browser)'
        /\ \A k \in Asking("snapshot")' : k < at'[1] => ShownBefore(k, seen[k])'
    <3>1. at[1] \in Nat /\ \A k \in Asking("snapshot") : k \in Nat
      BY <1>1 DEF StdioTypeOK, Asking, Messages
    <3> QED BY <2>1, <3>1, SaidFixed DEF StdioInv
  <2> QED BY <2>2, <2>4, <2>5 DEF StdioInv, ReadInv
<1>4. CASE UNCHANGED stdioVars
  <2>1. UNCHANGED <<said, at, buffer, browser, seen, running, replies>>
    BY <1>4 DEF stdioVars
  <2>2. StdioTypeOK'
    BY <1>1, <2>1 DEF StdioTypeOK
  <2>3. LineExists'
    BY <1>1, <2>1 DEF ReadInv, LineExists
  <2>4. BufferHolds'
    BY <1>1, <2>1 DEF ReadInv, BufferHolds, Fresh
  <2>5. AnsweredByLine'
    BY <1>1, <2>1 DEF ReadInv, AnsweredByLine, Sent
  <2>6. ShownBefore(at[1], browser)'
        /\ \A k \in Asking("snapshot")' : k < at'[1] => ShownBefore(k, seen[k])'
    <3>1. at[1] \in Nat /\ \A k \in Asking("snapshot") : k \in Nat
      BY <1>1 DEF StdioTypeOK, Asking, Messages
    <3> QED BY <2>1, <3>1, SaidFixed DEF StdioInv
  <2> QED BY <2>2, <2>3, <2>4, <2>5, <2>6 DEF StdioInv, ReadInv
<1> QED BY <1>2, <1>3, <1>4 DEF StdioNext

(* The last of a set is the one.                                           *)
LEMMA LastIs ==
  ASSUME NEW ms \in SUBSET Nat, NEW m \in Nat, NEW v \in Nat, IsLast(v, m, ms)
  PROVE  v = IF \E k \in ms : k < m
             THEN CHOOSE k \in ms : k < m /\ \A j \in ms : j < m => j <= k
             ELSE 0
<1>1. CASE v \in ms /\ v < m /\ \A k \in ms : k < m => k <= v
  <2>1. ASSUME NEW k \in ms, k < m /\ \A j \in ms : j < m => j <= k
        PROVE  k = v
    BY <1>1, <2>1
  <2> QED BY <1>1, <2>1
<1>2. CASE v = 0 /\ \A k \in ms : ~ k < m
  BY <1>2
<1> QED BY <1>1, <1>2 DEF IsLast

(* So it always holds.                                                     *)
LEMMA StdioInvHolds == StdioSpec => []StdioInv
BY InitStdioInv, NextStdioInv, PTL DEF StdioSpec

(* One answer with its id, at most one handler for it and never both, for  *)
(* the messages that the collecting of lines in cli.ts lets through; none  *)
(* for the others.                                                         *)
THEOREM MessagesAreAnswered == StdioSpec => []AnsweredByLine
<1>1. StdioInv => AnsweredByLine
  BY DEF StdioInv, ReadInv
<1> QED BY <1>1, StdioInvHolds, PTL

(* Handlers begin in the order of the messages, so a snapshot shows the    *)
(* page of the last navigation before it although answers overtake each    *)
(* other.                                                                  *)
THEOREM SnapshotsAreInOrder == StdioSpec => []SnapshotsInOrder
<1>1. StdioInv => SnapshotsInOrder
  <2> SUFFICES ASSUME StdioInv PROVE SnapshotsInOrder
    OBVIOUS
  <2> DEFINE Begun(method) == {m \in running \cup {k \in Messages : replies[k] > 0} :
                                 said[m].method = method}
             LastBefore(m, ms) == IF \E k \in ms : k < m
                                  THEN CHOOSE k \in ms : k < m /\ \A j \in ms : j < m => j <= k
                                  ELSE 0
  <2>1. /\ AnsweredByLine /\ StdioTypeOK /\ at[1] \in Nat /\ running \subseteq Messages
        /\ replies \in [Messages -> Nat]
    BY DEF StdioInv, ReadInv, StdioTypeOK
  <2>2. \A k \in Messages : k \in running \/ replies[k] > 0 <=> k < at[1] /\ Understood(k)
    <3>1. \A k \in Messages :
            replies[k] + (IF k \in running THEN 1 ELSE 0) =
              IF k < at[1] /\ Understood(k) THEN 1 ELSE 0
      BY <2>1 DEF AnsweredByLine, Sent, Understood, Fresh, Messages
    <3> QED BY <2>1, <3>1
  <2>3. \A method : Begun(method) = {k \in Asking(method) : k < at[1]}
    BY <2>1, <2>2 DEF Asking
  <2>4. ASSUME NEW m \in Begun("snapshot")
        PROVE  LET page   == LastBefore(m, Begun("navigate"))
                   gone == LastBefore(m, Begun("close"))
               IN  seen[m] = [url |-> IF gone > page THEN 0 ELSE page, title |-> page]
    <3>1. m \in Asking("snapshot") /\ m < at[1] /\ m \in Nat
      BY <2>3 DEF Asking, Messages
    <3>2. PICK nav \in Nat, close \in Nat :
            /\ IsLast(nav, m, Asking("navigate")) /\ IsLast(close, m, Asking("close"))
            /\ seen[m] = [url |-> IF close > nav THEN 0 ELSE nav, title |-> nav]
      BY <3>1 DEF StdioInv, ShownBefore
    <3>3. ASSUME NEW method, NEW v \in Nat, IsLast(v, m, Asking(method))
          PROVE  v = LastBefore(m, Begun(method))
      <4>1. Begun(method) \in SUBSET Nat /\ Asking(method) \in SUBSET Nat
        BY <2>3 DEF Asking, Messages
      <4>2. IsLast(v, m, Begun(method))
        BY <2>1, <2>3, <3>1, <3>3, <4>1 DEF IsLast
      <4> HIDE DEF Begun
      <4> QED BY <3>1, <4>1, <4>2, LastIs
    <3>4. nav = LastBefore(m, Begun("navigate")) /\ close = LastBefore(m, Begun("close"))
      BY <3>2, <3>3
    <3> HIDE DEF Begun, LastBefore
    <3> QED BY <3>2, <3>4
  <2> QED BY <2>4 DEF SnapshotsInOrder
<1> QED BY <1>1, StdioInvHolds, PTL
=============================================================================
