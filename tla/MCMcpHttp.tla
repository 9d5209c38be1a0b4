------------------------------ MODULE MCMcpHttp ------------------------------
(* Both transports of the MCP server for TLC: three requests and two       *)
(* identifiers over HTTP, or a few messages over stdin.  A behaviour uses  *)
(* one of them.                                                            *)
EXTENDS McpHttp, McpStdio

CONSTANTS c1, c2, c3, i1, i2

VARIABLE transport

MCInit ==
  /\ Init /\ StdioInit
  /\ transport \in {"http", "stdio"}
  /\ transport = "http" => said = [m \in Messages |-> [method |-> "close", layout |-> "line"]]

OverHttp  == transport = "http" /\ Next /\ UNCHANGED stdioVars
OverStdio == transport = "stdio" /\ StdioNext /\ UNCHANGED vars

(* The client has sent everything and every answer is out.                 *)
EndOfInput ==
  /\ transport = "stdio" /\ at[1] \notin Messages /\ running = {}
  /\ UNCHANGED <<vars, stdioVars>>

MCNext == UNCHANGED transport /\ (OverHttp \/ OverStdio \/ EndOfInput)

MCSpec == MCInit /\ [][MCNext]_<<transport, vars, stdioVars>> /\ Fairness
=============================================================================
