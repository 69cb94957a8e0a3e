-------------------------- MODULE MCMcpConnections --------------------------
(* An instance of McpConnections for TLC.                                     *)
EXTENDS McpConnections

\* One local and one remote server, for calls from two scopes.
TestSources ==
  {[transport |-> "stdio", target |-> "npx", rest |-> "a"],
   [transport |-> "remote", target |-> "mcp.test", rest |-> ""]}

\* Two local servers that differ in their arguments.
SameCommand ==
  {[transport |-> "stdio", target |-> "npx", rest |-> "a"],
   [transport |-> "stdio", target |-> "npx", rest |-> "b"]}

\* The state up to the names of the connections, each known by what it is and
\* who has it, and without what is never read again: what closed connections
\* were, and the history of calls that are not running.
Relevant ==
  <<{<<conn[n], {k \in Keys : cache[k] = n}, {c \in Calls : call[c].conn = n},
       {c \in Calls : call[c].first = n}>> : n \in {m \in Conns : Open(m)}},
    [k \in Keys |-> IF cache[k] \in Conns THEN "open" ELSE cache[k]],
    [c \in Calls |-> [call[c] EXCEPT !.conn = None, !.first = None]],
    [c \in Calls |-> IF InFlight(c) THEN over[c] ELSE {}]>>
=============================================================================
