---------------------------- MODULE McpConnections ----------------------------
(***************************************************************************)
(* The calls of MCP tools and the connections they share                   *)
(* (packages/plugins/mcp/src/sdk/invoke.ts, and the runtime in plugin.ts):  *)
(* a connection is cached under a key made from the source and the scope    *)
(* of the caller, used by several calls at a time, and replaced when a call *)
(* on it fails, which is then made once more.                              *)
(*                                                                         *)
(* The cache is Effect's ScopedCache: of several calls that miss the same   *)
(* key one opens the connection and the others wait for it; what the opening *)
(* gave, a connection or a failure, replaces the entry; a connection is     *)
(* closed when it has left the cache and the last call holding it has ended. *)
(***************************************************************************)
EXTENDS Integers, FiniteSets

CONSTANTS
  Sources,  \* stored source data: [transport, target, rest]
  Scopes,   \* the innermost scopes of the callers
  Calls,    \* calls that may be outstanding at the same time
  Conns,    \* connections; a closed one stands for a new one later
  None

(* Mutant: the scope of the credentials is not in the key.                 *)
KeyWithoutScope(source, scope) == <<source.transport, None, source.target>>

\* connectionCacheKey: a local server is known by its command (target), a remote
\* one by its endpoint (target) and the scope its credentials are resolved in.
\* Arguments and environment, headers and query parameters (rest) are not in it.
Key(source, scope) ==
  <<source.transport, IF source.transport = "stdio" THEN None ELSE scope, source.target>>

Keys == {Key(s, u) : s \in Sources, u \in Scopes}

ASSUME ConnectionsAssumption ==
  /\ Sources \subseteq [transport : {"stdio", "remote"}, target : STRING, rest : STRING]
  /\ Calls # {} /\ Scopes # {} /\ Sources # {}
  /\ IsFiniteSet(Conns)
  /\ None \notin Sources \cup Scopes \cup Calls \cup Conns
  /\ "failed" \notin Calls \cup Conns \cup {None}
  /\ Calls \cap Conns = {}

VARIABLES
  cache,  \* connectionCache by key: a connection, "failed", or the call opening
  conn,   \* the connections: what each was opened for, and whose elicit the
          \* handler of ElicitRequestSchema calls
  call,   \* the calls
  over    \* history: the calls that began on a call's connection during it

vars == <<cache, conn, call, over>>

ConnType == [source : Sources \cup {None}, scope : Scopes \cup {None},
             handler : Calls \cup {None}]

\* `opener` is the call whose opening this one waits for, `first` the connection
\* the first attempt was made on, `askee` the call whose elicit was asked.
CallType ==
  [pc : {"idle", "opening", "connected", "calling", "asking", "failed", "again"},
   source : Sources \cup {None}, scope : Scopes \cup {None},
   conn : Conns \cup {None}, first : Conns \cup {None},
   opener : Calls \cup {None}, askee : Calls \cup {None}]

TypeOK ==
  /\ cache \in [Keys -> Conns \cup Calls \cup {None, "failed"}]
  /\ conn \in [Conns -> ConnType]
  /\ call \in [Calls -> CallType]
  /\ over \in [Calls -> SUBSET Calls]

Unused == [source |-> None, scope |-> None, handler |-> None]
Idle == [pc |-> "idle", source |-> None, scope |-> None, conn |-> None,
         first |-> None, opener |-> None, askee |-> None]

\* makeRuntime.
Init ==
  /\ cache = [k \in Keys |-> None]
  /\ conn = [n \in Conns |-> Unused]
  /\ call = [c \in Calls |-> Idle]
  /\ over = [c \in Calls |-> {}]
-----------------------------------------------------------------------------
KeyOf(r) == Key(r.source, r.scope)

\* A connection is open while the cache or a call has it.
Open(n) == \/ \E k \in Keys : cache[k] = n
           \/ \E c \in Calls : n \in {call[c].conn, call[c].first}

InFlight(c) == call[c].pc \in {"calling", "asking"}

\* connectionCache.get for call c, whose record is r.  The connector the lookup
\* reads from pendingConnectors is c's, put there immediately before.
Get(c, r) ==
  LET found == cache[KeyOf(r)]
  IN \/ /\ found \in Conns
        /\ call' = [call EXCEPT ![c] = [r EXCEPT !.pc = "connected", !.conn = found]]
        /\ UNCHANGED cache
     \/ /\ found = "failed"
        /\ call' = [call EXCEPT ![c] = Idle]
        /\ UNCHANGED cache
     \/ /\ found \in Calls
        /\ call' = [call EXCEPT ![c] = [r EXCEPT !.pc = "opening", !.opener = found]]
        /\ UNCHANGED cache
     \/ /\ found = None
        /\ call' = [call EXCEPT ![c] = [r EXCEPT !.pc = "opening", !.opener = c]]
        /\ cache' = [cache EXCEPT ![KeyOf(r)] = c]

\* The calls that get what call c opened.
Waiting(c) == {d \in Calls : call[d].pc = "opening" /\ call[d].opener = c}
Opening(c) == call[c].pc = "opening" /\ call[c].opener = c
-----------------------------------------------------------------------------
\* invokeMcpTool, up to the connection.
Begin(c) ==
  /\ call[c].pc = "idle"
  /\ \E source \in Sources, scope \in Scopes :
       Get(c, [Idle EXCEPT !.source = source, !.scope = scope])
  /\ UNCHANGED <<conn, over>>

\* The lookup: the connector of call c, and the entry it leaves.  A connection
\* that was in the entry goes when no call holds it.
Opened(c) ==
  /\ Opening(c)
  /\ \E n \in Conns : ~Open(n)
  /\ LET n == CHOOSE m \in Conns : ~Open(m)  \* which one makes no difference
     IN
       /\ conn' = [conn EXCEPT ![n] = [source |-> call[c].source,
                                       scope |-> call[c].scope, handler |-> None]]
       /\ cache' = [cache EXCEPT ![KeyOf(call[c])] = n]
       /\ call' = [d \in Calls |->
            IF d \in Waiting(c)
            THEN [call[d] EXCEPT !.pc = "connected", !.conn = n, !.opener = None]
            ELSE call[d]]
  /\ UNCHANGED over

\* A failed opening is not tried again by the calls it fails.
OpenFails(c) ==
  /\ Opening(c)
  /\ cache' = [cache EXCEPT ![KeyOf(call[c])] = "failed"]
  /\ call' = [d \in Calls |-> IF d \in Waiting(c) THEN Idle ELSE call[d]]
  /\ UNCHANGED <<conn, over>>

(* Mutant: the handler is set once for a connection.                       *)
UseKeepsHandler(c) ==
  /\ call[c].pc = "connected"
  /\ conn' = [conn EXCEPT ![call[c].conn].handler = IF @ = None THEN c ELSE @]
  /\ call' = [call EXCEPT ![c].pc = "calling"]
  /\ over' = [d \in Calls |->
       IF d = c THEN {}
       ELSE IF InFlight(d) /\ call[d].conn = call[c].conn THEN over[d] \cup {c}
       ELSE over[d]]
  /\ UNCHANGED cache

\* useConnection: the handler is set for every call, whoever else is using the
\* connection.
Use(c) ==
  /\ call[c].pc = "connected"
  /\ conn' = [conn EXCEPT ![call[c].conn].handler = c]
  /\ call' = [call EXCEPT ![c].pc = "calling"]
  /\ over' = [d \in Calls |->
       IF d = c THEN {}
       ELSE IF InFlight(d) /\ call[d].conn = call[c].conn THEN over[d] \cup {c}
       ELSE over[d]]
  /\ UNCHANGED cache

\* The server asks something during call c: the handler passes it to the elicit
\* of the call that set it.
Asks(c) ==
  /\ call[c].pc = "calling"
  /\ call' = [call EXCEPT ![c].pc = "asking", ![c].askee = conn[call[c].conn].handler]
  /\ UNCHANGED <<cache, conn, over>>

\* Accepted, declined or cancelled: the server gets an answer and goes on.
Answered(c) ==
  /\ call[c].pc = "asking"
  /\ call' = [call EXCEPT ![c].pc = "calling", ![c].askee = None]
  /\ UNCHANGED <<cache, conn, over>>

Replies(c) ==
  /\ call[c].pc = "calling"
  /\ call' = [call EXCEPT ![c] = Idle]
  /\ UNCHANGED <<cache, conn, over>>

\* callTool rejects, with or without a question open.
CallFails(c) ==
  /\ InFlight(c)
  /\ call' = [call EXCEPT ![c] = IF call[c].first = None
                                 THEN [@ EXCEPT !.pc = "failed", !.askee = None]
                                 ELSE Idle]
  /\ UNCHANGED <<cache, conn, over>>

(* Mutant: the entry is not dropped before the retry.                      *)
InvalidateNothing(c) ==
  /\ call[c].pc = "failed"
  /\ call' = [call EXCEPT ![c].pc = "again", ![c].first = call[c].conn,
                          ![c].conn = None]
  /\ UNCHANGED <<cache, conn, over>>

\* Whatever the key has by now is dropped, a connection another call opened
\* since included.  When that connection is closed by it, the call waits for
\* the closing.  The first connection is held until the call ends.
Invalidate(c) ==
  /\ call[c].pc = "failed"
  /\ cache' = [cache EXCEPT ![KeyOf(call[c])] = None]
  /\ call' = [call EXCEPT ![c].pc = "again", ![c].first = call[c].conn,
                          ![c].conn = None]
  /\ UNCHANGED <<conn, over>>

Again(c) ==
  /\ call[c].pc = "again"
  /\ Get(c, call[c])
  /\ UNCHANGED <<conn, over>>

\* The time to live of an entry, or the capacity of the cache.
Expire(k) ==
  /\ cache[k] \in Conns \cup {"failed"}
  /\ cache' = [cache EXCEPT ![k] = None]
  /\ UNCHANGED <<conn, call, over>>
-----------------------------------------------------------------------------
Step(c) == \/ Begin(c) \/ Opened(c) \/ OpenFails(c) \/ Use(c) \/ Asks(c)
           \/ Answered(c) \/ Replies(c) \/ CallFails(c) \/ Invalidate(c) \/ Again(c)

Next == (\E c \in Calls : Step(c)) \/ (\E k \in Keys : Expire(k))

Spec == Init /\ [][Next]_vars
-----------------------------------------------------------------------------
(* Properties.                                                             *)

\* A question a server asks during a call is put to that call, or to one that
\* began on the same connection while it was running; never to a call the
\* connection served before.
OwnElicitation ==
  \A c \in Calls : call[c].pc = "asking" => call[c].askee \in {c} \cup over[c]

\* The second attempt of a call is never made on the connection the first one
\* failed on, whatever other calls put under its key meanwhile.
RetryOnAnother ==
  \A c \in Calls : call[c].first # None => call[c].conn # call[c].first

\* A call runs on a connection to the command or endpoint of its source, and a
\* remote one on a connection opened with the credentials of its own scope.
OwnCredentials ==
  \A c \in Calls : InFlight(c) =>
    LET n == conn[call[c].conn]
    IN /\ n.source.transport = call[c].source.transport
       /\ n.source.target = call[c].source.target
       /\ call[c].source.transport = "remote" => n.scope = call[c].scope

\* The connection of a call was opened for the source of the call (the cache is
\* said to be keyed by the identity of the stored source data).  Does not hold:
\* sources that differ in arguments or headers only share a key.
CallsOwnSource ==
  \A c \in Calls : InFlight(c) => conn[call[c].conn].source = call[c].source
=============================================================================
