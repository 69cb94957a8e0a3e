------------------------ MODULE McpConnectionsProofs ------------------------
(***************************************************************************)
(* Proofs about McpConnections: type correctness and, from an inductive     *)
(* invariant on who holds which connection, its three safety properties.    *)
(***************************************************************************)
EXTENDS McpConnections, TLAPS

\* A call that is on a connection has one, a call that waits for one does not,
\* and only calls that have begun have a source and a scope.
CallsWellFormed ==
  \A c \in Calls :
    /\ call[c].pc # "idle" => call[c].source \in Sources /\ call[c].scope \in Scopes
    /\ call[c].pc \in {"connected", "calling", "asking", "failed"} =>
         call[c].conn \in Conns
    /\ call[c].pc \in {"idle", "opening", "again"} => call[c].conn = None
    /\ call[c].pc = "idle" => call[c].first = None
    /\ call[c].pc = "failed" => call[c].first = None

\* Who a call waits for is opening what the call needs.
OpenersOpen ==
  \A c \in Calls : call[c].pc = "opening" =>
    /\ call[c].opener \in Calls
    /\ Opening(call[c].opener)
    /\ KeyOf(call[call[c].opener]) = KeyOf(call[c])

\* A connection is found under the key it was opened for only.
KeysOfConnections ==
  /\ \A n \in Conns : Open(n) => conn[n].source \in Sources /\ conn[n].scope \in Scopes
  /\ \A k \in Keys : cache[k] \in Conns => KeyOf(conn[cache[k]]) = k
  /\ \A c \in Calls : call[c].conn \in Conns =>
       KeyOf(conn[call[c].conn]) = KeyOf(call[c])
  /\ \A c \in Calls : call[c].first \in Conns =>
       KeyOf(conn[call[c].first]) = KeyOf(call[c])

\* Who waits in the cache's place for an opening is opening under that key.
OpenersInCache ==
  \A k \in Keys : cache[k] \in Calls =>
    Opening(cache[k]) /\ KeyOf(call[cache[k]]) = k

\* The connection a call failed on has left the cache for good.
FailedIsGone ==
  \A c \in Calls : call[c].first # None =>
    /\ \A k \in Keys : cache[k] # call[c].first
    /\ call[c].conn # call[c].first

\* The handler of a connection in use is the last caller's.
HandlerIsRecent ==
  \A c \in Calls : InFlight(c) =>
    conn[call[c].conn].handler \in {c} \cup over[c]

Asked == \A c \in Calls : call[c].pc = "asking" => call[c].askee \in {c} \cup over[c]

IInv ==
  /\ TypeOK
  /\ CallsWellFormed
  /\ OpenersOpen
  /\ KeysOfConnections
  /\ OpenersInCache
  /\ FailedIsGone
  /\ HandlerIsRecent
  /\ Asked
-----------------------------------------------------------------------------
\* The keys of sources and scopes are keys.
LEMMA KeyIsKey ==
  ASSUME NEW s \in Sources, NEW u \in Scopes
  PROVE  Key(s, u) \in Keys
BY DEF Keys

\* A lookup keeps the invariant: what it finds is under the key it asks for.
LEMMA GetKeepsInvariant ==
  ASSUME IInv, NEW c \in Calls, NEW r \in CallType,
         r.source \in Sources, r.scope \in Scopes, r.conn = None,
         call[c].pc \in {"idle", "again"},
         r.first # None => /\ \A k \in Keys : cache[k] # r.first
                           /\ KeyOf(conn[r.first]) = KeyOf(r),
         r.first \in {call[c].first, None},
         Get(c, r), UNCHANGED <<conn, over>>
  PROVE  IInv'
<1>o. ~Opening(c)
  BY DEF Opening
<1> DEFINE found == cache[KeyOf(r)]
<1>k. KeyOf(r) \in Keys
  BY KeyIsKey DEF KeyOf
<1>f. found \in Conns \cup Calls \cup {None, "failed"}
  BY <1>k DEF IInv, TypeOK
<1>1. CASE /\ found \in Conns
           /\ call' = [call EXCEPT ![c] = [r EXCEPT !.pc = "connected", !.conn = found]]
           /\ UNCHANGED cache
  <2>1. TypeOK'
    BY <1>1, <1>k, ConnectionsAssumption DEF IInv, TypeOK,
       CallsWellFormed, CallType, ConnType
  <2>2. CallsWellFormed'
    BY <1>1, <1>k, ConnectionsAssumption DEF IInv, TypeOK,
       CallsWellFormed, CallType
  <2>3. OpenersOpen'
    BY <1>1, <1>k, ConnectionsAssumption DEF IInv, TypeOK,
       CallsWellFormed, OpenersOpen, Opening, KeyOf, CallType
  <2>4. KeysOfConnections'
    BY <1>1, <1>k, ConnectionsAssumption DEF IInv, TypeOK,
       CallsWellFormed, KeysOfConnections, Open, KeyOf, CallType, ConnType
  <2>5. OpenersInCache'
    BY <1>1, <1>k, ConnectionsAssumption DEF IInv, TypeOK,
       CallsWellFormed, OpenersInCache, Opening, KeyOf, CallType
  <2>6. FailedIsGone'
    BY <1>1, <1>k, ConnectionsAssumption DEF IInv, TypeOK,
       CallsWellFormed, KeysOfConnections, FailedIsGone, Open, KeyOf,
       CallType
  <2>7. HandlerIsRecent'
    BY <1>1, <1>k, ConnectionsAssumption DEF IInv, TypeOK,
       CallsWellFormed, HandlerIsRecent, InFlight, Open, CallType,
       ConnType
  <2>8. Asked'
    BY <1>1, <1>k, ConnectionsAssumption DEF IInv, TypeOK, Asked,
       HandlerIsRecent, InFlight, CallType
  <2> QED
    BY <2>1, <2>2, <2>3, <2>4, <2>5, <2>6, <2>7, <2>8 DEF IInv
<1>2. CASE /\ found = "failed"
           /\ call' = [call EXCEPT ![c] = Idle]
           /\ UNCHANGED cache
  <2>1. TypeOK'
    BY <1>2, <1>k, ConnectionsAssumption DEF IInv, TypeOK,
       CallsWellFormed, CallType, ConnType, Idle
  <2>2. CallsWellFormed'
    BY <1>2, <1>k, ConnectionsAssumption DEF IInv, TypeOK,
       CallsWellFormed, CallType, Idle
  <2>3. OpenersOpen'
    BY <1>2, <1>k, ConnectionsAssumption DEF IInv, TypeOK,
       CallsWellFormed, OpenersOpen, Opening, KeyOf, CallType, Idle
  <2>4. KeysOfConnections'
    BY <1>2, <1>k, ConnectionsAssumption DEF IInv, TypeOK,
       CallsWellFormed, KeysOfConnections, Open, KeyOf, CallType,
       ConnType, Idle
  <2>5. OpenersInCache'
    BY <1>2, <1>k, ConnectionsAssumption DEF IInv, TypeOK,
       CallsWellFormed, OpenersInCache, Opening, KeyOf, CallType, Idle
  <2>6. FailedIsGone'
    BY <1>2, <1>k, ConnectionsAssumption DEF IInv, TypeOK,
       CallsWellFormed, KeysOfConnections, FailedIsGone, Open, KeyOf,
       CallType, Idle
  <2>7. HandlerIsRecent'
    BY <1>2, <1>k, ConnectionsAssumption DEF IInv, TypeOK,
       CallsWellFormed, HandlerIsRecent, InFlight, Open, CallType,
       ConnType, Idle
  <2>8. Asked'
    BY <1>2, <1>k, ConnectionsAssumption DEF IInv, TypeOK, Asked,
       HandlerIsRecent, InFlight, CallType, Idle
  <2> QED
    BY <2>1, <2>2, <2>3, <2>4, <2>5, <2>6, <2>7, <2>8 DEF IInv
<1>3. CASE /\ found \in Calls
           /\ call' = [call EXCEPT ![c] = [r EXCEPT !.pc = "opening", !.opener = found]]
           /\ UNCHANGED cache
  <2>1. TypeOK'
    BY <1>3, <1>k, ConnectionsAssumption DEF IInv, TypeOK,
       CallsWellFormed, CallType, ConnType
  <2>2. CallsWellFormed'
    BY <1>3, <1>k, ConnectionsAssumption DEF IInv, TypeOK,
       CallsWellFormed, CallType
  <2>3. OpenersOpen'
    <3>1. /\ Opening(found) /\ KeyOf(call[found]) = KeyOf(r) /\ found # c
      BY <1>3, <1>k, <1>o DEF IInv, OpenersInCache
    <3>2. /\ call'[c].opener = found /\ KeyOf(call'[c]) = KeyOf(r)
          /\ \A d \in Calls : d # c => call'[d] = call[d]
      BY <1>3 DEF IInv, TypeOK, CallType, KeyOf
    <3>3. \A d \in Calls : d # c /\ call[d].pc = "opening" =>
            call[d].opener # c
      BY <1>o DEF IInv, OpenersOpen
    <3> QED
      BY <3>1, <3>2, <3>3, <1>3 DEF IInv, OpenersOpen, Opening
  <2>4. KeysOfConnections'
    BY <1>3, <1>k, ConnectionsAssumption DEF IInv, TypeOK,
       CallsWellFormed, KeysOfConnections, Open, KeyOf, CallType, ConnType
  <2>5. OpenersInCache'
    BY <1>3, <1>k, ConnectionsAssumption DEF IInv, TypeOK,
       CallsWellFormed, OpenersInCache, Opening, KeyOf, CallType
  <2>6. FailedIsGone'
    BY <1>3, <1>k, ConnectionsAssumption DEF IInv, TypeOK,
       CallsWellFormed, KeysOfConnections, FailedIsGone, Open, KeyOf,
       CallType
  <2>7. HandlerIsRecent'
    BY <1>3, <1>k, ConnectionsAssumption DEF IInv, TypeOK,
       CallsWellFormed, HandlerIsRecent, InFlight, Open, CallType,
       ConnType
  <2>8. Asked'
    BY <1>3, <1>k, ConnectionsAssumption DEF IInv, TypeOK, Asked,
       HandlerIsRecent, InFlight, CallType
  <2> QED
    BY <2>1, <2>2, <2>3, <2>4, <2>5, <2>6, <2>7, <2>8 DEF IInv
<1>4. CASE /\ found = None
           /\ call' = [call EXCEPT ![c] = [r EXCEPT !.pc = "opening", !.opener = c]]
           /\ cache' = [cache EXCEPT ![KeyOf(r)] = c]
  <2>1. TypeOK'
    BY <1>4, <1>k, ConnectionsAssumption DEF IInv, TypeOK,
       CallsWellFormed, CallType, ConnType
  <2>2. CallsWellFormed'
    BY <1>4, <1>k, ConnectionsAssumption DEF IInv, TypeOK,
       CallsWellFormed, CallType
  <2>3. OpenersOpen'
    BY <1>4, <1>k, ConnectionsAssumption DEF IInv, TypeOK,
       CallsWellFormed, OpenersOpen, Opening, KeyOf, CallType
  <2>4. KeysOfConnections'
    BY <1>4, <1>k, ConnectionsAssumption DEF IInv, TypeOK,
       CallsWellFormed, KeysOfConnections, Open, KeyOf, CallType, ConnType
  <2>5. OpenersInCache'
    BY <1>4, <1>k, ConnectionsAssumption DEF IInv, TypeOK,
       CallsWellFormed, OpenersInCache, Opening, KeyOf, CallType
  <2>6. FailedIsGone'
    BY <1>4, <1>k, ConnectionsAssumption DEF IInv, TypeOK,
       CallsWellFormed, KeysOfConnections, FailedIsGone, Open, KeyOf,
       CallType
  <2>7. HandlerIsRecent'
    BY <1>4, <1>k, ConnectionsAssumption DEF IInv, TypeOK,
       CallsWellFormed, HandlerIsRecent, InFlight, Open, CallType,
       ConnType
  <2>8. Asked'
    BY <1>4, <1>k, ConnectionsAssumption DEF IInv, TypeOK, Asked,
       HandlerIsRecent, InFlight, CallType
  <2> QED
    BY <2>1, <2>2, <2>3, <2>4, <2>5, <2>6, <2>7, <2>8 DEF IInv
<1> QED
  BY <1>1, <1>2, <1>3, <1>4 DEF Get

-----------------------------------------------------------------------------
LEMMA InitEstablishesInvariant == Init => IInv
BY ConnectionsAssumption DEF Init, IInv, TypeOK, CallsWellFormed, OpenersOpen,
   KeysOfConnections, OpenersInCache, FailedIsGone, HandlerIsRecent, Asked,
   InFlight, Opening, Open, CallType, ConnType, Idle, Unused

\* One step of a call keeps the invariant.
LEMMA StepKeepsInvariant ==
  ASSUME IInv, NEW c \in Calls, Step(c)
  PROVE  IInv'
<1>k. /\ call[c].source \in Sources /\ call[c].scope \in Scopes
        => KeyOf(call[c]) \in Keys
  BY DEF KeyOf, Keys
<1>1. CASE Begin(c)
  <2>1. PICK source \in Sources, scope \in Scopes :
          Get(c, [Idle EXCEPT !.source = source, !.scope = scope])
    BY <1>1 DEF Begin
  <2> DEFINE r == [Idle EXCEPT !.source = source, !.scope = scope]
  <2>2. /\ r \in CallType /\ r.source \in Sources /\ r.scope \in Scopes
        /\ r.conn = None /\ r.first = None
    BY DEF Idle, CallType
  <2>3. call[c].pc = "idle" /\ UNCHANGED <<conn, over>>
    BY <1>1 DEF Begin
  <2> QED
    BY <2>1, <2>2, <2>3, GetKeepsInvariant
<1>2. CASE Opened(c)
  <2> DEFINE K == KeyOf(call[c])
  <2>1. PICK n \in Conns :
          /\ ~Open(n)
          /\ conn' = [conn EXCEPT ![n] = [source |-> call[c].source,
                                          scope |-> call[c].scope, handler |-> None]]
          /\ cache' = [cache EXCEPT ![K] = n]
          /\ call' = [d \in Calls |->
               IF d \in Waiting(c)
               THEN [call[d] EXCEPT !.pc = "connected", !.conn = n, !.opener = None]
               ELSE call[d]]
          /\ UNCHANGED over
    BY <1>2 DEF Opened
  <2>2. /\ K \in Keys /\ call[c].source \in Sources /\ call[c].scope \in Scopes
        /\ call[c].pc = "opening" /\ call[c].opener = c
    BY <1>2, <1>k DEF Opened, Opening, IInv, CallsWellFormed
  <2>3. /\ \A k \in Keys : cache[k] # n
        /\ \A d \in Calls : call[d].conn # n /\ call[d].first # n
        /\ n \notin Calls /\ n # None
    BY <2>1, ConnectionsAssumption DEF Open
  <2>4. /\ cache'[K] = n
        /\ \A k \in Keys : k # K => cache'[k] = cache[k]
        /\ cache' \in [Keys -> Conns \cup Calls \cup {None, "failed"}]
    BY <2>1, <2>2 DEF IInv, TypeOK
  <2>5. /\ conn'[n] = [source |-> call[c].source, scope |-> call[c].scope,
                       handler |-> None]
        /\ \A m \in Conns : m # n => conn'[m] = conn[m]
        /\ conn' \in [Conns -> ConnType]
        /\ KeyOf(conn'[n]) = K
    BY <2>1, <2>2 DEF IInv, TypeOK, ConnType, KeyOf
  <2>6. \A d \in Calls : call[d].pc = "opening" /\ call[d].opener = c =>
          /\ call'[d] = [call[d] EXCEPT !.pc = "connected", !.conn = n, !.opener = None]
          /\ call[d] \in CallType
          /\ KeyOf(call[d]) = K
    BY <2>1 DEF Waiting, IInv, TypeOK, OpenersOpen
  <2>7. \A d \in Calls : call[d].pc = "opening" /\ call[d].opener = c =>
          /\ call'[d].pc = "connected" /\ call'[d].conn = n /\ call'[d].opener = None
          /\ call'[d].source = call[d].source /\ call'[d].scope = call[d].scope
          /\ call'[d].first = call[d].first /\ call'[d] \in CallType
          /\ KeyOf(call'[d]) = K
    <3>1. ASSUME NEW d \in Calls, call[d].pc = "opening", call[d].opener = c
          PROVE  /\ call'[d] = [call[d] EXCEPT !.pc = "connected", !.conn = n,
                                               !.opener = None]
                 /\ call[d] \in CallType /\ KeyOf(call[d]) = K
      BY <3>1, <2>6
    <3>2. n \in Conns
      BY <2>1
    <3>3. ASSUME NEW d \in Calls, NEW q \in CallType,
                 q = call[d], call'[d] = [q EXCEPT !.pc = "connected", !.conn = n,
                                                    !.opener = None]
          PROVE  /\ call'[d].pc = "connected" /\ call'[d].conn = n
                 /\ call'[d].opener = None /\ call'[d] \in CallType
                 /\ call'[d].source = call[d].source /\ call'[d].scope = call[d].scope
                 /\ call'[d].first = call[d].first
      BY <3>2, <3>3 DEF CallType
    <3>4. ASSUME NEW d \in Calls, call[d].pc = "opening", call[d].opener = c
          PROVE  /\ call'[d].pc = "connected" /\ call'[d].conn = n
                 /\ call'[d].opener = None /\ call'[d] \in CallType
                 /\ call'[d].source = call[d].source /\ call'[d].scope = call[d].scope
                 /\ call'[d].first = call[d].first
      BY <3>1, <3>3, <3>4
    <3>5. ASSUME NEW d \in Calls, call[d].pc = "opening", call[d].opener = c
          PROVE  KeyOf(call'[d]) = K
      BY <3>1, <3>4, <3>5 DEF KeyOf
    <3> HIDE DEF K
    <3> QED
      BY <3>4, <3>5
  <2>8. \A d \in Calls : ~(call[d].pc = "opening" /\ call[d].opener = c) =>
          call'[d] = call[d]
    BY <2>1 DEF Waiting
  <2>9. TypeOK'
    <3>1. \A d \in Calls : call'[d] \in CallType
      BY <2>7, <2>8 DEF IInv, TypeOK
    <3>2. call' \in [Calls -> CallType]
      BY <3>1, <2>1
    <3> QED
      BY <3>2, <2>1, <2>4, <2>5 DEF IInv, TypeOK
  <2>10. CallsWellFormed'
    BY <2>7, <2>8 DEF IInv, CallsWellFormed
  <2>11. OpenersOpen'
    BY <2>7, <2>8 DEF IInv, OpenersOpen, Opening
  <2>12. KeysOfConnections'
    <3>1. \A m \in Conns : Open(m)' => conn'[m].source \in Sources /\ conn'[m].scope \in Scopes
      BY <2>2, <2>4, <2>5, <2>7, <2>8 DEF IInv, KeysOfConnections, Open
    <3>2. \A k \in Keys : cache'[k] \in Conns => KeyOf(conn'[cache'[k]]) = k
      BY <2>3, <2>4, <2>5 DEF IInv, KeysOfConnections
    <3>3. \A d \in Calls : call'[d].conn \in Conns =>
            KeyOf(conn'[call'[d].conn]) = KeyOf(call'[d])
      BY <2>3, <2>5, <2>7, <2>8 DEF IInv, KeysOfConnections
    <3>4. \A d \in Calls : call'[d].first \in Conns =>
            KeyOf(conn'[call'[d].first]) = KeyOf(call'[d])
      <4>1. \A d \in Calls : call[d].pc = "opening" /\ call[d].opener = c =>
              KeyOf(call[d]) = K
        BY <2>6
      <4>2. \A d \in Calls : /\ call'[d].first = call[d].first
                             /\ KeyOf(call'[d]) = KeyOf(call[d])
        BY <2>7, <2>8, <4>1
      <4> QED
        BY <2>3, <2>5, <4>2 DEF IInv, KeysOfConnections
    <3> QED
      <4>1. \A k \in Keys : cache'[k] \in Conns => KeyOf(conn[cache[k]])' = k
        BY <3>2 DEF KeyOf
      <4>2. \A d \in Calls : call'[d].conn \in Conns =>
              KeyOf(conn[call[d].conn])' = KeyOf(call[d])'
        BY <3>3 DEF KeyOf
      <4>3. \A d \in Calls : call'[d].first \in Conns =>
              KeyOf(conn[call[d].first])' = KeyOf(call[d])'
        BY <3>4 DEF KeyOf
      <4> QED
        BY <3>1, <4>1, <4>2, <4>3 DEF KeysOfConnections
  <2>13. OpenersInCache'
    BY <2>3, <2>4, <2>7, <2>8 DEF IInv, OpenersInCache, Opening
  <2>14. FailedIsGone'
    BY <2>2, <2>3, <2>4, <2>7, <2>8 DEF IInv, FailedIsGone
  <2>15. HandlerIsRecent'
    <3>1. \A d \in Calls : InFlight(d)' =>
            call'[d] = call[d] /\ call[d].conn \in Conns \ {n} /\ InFlight(d)
      BY <2>3, <2>7, <2>8 DEF IInv, CallsWellFormed, InFlight
    <3>2. over' = over
      BY <2>1
    <3> QED
      BY <3>1, <3>2, <2>5 DEF IInv, HandlerIsRecent
  <2>16. Asked'
    BY <2>1, <2>7, <2>8 DEF IInv, Asked
  <2> QED
    BY <2>9, <2>10, <2>11, <2>12, <2>13, <2>14, <2>15, <2>16 DEF IInv
<1>3. CASE OpenFails(c)
  <2> DEFINE K == KeyOf(call[c])
  <2>1. /\ K \in Keys /\ call[c].pc = "opening" /\ call[c].opener = c
    BY <1>3, <1>k DEF OpenFails, Opening, IInv, CallsWellFormed
  <2>2. /\ cache'[K] = "failed"
        /\ \A k \in Keys : k # K => cache'[k] = cache[k]
        /\ cache' \in [Keys -> Conns \cup Calls \cup {None, "failed"}]
        /\ "failed" \notin Conns \cup Calls
    BY <1>3, <2>1, ConnectionsAssumption DEF OpenFails, IInv, TypeOK
  <2>3. \A d \in Calls : call[d].pc = "opening" /\ call[d].opener = c =>
          /\ call'[d].pc = "idle" /\ call'[d].conn = None /\ call'[d].first = None
          /\ call'[d] \in CallType
    BY <1>3 DEF OpenFails, Waiting, Idle, CallType
  <2>4. \A d \in Calls : ~(call[d].pc = "opening" /\ call[d].opener = c) =>
          call'[d] = call[d]
    BY <1>3 DEF OpenFails, Waiting
  <2>5. conn' = conn /\ over' = over /\ None \notin Conns
    BY <1>3, ConnectionsAssumption DEF OpenFails
  <2>9. TypeOK'
    <3>1. \A d \in Calls : call'[d] \in CallType
      BY <2>3, <2>4 DEF IInv, TypeOK
    <3>2. call' \in [Calls -> CallType]
      BY <3>1, <1>3 DEF OpenFails
    <3> QED
      BY <3>2, <2>2, <2>5 DEF IInv, TypeOK
  <2>10. CallsWellFormed'
    BY <2>3, <2>4 DEF IInv, CallsWellFormed
  <2>11. OpenersOpen'
    BY <2>3, <2>4 DEF IInv, OpenersOpen, Opening
  <2>12. KeysOfConnections'
    BY <2>2, <2>3, <2>4, <2>5 DEF IInv, KeysOfConnections, Open
  <2>13. OpenersInCache'
    BY <2>2, <2>3, <2>4 DEF IInv, OpenersInCache, Opening
  <2>14. FailedIsGone'
    <3>1. \A d \in Calls : call[d].first # "failed"
      BY <2>2, ConnectionsAssumption DEF IInv, TypeOK, CallType
    <3> QED
      BY <3>1, <2>2, <2>3, <2>4 DEF IInv, FailedIsGone
  <2>15. HandlerIsRecent'
    BY <2>3, <2>4, <2>5 DEF IInv, HandlerIsRecent, InFlight
  <2>16. Asked'
    BY <2>3, <2>4, <2>5 DEF IInv, Asked
  <2> QED
    BY <2>9, <2>10, <2>11, <2>12, <2>13, <2>14, <2>15, <2>16 DEF IInv
<1>4. CASE Use(c)
  <2> DEFINE r == [call[c] EXCEPT !.pc = "calling"]
  <2>r. r \in CallType
    BY <1>4 DEF IInv, TypeOK, CallsWellFormed, CallType, ConnType, Use, InFlight, Idle
  <2>c. call' = [call EXCEPT ![c] = r]
    BY <1>4 DEF IInv, TypeOK, Use
  <2>1. TypeOK'
    <3>1. call' \in [Calls -> CallType]
      BY <2>r, <2>c DEF IInv, TypeOK
    <3>2. cache' \in [Keys -> Conns \cup Calls \cup {None, "failed"}]
      BY <1>4 DEF IInv, TypeOK, Use
    <3>3. conn' \in [Conns -> ConnType]
      BY <1>4 DEF IInv, TypeOK, Use, ConnType, CallsWellFormed
    <3>4. over' \in [Calls -> SUBSET Calls]
      BY <1>4 DEF IInv, TypeOK, Use
    <3> QED
      BY <3>1, <3>2, <3>3, <3>4 DEF TypeOK
  <2>2. CallsWellFormed'
    BY <1>4, <1>4, <1>k, ConnectionsAssumption DEF IInv, TypeOK,
       CallsWellFormed, CallType, Use, InFlight
  <2>3. OpenersOpen'
    BY <1>4, <1>4, <1>k, ConnectionsAssumption DEF IInv, TypeOK,
       CallsWellFormed, OpenersOpen, Opening, KeyOf, CallType, Use,
       InFlight
  <2>4. KeysOfConnections'
    BY <1>4, <1>4, <1>k, ConnectionsAssumption DEF IInv, TypeOK,
       CallsWellFormed, KeysOfConnections, Open, KeyOf, CallType,
       ConnType, Use, InFlight
  <2>5. OpenersInCache'
    BY <1>4, <1>4, <1>k, ConnectionsAssumption DEF IInv, TypeOK,
       CallsWellFormed, OpenersInCache, Opening, KeyOf, CallType, Use,
       InFlight
  <2>6. FailedIsGone'
    BY <1>4, <1>4, <1>k, ConnectionsAssumption DEF IInv, TypeOK,
       CallsWellFormed, KeysOfConnections, FailedIsGone, Open, KeyOf,
       CallType, Use, InFlight
  <2>7. HandlerIsRecent'
    BY <1>4, <1>4, <1>k, ConnectionsAssumption DEF IInv, TypeOK,
       CallsWellFormed, HandlerIsRecent, InFlight, Open, CallType,
       ConnType, Use, InFlight
  <2>8. Asked'
    BY <1>4, <1>4, <1>k, ConnectionsAssumption DEF IInv, TypeOK, Asked,
       HandlerIsRecent, InFlight, CallType, Use, InFlight
  <2> QED
    BY <2>1, <2>2, <2>3, <2>4, <2>5, <2>6, <2>7, <2>8 DEF IInv
<1>5. CASE Asks(c)
  <2> DEFINE r == [call[c] EXCEPT !.pc = "asking", !.askee = conn[call[c].conn].handler]
  <2>r. r \in CallType
    BY <1>5 DEF IInv, TypeOK, CallsWellFormed, CallType, ConnType, Asks, InFlight, Idle
  <2>c. call' = [call EXCEPT ![c] = r]
    BY <1>5 DEF IInv, TypeOK, Asks
  <2>1. TypeOK'
    <3>1. call' \in [Calls -> CallType]
      BY <2>r, <2>c DEF IInv, TypeOK
    <3>2. cache' \in [Keys -> Conns \cup Calls \cup {None, "failed"}]
      BY <1>5 DEF IInv, TypeOK, Asks
    <3>3. conn' \in [Conns -> ConnType]
      BY <1>5 DEF IInv, TypeOK, Asks, ConnType, CallsWellFormed
    <3>4. over' \in [Calls -> SUBSET Calls]
      BY <1>5 DEF IInv, TypeOK, Asks
    <3> QED
      BY <3>1, <3>2, <3>3, <3>4 DEF TypeOK
  <2>2. CallsWellFormed'
    BY <1>5, <1>5, <1>k, ConnectionsAssumption DEF IInv, TypeOK,
       CallsWellFormed, CallType, Asks
  <2>3. OpenersOpen'
    BY <1>5, <1>5, <1>k, ConnectionsAssumption DEF IInv, TypeOK,
       CallsWellFormed, OpenersOpen, Opening, KeyOf, CallType, Asks
  <2>4. KeysOfConnections'
    BY <1>5, <1>5, <1>k, ConnectionsAssumption DEF IInv, TypeOK,
       CallsWellFormed, KeysOfConnections, Open, KeyOf, CallType,
       ConnType, Asks
  <2>5. OpenersInCache'
    BY <1>5, <1>5, <1>k, ConnectionsAssumption DEF IInv, TypeOK,
       CallsWellFormed, OpenersInCache, Opening, KeyOf, CallType, Asks
  <2>6. FailedIsGone'
    BY <1>5, <1>5, <1>k, ConnectionsAssumption DEF IInv, TypeOK,
       CallsWellFormed, KeysOfConnections, FailedIsGone, Open, KeyOf,
       CallType, Asks
  <2>7. HandlerIsRecent'
    BY <1>5, <1>5, <1>k, ConnectionsAssumption DEF IInv, TypeOK,
       CallsWellFormed, HandlerIsRecent, InFlight, Open, CallType,
       ConnType, Asks
  <2>8. Asked'
    BY <1>5, <1>5, <1>k, ConnectionsAssumption DEF IInv, TypeOK, Asked,
       HandlerIsRecent, InFlight, CallType, Asks
  <2> QED
    BY <2>1, <2>2, <2>3, <2>4, <2>5, <2>6, <2>7, <2>8 DEF IInv
<1>6. CASE Answered(c)
  <2> DEFINE r == [call[c] EXCEPT !.pc = "calling", !.askee = None]
  <2>r. r \in CallType
    BY <1>6 DEF IInv, TypeOK, CallsWellFormed, CallType, ConnType, Answered, InFlight, Idle
  <2>c. call' = [call EXCEPT ![c] = r]
    BY <1>6 DEF IInv, TypeOK, Answered
  <2>1. TypeOK'
    <3>1. call' \in [Calls -> CallType]
      BY <2>r, <2>c DEF IInv, TypeOK
    <3>2. cache' \in [Keys -> Conns \cup Calls \cup {None, "failed"}]
      BY <1>6 DEF IInv, TypeOK, Answered
    <3>3. conn' \in [Conns -> ConnType]
      BY <1>6 DEF IInv, TypeOK, Answered, ConnType, CallsWellFormed
    <3>4. over' \in [Calls -> SUBSET Calls]
      BY <1>6 DEF IInv, TypeOK, Answered
    <3> QED
      BY <3>1, <3>2, <3>3, <3>4 DEF TypeOK
  <2>2. CallsWellFormed'
    BY <1>6, <1>6, <1>k, ConnectionsAssumption DEF IInv, TypeOK,
       CallsWellFormed, CallType, Answered
  <2>3. OpenersOpen'
    BY <1>6, <1>6, <1>k, ConnectionsAssumption DEF IInv, TypeOK,
       CallsWellFormed, OpenersOpen, Opening, KeyOf, CallType, Answered
  <2>4. KeysOfConnections'
    BY <1>6, <1>6, <1>k, ConnectionsAssumption DEF IInv, TypeOK,
       CallsWellFormed, KeysOfConnections, Open, KeyOf, CallType,
       ConnType, Answered
  <2>5. OpenersInCache'
    BY <1>6, <1>6, <1>k, ConnectionsAssumption DEF IInv, TypeOK,
       CallsWellFormed, OpenersInCache, Opening, KeyOf, CallType, Answered
  <2>6. FailedIsGone'
    BY <1>6, <1>6, <1>k, ConnectionsAssumption DEF IInv, TypeOK,
       CallsWellFormed, KeysOfConnections, FailedIsGone, Open, KeyOf,
       CallType, Answered
  <2>7. HandlerIsRecent'
    BY <1>6, <1>6, <1>k, ConnectionsAssumption DEF IInv, TypeOK,
       CallsWellFormed, HandlerIsRecent, InFlight, Open, CallType,
       ConnType, Answered
  <2>8. Asked'
    BY <1>6, <1>6, <1>k, ConnectionsAssumption DEF IInv, TypeOK, Asked,
       HandlerIsRecent, InFlight, CallType, Answered
  <2> QED
    BY <2>1, <2>2, <2>3, <2>4, <2>5, <2>6, <2>7, <2>8 DEF IInv
<1>7. CASE Replies(c)
  <2>1. TypeOK'
    BY <1>7, <1>k, ConnectionsAssumption DEF IInv, TypeOK,
       CallsWellFormed, CallType, ConnType, Replies, Idle
  <2>2. CallsWellFormed'
    BY <1>7, <1>k, ConnectionsAssumption DEF IInv, TypeOK,
       CallsWellFormed, CallType, Replies, Idle
  <2>3. OpenersOpen'
    BY <1>7, <1>k, ConnectionsAssumption DEF IInv, TypeOK,
       CallsWellFormed, OpenersOpen, Opening, KeyOf, CallType, Replies,
       Idle
  <2>4. KeysOfConnections'
    BY <1>7, <1>k, ConnectionsAssumption DEF IInv, TypeOK,
       CallsWellFormed, KeysOfConnections, Open, KeyOf, CallType,
       ConnType, Replies, Idle
  <2>5. OpenersInCache'
    BY <1>7, <1>k, ConnectionsAssumption DEF IInv, TypeOK,
       CallsWellFormed, OpenersInCache, Opening, KeyOf, CallType, Replies,
       Idle
  <2>6. FailedIsGone'
    BY <1>7, <1>k, ConnectionsAssumption DEF IInv, TypeOK,
       CallsWellFormed, KeysOfConnections, FailedIsGone, Open, KeyOf,
       CallType, Replies, Idle
  <2>7. HandlerIsRecent'
    BY <1>7, <1>k, ConnectionsAssumption DEF IInv, TypeOK,
       CallsWellFormed, HandlerIsRecent, InFlight, Open, CallType,
       ConnType, Replies, Idle
  <2>8. Asked'
    BY <1>7, <1>k, ConnectionsAssumption DEF IInv, TypeOK, Asked,
       HandlerIsRecent, InFlight, CallType, Replies, Idle
  <2> QED
    BY <2>1, <2>2, <2>3, <2>4, <2>5, <2>6, <2>7, <2>8 DEF IInv
<1>8. CASE CallFails(c)
  <2> DEFINE r == IF call[c].first = None
                 THEN [call[c] EXCEPT !.pc = "failed", !.askee = None] ELSE Idle
  <2>r. r \in CallType
    BY <1>8 DEF IInv, TypeOK, CallsWellFormed, CallType, ConnType, CallFails, InFlight, Idle
  <2>c. call' = [call EXCEPT ![c] = r]
    BY <1>8 DEF IInv, TypeOK, CallFails
  <2>1. TypeOK'
    <3>1. call' \in [Calls -> CallType]
      BY <2>r, <2>c DEF IInv, TypeOK
    <3>2. cache' \in [Keys -> Conns \cup Calls \cup {None, "failed"}]
      BY <1>8 DEF IInv, TypeOK, CallFails
    <3>3. conn' \in [Conns -> ConnType]
      BY <1>8 DEF IInv, TypeOK, CallFails, ConnType, CallsWellFormed
    <3>4. over' \in [Calls -> SUBSET Calls]
      BY <1>8 DEF IInv, TypeOK, CallFails
    <3> QED
      BY <3>1, <3>2, <3>3, <3>4 DEF TypeOK
  <2>2. CallsWellFormed'
    BY <1>8, <1>8, <1>k, ConnectionsAssumption DEF IInv, TypeOK,
       CallsWellFormed, CallType, CallFails, InFlight, Idle
  <2>3. OpenersOpen'
    BY <1>8, <1>8, <1>k, ConnectionsAssumption DEF IInv, TypeOK,
       CallsWellFormed, OpenersOpen, Opening, KeyOf, CallType, CallFails,
       InFlight, Idle
  <2>4. KeysOfConnections'
    BY <1>8, <1>8, <1>k, ConnectionsAssumption DEF IInv, TypeOK,
       CallsWellFormed, KeysOfConnections, Open, KeyOf, CallType,
       ConnType, CallFails, InFlight, Idle
  <2>5. OpenersInCache'
    BY <1>8, <1>8, <1>k, ConnectionsAssumption DEF IInv, TypeOK,
       CallsWellFormed, OpenersInCache, Opening, KeyOf, CallType,
       CallFails, InFlight, Idle
  <2>6. FailedIsGone'
    BY <1>8, <1>8, <1>k, ConnectionsAssumption DEF IInv, TypeOK,
       CallsWellFormed, KeysOfConnections, FailedIsGone, Open, KeyOf,
       CallType, CallFails, InFlight, Idle
  <2>7. HandlerIsRecent'
    BY <1>8, <1>8, <1>k, ConnectionsAssumption DEF IInv, TypeOK,
       CallsWellFormed, HandlerIsRecent, InFlight, Open, CallType,
       ConnType, CallFails, InFlight, Idle
  <2>8. Asked'
    BY <1>8, <1>8, <1>k, ConnectionsAssumption DEF IInv, TypeOK, Asked,
       HandlerIsRecent, InFlight, CallType, CallFails, InFlight, Idle
  <2> QED
    BY <2>1, <2>2, <2>3, <2>4, <2>5, <2>6, <2>7, <2>8 DEF IInv
<1>9. CASE Invalidate(c)
  <2>1. TypeOK'
    BY <1>9, <1>k, ConnectionsAssumption DEF IInv, TypeOK,
       CallsWellFormed, CallType, ConnType, Invalidate
  <2>2. CallsWellFormed'
    BY <1>9, <1>k, ConnectionsAssumption DEF IInv, TypeOK,
       CallsWellFormed, CallType, Invalidate
  <2>3. OpenersOpen'
    BY <1>9, <1>k, ConnectionsAssumption DEF IInv, TypeOK,
       CallsWellFormed, OpenersOpen, Opening, KeyOf, CallType, Invalidate
  <2>4. KeysOfConnections'
    BY <1>9, <1>k, ConnectionsAssumption DEF IInv, TypeOK,
       CallsWellFormed, KeysOfConnections, Open, KeyOf, CallType,
       ConnType, Invalidate
  <2>5. OpenersInCache'
    BY <1>9, <1>k, ConnectionsAssumption DEF IInv, TypeOK,
       CallsWellFormed, OpenersInCache, Opening, KeyOf, CallType,
       Invalidate
  <2>6. FailedIsGone'
    BY <1>9, <1>k, ConnectionsAssumption DEF IInv, TypeOK,
       CallsWellFormed, KeysOfConnections, FailedIsGone, Open, KeyOf,
       CallType, Invalidate
  <2>7. HandlerIsRecent'
    BY <1>9, <1>k, ConnectionsAssumption DEF IInv, TypeOK,
       CallsWellFormed, HandlerIsRecent, InFlight, Open, CallType,
       ConnType, Invalidate
  <2>8. Asked'
    BY <1>9, <1>k, ConnectionsAssumption DEF IInv, TypeOK, Asked,
       HandlerIsRecent, InFlight, CallType, Invalidate
  <2> QED
    BY <2>1, <2>2, <2>3, <2>4, <2>5, <2>6, <2>7, <2>8 DEF IInv
<1>10. CASE Again(c)
  <2>1. /\ call[c].pc = "again" /\ Get(c, call[c]) /\ UNCHANGED <<conn, over>>
    BY <1>10 DEF Again
  <2>2. /\ call[c] \in CallType /\ call[c].source \in Sources
        /\ call[c].scope \in Scopes /\ call[c].conn = None
    BY <2>1 DEF IInv, TypeOK, CallsWellFormed
  <2>3. call[c].first # None => /\ \A k \in Keys : cache[k] # call[c].first
                               /\ KeyOf(conn[call[c].first]) = KeyOf(call[c])
    BY <2>2 DEF IInv, FailedIsGone, KeysOfConnections, CallType
  <2> QED
    BY <2>1, <2>2, <2>3, GetKeepsInvariant
<1> QED
  BY <1>1, <1>2, <1>3, <1>4, <1>5, <1>6, <1>7, <1>8, <1>9, <1>10 DEF Step

\* So does the cache giving an entry up.
LEMMA ExpireKeepsInvariant ==
  ASSUME IInv, NEW k \in Keys, Expire(k)
  PROVE  IInv'
<1>1. TypeOK'
  BY ConnectionsAssumption DEF IInv, TypeOK, CallsWellFormed, CallType,
     ConnType, Expire, Opening
<1>2. CallsWellFormed'
  BY ConnectionsAssumption DEF IInv, TypeOK, CallsWellFormed, CallType,
     Expire, Opening
<1>3. OpenersOpen'
  BY ConnectionsAssumption DEF IInv, TypeOK, CallsWellFormed,
     OpenersOpen, Opening, KeyOf, CallType, Expire, Opening
<1>4. KeysOfConnections'
  BY ConnectionsAssumption DEF IInv, TypeOK, CallsWellFormed,
     KeysOfConnections, Open, KeyOf, CallType, ConnType, Expire, Opening
<1>5. OpenersInCache'
  BY ConnectionsAssumption DEF IInv, TypeOK, CallsWellFormed,
     OpenersInCache, Opening, KeyOf, CallType, Expire, Opening
<1>6. FailedIsGone'
  BY ConnectionsAssumption DEF IInv, TypeOK, CallsWellFormed,
     KeysOfConnections, FailedIsGone, Open, KeyOf, CallType, Expire,
     Opening
<1>7. HandlerIsRecent'
  BY ConnectionsAssumption DEF IInv, TypeOK, CallsWellFormed,
     HandlerIsRecent, InFlight, Open, CallType, ConnType, Expire,
     Opening
<1>8. Asked'
  BY ConnectionsAssumption DEF IInv, TypeOK, Asked, HandlerIsRecent,
     InFlight, CallType, Expire, Opening
<1> QED
  BY <1>1, <1>2, <1>3, <1>4, <1>5, <1>6, <1>7, <1>8 DEF IInv

LEMMA StutteringKeepsInvariant == IInv /\ UNCHANGED vars => IInv'
BY DEF vars, IInv, TypeOK, CallsWellFormed, OpenersOpen,
   KeysOfConnections, OpenersInCache, FailedIsGone, HandlerIsRecent, Asked,
   InFlight, Opening, Open

LEMMA Invariance == Spec => []IInv
<1>1. IInv /\ [Next]_vars => IInv'
  BY StepKeepsInvariant, ExpireKeepsInvariant, StutteringKeepsInvariant DEF Next
<1> QED
  BY <1>1, InitEstablishesInvariant, PTL DEF Spec
-----------------------------------------------------------------------------
\* Every variable keeps its type.
THEOREM TypeCorrect == Spec => []TypeOK
BY Invariance, PTL DEF IInv

\* A question asked during a call goes to that call or to one that began on the
\* same connection during it: the handler set by useConnection is never older
\* than the calls the connection serves.
THEOREM ElicitationIsOwn == Spec => []OwnElicitation
<1>1. IInv => OwnElicitation
  BY DEF IInv, Asked, OwnElicitation
<1> QED
  BY <1>1, Invariance, PTL

\* The second attempt is on another connection than the first: what call c
\* removed from the cache under its only key cannot come back.
THEOREM RetryIsOnAnother == Spec => []RetryOnAnother
<1>1. IInv => RetryOnAnother
  BY DEF IInv, FailedIsGone, RetryOnAnother
<1> QED
  BY <1>1, Invariance, PTL

\* The key of the cache keeps apart servers and, for remote ones, the scopes the
\* credentials come from.
THEOREM CredentialsAreOwn == Spec => []OwnCredentials
<1>1. IInv => OwnCredentials
  BY ConnectionsAssumption
     DEF IInv, TypeOK, CallsWellFormed, KeysOfConnections, OwnCredentials, InFlight,
         KeyOf, Key, Open, CallType
<1> QED
  BY <1>1, Invariance, PTL
=============================================================================
