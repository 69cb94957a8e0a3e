-------------------------- MODULE DeviceSessionProofs --------------------------
(***************************************************************************)
(* Proofs about DeviceSession, for any number of desktops, users,          *)
(* connections and programs.                                               *)
(***************************************************************************)
EXTENDS DeviceSession, TLAPS

(* A connection the durable object has seen was opened by a user, and a    *)
(* device has at most one that is open.                                    *)
SocketsOK ==
  /\ \A s \in Socket : server[s] # "none" => client[s] # "none"
  /\ \A s \in Socket : client[s] # "none" => sessionUser[s] \in User
  /\ \A s, t \in Socket :
       server[s] = "open" /\ server[t] = "open" /\ DeviceOf[s] = DeviceOf[t] => s = t

(* A program that is awaited, or that a desktop has, was sent.             *)
SentOK == \A r \in Request : r \in pending \/ desk[r] # "none" => sentOn[r] # NoSocket

(* ... and only on connections that had been opened.                       *)
SentOpened == \A r \in Request : sentOn[r] # NoSocket => client[sentOn[r]] # "none"

Inv == /\ TypeOK /\ SocketsOK /\ SentOK /\ SentOpened
       /\ SentToItsAuthor /\ ConnectedIsOnline /\ AwaitedIsOnline

--------------------------------------------------------------------------------

LEMMA InitInv == Init => Inv
BY DeviceAssumption
   DEF Init, Inv, TypeOK, SocketsOK, SentOK, SentOpened,
       SentToItsAuthor, ConnectedIsOnline, AwaitedIsOnline

(* The verdict on a response of the durable object is an outcome.          *)
LEMMA RespondType ==
  ASSUME TypeOK, NEW rs, NEW status \in {"completed", "error", "unavailable"},
         Respond(rs, status)
  PROVE  outcome' \in [Request -> {"none", "completed", "error", "hosted", "upgrade"}]
BY DEF TypeOK, Respond, Verdict

(* The device an execute request is resolved to is recorded as its user's. *)
LEMMA ResolvedIsOwned ==
  ASSUME TypeOK, NEW u \in User, NEW d \in ResolveActive(u)
  PROVE  d \in Device /\ owner[d] = u
BY DeviceAssumption DEF TypeOK, ResolveActive, Accepted

LEMMA NextTypeOK ==
  ASSUME Inv, [Next]_vars
  PROVE  TypeOK'
<1> USE DeviceAssumption DEF TypeOK
<1>0. TypeOK /\ SocketsOK /\ SentOK /\ SentOpened
  BY DEF Inv
<1>1. CASE UNCHANGED vars
  BY <1>0, <1>1 DEF vars, socketVars, recordVars, requestVars
<1>2. CASE Restart
  <2>1. outcome' \in [Request -> {"none", "completed", "error", "hosted", "upgrade"}]
    BY <1>0, <1>2, RespondType DEF Restart
  <2> QED BY <1>0, <1>2, <2>1 DEF Restart, recordVars
<1>3. ASSUME NEW s \in Socket, NEW u \in User, Connect(s, u) PROVE TypeOK'
  BY <1>0, <1>3 DEF Connect, recordVars, requestVars
<1>4. ASSUME NEW s \in Socket, ClientClosed(s) PROVE TypeOK'
  BY <1>0, <1>4 DEF ClientClosed, recordVars, requestVars
<1>5. ASSUME NEW s \in Socket, HandleConnect(s) PROVE TypeOK'
  <2>1. sessionUser[s] \in User /\ DeviceOf[s] \in Device
    BY <1>0, <1>5 DEF HandleConnect, SocketsOK
  <2> QED BY <1>0, <1>5, <2>1 DEF HandleConnect, requestVars
<1>6. ASSUME NEW s \in Socket, ServerClosed(s) PROVE TypeOK'
  <2>1. UNCHANGED outcome \/ Respond(AwaitedFrom(DeviceOf[s]), "unavailable")
    BY <1>6 DEF ServerClosed, MarkOffline
  <2>2. outcome' \in [Request -> {"none", "completed", "error", "hosted", "upgrade"}]
    BY <1>0, <2>1, RespondType
  <2>3. server' \in [Socket -> {"none", "open", "closing", "gone"}]
    BY <1>0, <1>6 DEF ServerClosed
  <2>4. activeDevice' \in [User -> Device \cup {NoDevice}]
    BY <1>0, <1>6 DEF ServerClosed, MarkOffline
  <2>5. online' = online \/ online' = [online EXCEPT ![DeviceOf[s]] = FALSE]
    BY <1>6 DEF ServerClosed, MarkOffline
  <2>6. pending' \subseteq Request
    BY <1>0, <1>6 DEF ServerClosed, MarkOffline
  <2> QED BY <1>0, <1>6, <2>2, <2>3, <2>4, <2>5, <2>6 DEF ServerClosed
<1>7. ASSUME NEW r \in Request, HandleExecute(r) PROVE TypeOK'
  <2>1. UNCHANGED outcome \/ Respond({r}, "unavailable")
    BY <1>7 DEF HandleExecute
  <2>2. outcome' \in [Request -> {"none", "completed", "error", "hosted", "upgrade"}]
    BY <1>0, <2>1, RespondType
  <2>3. sentOn' \in [Request -> Socket \cup {NoSocket}] /\ pending' \subseteq Request
    BY <1>0, <1>7 DEF HandleExecute, OpenSockets
  <2> QED BY <1>0, <1>7, <2>2, <2>3 DEF HandleExecute, socketVars, recordVars
<1>8. ASSUME NEW r \in Request, RunLocally(r) PROVE TypeOK'
  BY <1>0, <1>8 DEF RunLocally, socketVars, recordVars
<1>9. ASSUME NEW r \in Request, NEW status \in {"completed", "error"}, AnswerLocally(r, status)
      PROVE  TypeOK'
  BY <1>0, <1>9 DEF AnswerLocally, socketVars, recordVars
<1>10. ASSUME NEW r \in Request, HandleMessage(r) PROVE TypeOK'
  <2>1. outcome' \in [Request -> {"none", "completed", "error", "hosted", "upgrade"}]
    BY <1>0, <1>10, RespondType DEF HandleMessage
  <2> QED BY <1>0, <1>10, <2>1 DEF HandleMessage, socketVars
<1>11. ASSUME NEW r \in Request, TimeOut(r) PROVE TypeOK'
  <2>1. outcome' \in [Request -> {"none", "completed", "error", "hosted", "upgrade"}]
    BY <1>0, <1>11, RespondType DEF TimeOut
  <2> QED BY <1>0, <1>11, <2>1 DEF TimeOut, socketVars, recordVars
<1> QED
  BY <1>1, <1>2, <1>3, <1>4, <1>5, <1>6, <1>7, <1>8, <1>9, <1>10, <1>11
     DEF Next, SocketStep, RequestStep

(* Every step keeps the rest of the invariant.                             *)
LEMMA NextRest ==
  ASSUME Inv, [Next]_vars
  PROVE  /\ SocketsOK' /\ SentOK' /\ SentOpened'
         /\ SentToItsAuthor' /\ ConnectedIsOnline' /\ AwaitedIsOnline'
<1> DEFINE Rest == /\ SocketsOK /\ SentOK /\ SentOpened
                   /\ SentToItsAuthor /\ ConnectedIsOnline /\ AwaitedIsOnline
<1> USE DeviceAssumption
    DEF Inv, TypeOK, SocketsOK, SentOK, SentOpened,
        SentToItsAuthor, ConnectedIsOnline, AwaitedIsOnline
<1>1. CASE UNCHANGED vars
  BY <1>1 DEF vars, socketVars, recordVars, requestVars
<1>2. CASE Restart
  BY <1>2 DEF Restart, recordVars, Accepted
<1>3. ASSUME NEW s \in Socket, NEW u \in User, Connect(s, u) PROVE Rest'
  BY <1>3 DEF Connect, recordVars, requestVars
<1>4. ASSUME NEW s \in Socket, ClientClosed(s) PROVE Rest'
  BY <1>4 DEF ClientClosed, recordVars, requestVars
<1>5. ASSUME NEW s \in Socket, HandleConnect(s) PROVE Rest'
  BY <1>5 DEF HandleConnect, OpenSockets, requestVars
<1>6. ASSUME NEW s \in Socket, ServerClosed(s) PROVE Rest'
  <2>1. /\ \E state \in {"closing", "gone"} : server' = [server EXCEPT ![s] = state]
        /\ server[s] # "none"
        /\ UNCHANGED <<sessionUser, client, owner, sentOn, desk>>
    BY <1>6 DEF ServerClosed, Accepted
  <2>2. CASE OpenSockets(DeviceOf[s]) \ {s} # {}
    BY <1>6, <2>1, <2>2 DEF ServerClosed, MarkOffline
  <2>3. CASE OpenSockets(DeviceOf[s]) \ {s} = {}
    <3>1. /\ online' = [online EXCEPT ![DeviceOf[s]] = FALSE]
          /\ pending' = pending \ AwaitedFrom(DeviceOf[s])
      BY <1>6, <2>3 DEF ServerClosed, MarkOffline
    <3>2. \A t \in Socket : DeviceOf[t] = DeviceOf[s] => server'[t] # "open"
      BY <2>1, <2>3 DEF OpenSockets
    <3> QED BY <2>1, <3>1, <3>2 DEF AwaitedFrom
  <2> QED BY <2>2, <2>3
<1>7. ASSUME NEW r \in Request, HandleExecute(r) PROVE Rest'
  <2>1. CASE \E d \in ResolveActive(Author[r]) : \E s \in OpenSockets(d) :
               sentOn' = [sentOn EXCEPT ![r] = s] /\ pending' = pending \cup {r}
    <3>1. PICK d \in ResolveActive(Author[r]) : \E s \in OpenSockets(d) :
               sentOn' = [sentOn EXCEPT ![r] = s] /\ pending' = pending \cup {r}
      BY <2>1
    <3>2. PICK s \in OpenSockets(d) :
               sentOn' = [sentOn EXCEPT ![r] = s] /\ pending' = pending \cup {r}
      BY <3>1
    <3>3. s \in Socket /\ DeviceOf[s] = d /\ server[s] = "open"
      BY DEF OpenSockets
    <3>4. owner[d] = Author[r]
      BY ResolvedIsOwned
    <3>5. UNCHANGED <<socketVars, recordVars, desk>>
      BY <1>7 DEF HandleExecute
    <3> QED BY <3>2, <3>3, <3>4, <3>5 DEF socketVars, recordVars
  <2>2. CASE UNCHANGED <<sentOn, pending>>
    BY <1>7, <2>2 DEF HandleExecute, socketVars, recordVars
  <2> QED BY <1>7, <2>1, <2>2 DEF HandleExecute
<1>8. ASSUME NEW r \in Request, RunLocally(r) PROVE Rest'
  BY <1>8 DEF RunLocally, socketVars, recordVars
<1>9. ASSUME NEW r \in Request, NEW status \in {"completed", "error"}, AnswerLocally(r, status)
      PROVE  Rest'
  BY <1>9 DEF AnswerLocally, socketVars, recordVars
<1>10. ASSUME NEW r \in Request, HandleMessage(r) PROVE Rest'
  BY <1>10 DEF HandleMessage, socketVars
<1>11. ASSUME NEW r \in Request, TimeOut(r) PROVE Rest'
  BY <1>11 DEF TimeOut, socketVars, recordVars
<1> QED
  BY <1>1, <1>2, <1>3, <1>4, <1>5, <1>6, <1>7, <1>8, <1>9, <1>10, <1>11
     DEF Next, SocketStep, RequestStep

(* The inductive invariant.                                                *)
THEOREM Invariance == Spec => []Inv
<1>1. Inv /\ [Next]_vars => Inv'
  BY NextTypeOK, NextRest DEF Inv
<1> QED BY InitInv, <1>1, PTL DEF Spec

(* Every variable of the device session stays in its type.                 *)
THEOREM TypeCorrect == Spec => []TypeOK
<1>1. Inv => TypeOK
  BY DEF Inv
<1> QED BY <1>1, Invariance, PTL

(* A program goes out only on a connection its author's session opened.    *)
THEOREM SentHome == Spec => []SentToItsAuthor
<1>1. Inv => SentToItsAuthor
  BY DEF Inv
<1> QED BY <1>1, Invariance, PTL

(* A device with an open connection is recorded as online and as its       *)
(* user's.                                                                 *)
THEOREM OnlineWhileConnected == Spec => []ConnectedIsOnline
<1>1. Inv => ConnectedIsOnline
  BY DEF Inv
<1> QED BY <1>1, Invariance, PTL

(* No program waits for a device recorded as offline.                      *)
THEOREM NoneAwaitedOffline == Spec => []AwaitedIsOnline
<1>1. Inv => AwaitedIsOnline
  BY DEF Inv
<1> QED BY <1>1, Invariance, PTL

(* What the search for the author's device can miss.                       *)
LEMMA TurnedAway ==
  ASSUME Inv, NEW r \in Request, HandleExecute(r), outcome'[r] # outcome[r]
  PROVE  \/ \A s \in Socket : server[s] = "open" => sessionUser[s] # Author[r]
         \/ \E s \in Socket : server[s] = "closing"
<1> SUFFICES ASSUME NEW s \in Socket, server[s] = "open", sessionUser[s] = Author[r],
                    \A t \in Socket : server[t] # "closing"
             PROVE  FALSE
  OBVIOUS
<1>1. \/ ResolveActive(Author[r]) = {}
      \/ \E d \in ResolveActive(Author[r]) : OpenSockets(d) = {}
  BY DEF HandleExecute
<1>2. owner[DeviceOf[s]] = Author[r] /\ s \in Accepted
  BY DEF Inv, ConnectedIsOnline, Accepted
<1>3. ResolveActive(Author[r]) # {}
  BY <1>2 DEF ResolveActive
<1>4. ASSUME NEW d \in ResolveActive(Author[r]) PROVE OpenSockets(d) # {}
  <2>1. \A t \in Accepted : t \in OpenSockets(DeviceOf[t])
    BY DEF Accepted, OpenSockets
  <2> QED BY <2>1 DEF ResolveActive
<1> QED BY <1>1, <1>3, <1>4

(* A user whose device is connected is not turned away as without one,     *)
(* except for a connection in closing.                                     *)
THEOREM ConnectedFound == Spec => ConnectedIsFound
<1> DEFINE Found ==
      \A r \in Request :
        outcome[r] = "none" /\ sentOn[r] = NoSocket /\ outcome'[r] # "none" =>
          \/ \A s \in Socket : server[s] = "open" => sessionUser[s] # Author[r]
          \/ \E s \in Socket : server[s] = "closing"
<1>1. Inv /\ [Next]_vars => [Found]_vars
  <2> SUFFICES ASSUME Inv, Next, NEW r \in Request,
                      outcome[r] = "none", sentOn[r] = NoSocket, outcome'[r] # "none"
               PROVE  \/ \A s \in Socket : server[s] = "open" => sessionUser[s] # Author[r]
                      \/ \E s \in Socket : server[s] = "closing"
    OBVIOUS
  <2>1. r \notin pending /\ desk[r] = "none"
    BY DEF Inv, SentOK, TypeOK
  <2>2. ASSUME NEW rs, r \notin rs, NEW status, Respond(rs, status) PROVE FALSE
    BY <2>2 DEF Respond
  <2>3. ~Restart
    BY <2>1, <2>2 DEF Restart
  <2>4. ASSUME NEW s \in Socket, SocketStep(s) PROVE FALSE
    <3>1. UNCHANGED outcome \/ Respond(AwaitedFrom(DeviceOf[s]), "unavailable")
      BY <2>4 DEF SocketStep, Connect, ClientClosed, HandleConnect, ServerClosed, MarkOffline,
                  requestVars
    <3>2. r \notin AwaitedFrom(DeviceOf[s])
      BY <2>1 DEF AwaitedFrom
    <3> QED BY <2>2, <3>1, <3>2
  <2>5. PICK q \in Request : RequestStep(q)
    BY <2>3, <2>4 DEF Next
  <2>6. CASE HandleExecute(q)
    <3>1. UNCHANGED outcome \/ Respond({q}, "unavailable")
      BY <2>6 DEF HandleExecute
    <3>2. r = q
      BY <2>2, <3>1
    <3> QED BY <2>6, <3>2, TurnedAway
  <2>7. CASE ~HandleExecute(q)
    <3>1. \/ UNCHANGED outcome
          \/ \E status : Respond({q} \cap pending, status)
      BY <2>5, <2>7 DEF RequestStep, RunLocally, AnswerLocally, HandleMessage, TimeOut
    <3> QED BY <2>1, <2>2, <3>1
  <2> QED BY <2>6, <2>7
<1>2. Spec => [][Found]_vars
  BY <1>1, Invariance, PTL DEF Spec
<1> QED BY <1>2 DEF ConnectedIsFound
================================================================================
