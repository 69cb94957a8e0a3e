----------------------------- MODULE DeviceSession -----------------------------
(***************************************************************************)
(* Running code on a user's own desktop from the cloud app: the durable    *)
(* object of an organization that keeps the desktops' web sockets          *)
(* (apps/cloud/src/device-session.ts), the code executor that asks it and  *)
(* falls back to the hosted runtime (services/device-code-executor.ts),    *)
(* and what a desktop does with a program (apps/desktop/src/main.ts).      *)
(*                                                                         *)
(* A handler of the durable object is one step: while it awaits its        *)
(* storage the object's input gate holds every other event back.  The two  *)
(* ends of a web socket are apart, so each learns late that the other has  *)
(* closed, and what is in flight may be lost.  When a desktop connects,    *)
(* and as whom, is left open here; DesktopConnection has its loop.         *)
(***************************************************************************)

CONSTANTS
  Device,     \* the desktops, by the deviceId in their settings
  User,       \* the members of the organization
  Socket,     \* bound: the connections the desktops open
  DeviceOf,   \* the desktop that opens a connection
  Request,    \* the programs the users submit
  Author,     \* the user who submits a program
  Fallbacks,  \* whether the plan may include the hosted runtime
  NoUser,     \* not a user
  NoDevice,   \* not a device
  NoSocket    \* not a connection

ASSUME DeviceAssumption ==
  /\ DeviceOf \in [Socket -> Device]
  /\ Author \in [Request -> User]
  /\ Fallbacks \subseteq BOOLEAN
  /\ NoUser \notin User
  /\ NoDevice \notin Device
  /\ NoSocket \notin Socket

VARIABLES
  allowFallback,    \* the plan of the organization
  sessionUser,      \* the user whose session opened a connection
  client,           \* the desktop's end of a connection
  server,           \* the durable object's end
  owner,            \* storage: the user in a device's record
  online,           \* storage: the online flag of the record
  activeDevice,     \* storage: a user's active device
  pending,          \* memory: the programs whose answer is awaited
  sentOn,           \* the connection a program was sent on
  desk,             \* what the desktop has done with a program
  outcome           \* what the executor made of a program

socketVars  == <<sessionUser, client, server>>
recordVars  == <<owner, online, activeDevice>>
requestVars == <<pending, sentOn, desk, outcome>>
vars        == <<allowFallback, socketVars, recordVars, requestVars>>

(* The connections of a device that getWebSockets returns as OPEN.         *)
OpenSockets(d) == {s \in Socket : DeviceOf[s] = d /\ server[s] = "open"}

(* The connections getWebSockets returns.                                  *)
Accepted == {s \in Socket : server[s] \in {"open", "closing"}}

Init ==
  /\ allowFallback \in Fallbacks
  /\ sessionUser = [s \in Socket |-> NoUser]
  /\ client = [s \in Socket |-> "none"]
  /\ server = [s \in Socket |-> "none"]
  /\ owner = [d \in Device |-> NoUser]
  /\ online = [d \in Device |-> FALSE]
  /\ activeDevice = [u \in User |-> NoDevice]
  /\ pending = {}
  /\ sentOn = [r \in Request |-> NoSocket]
  /\ desk = [r \in Request |-> "none"]
  /\ outcome = [r \in Request |-> "none"]

--------------------------------------------------------------------------------
(* The desktop.                                                            *)

(* A desktop opens a connection with the session it has.                   *)
Connect(s, u) ==
  /\ client[s] = "none"
  /\ client' = [client EXCEPT ![s] = "connecting"]
  /\ sessionUser' = [sessionUser EXCEPT ![s] = u]
  /\ UNCHANGED <<allowFallback, server, recordVars, requestVars>>

(* Its end of a connection closes: refused, lost, ended by the server or   *)
(* by stopDeviceConnection.                                                *)
ClientClosed(s) ==
  /\ client[s] \in {"connecting", "open"}
  /\ client' = [client EXCEPT ![s] = "closed"]
  /\ UNCHANGED <<allowFallback, sessionUser, server, recordVars, requestVars>>

(* The desktop gets a program and hands it to the local server.            *)
RunLocally(r) ==
  /\ sentOn[r] # NoSocket
  /\ client[sentOn[r]] = "open"
  /\ desk[r] = "none"
  /\ desk' = [desk EXCEPT ![r] = "running"]
  /\ UNCHANGED <<allowFallback, socketVars, recordVars>>
  /\ UNCHANGED <<pending, sentOn, outcome>>

(* The local run ends: its answer goes out on the connection the program   *)
(* came on, or nowhere when that is no longer open.                        *)
AnswerLocally(r, status) ==
  /\ desk[r] = "running"
  /\ desk' = [desk EXCEPT ![r] = IF client[sentOn[r]] = "open" THEN status ELSE "unsent"]
  /\ UNCHANGED <<allowFallback, socketVars, recordVars>>
  /\ UNCHANGED <<pending, sentOn, outcome>>

--------------------------------------------------------------------------------
(* The durable object and the executor.                                    *)

(* Mutant: the connection a device had before stays.                       *)
ConnectBeside(s) ==
  /\ server[s] = "none" /\ client[s] # "none"
  /\ server' = [server EXCEPT ![s] = "open"]
  /\ client' = [client EXCEPT ![s] = IF @ = "connecting" THEN "open" ELSE @]
  /\ owner' = [owner EXCEPT ![DeviceOf[s]] = sessionUser[s]]
  /\ online' = [online EXCEPT ![DeviceOf[s]] = TRUE]
  /\ activeDevice' = [activeDevice EXCEPT ![sessionUser[s]] = DeviceOf[s]]
  /\ UNCHANGED <<allowFallback, sessionUser, requestVars>>

(* handleConnect: the connection is accepted, those the device had before  *)
(* are closed as replaced, the record written and the device made active.  *)
(* The desktop may have given up meanwhile.                                *)
HandleConnect(s) ==
  /\ server[s] = "none" /\ client[s] # "none"
  /\ server' = [t \in Socket |-> IF t = s THEN "open"
                                 ELSE IF t \in OpenSockets(DeviceOf[s]) THEN "closing"
                                 ELSE server[t]]
  /\ client' = [client EXCEPT ![s] = IF @ = "connecting" THEN "open" ELSE @]
  /\ owner' = [owner EXCEPT ![DeviceOf[s]] = sessionUser[s]]
  /\ online' = [online EXCEPT ![DeviceOf[s]] = TRUE]
  /\ activeDevice' = [activeDevice EXCEPT ![sessionUser[s]] = DeviceOf[s]]
  /\ UNCHANGED <<allowFallback, sessionUser, requestVars>>

(* resolveActiveSocketDeviceId without its loop over the other sockets.    *)
ResolveActiveOnly(u) ==
  {d \in {activeDevice[u]} : OpenSockets(d) # {} /\ d \in Device /\ owner[d] = u}

(* resolveActiveSocketDeviceId: the user's active device if it is open and *)
(* still theirs, or else the device of the first connection, open or not,  *)
(* whose record names the user.                                            *)
ResolveActive(u) ==
  IF activeDevice[u] # NoDevice /\ OpenSockets(activeDevice[u]) # {} /\ owner[activeDevice[u]] = u
  THEN {activeDevice[u]}
  ELSE {DeviceOf[s] : s \in {t \in Accepted : owner[DeviceOf[t]] = u}}

(* makeDeviceFirstCodeExecutor, on the response: 200 is the result, 409    *)
(* and 504 mean the hosted runtime or an upgrade (402), 502 is an error.   *)
Verdict(status) ==
  IF status # "unavailable" THEN status
  ELSE IF allowFallback THEN "hosted" ELSE "upgrade"

(* The requests in rs get a response, and their executors act on it.       *)
Respond(rs, status) ==
  outcome' = [r \in Request |-> IF r \in rs THEN Verdict(status) ELSE outcome[r]]

(* handleExecute: the program goes out on the open connection of the       *)
(* author's device, or the response is 409 no_connected_device.            *)
HandleExecute(r) ==
  /\ outcome[r] = "none" /\ sentOn[r] = NoSocket
  /\ \/ \E d \in ResolveActive(Author[r]) : \E s \in OpenSockets(d) :
          /\ sentOn' = [sentOn EXCEPT ![r] = s]
          /\ pending' = pending \cup {r}
          /\ UNCHANGED outcome
     \/ /\ \/ ResolveActive(Author[r]) = {}
           \/ \E d \in ResolveActive(Author[r]) : OpenSockets(d) = {}
        /\ Respond({r}, "unavailable")
        /\ UNCHANGED <<sentOn, pending>>
  /\ UNCHANGED <<allowFallback, socketVars, recordVars, desk>>

(* handleMessage: the device is heard from, whatever became of it since,   *)
(* and the answer goes to the program if it is still waited for.           *)
HandleMessage(r) ==
  /\ desk[r] \in {"completed", "error"}
  /\ sentOn[r] \in Accepted
  /\ desk' = [desk EXCEPT ![r] = "heard"]
  /\ online' = [online EXCEPT ![DeviceOf[sentOn[r]]] = TRUE]
  /\ pending' = pending \ {r}
  /\ Respond({r} \cap pending, desk[r])
  /\ UNCHANGED <<allowFallback, socketVars, owner, activeDevice, sentOn>>

(* Mutant: the deadline is put off while the desktop runs the program.     *)
TimeOutUnlessRunning(r) ==
  /\ r \in pending
  /\ desk[r] # "running"
  /\ pending' = pending \ {r}
  /\ Respond({r}, "unavailable")
  /\ UNCHANGED <<allowFallback, socketVars, recordVars, sentOn, desk>>

(* DEVICE_RPC_TIMEOUT_MS passes: 504.                                      *)
TimeOut(r) ==
  /\ r \in pending
  /\ pending' = pending \ {r}
  /\ Respond({r}, "unavailable")
  /\ UNCHANGED <<allowFallback, socketVars, recordVars, sentOn, desk>>

(* The programs rejectPendingForDevice rejects.                            *)
AwaitedFrom(d) == {r \in pending : DeviceOf[sentOn[r]] = d}

(* Mutant: a connection that closes takes its device offline.              *)
MarkOfflineAlways(s) ==
  /\ online' = [online EXCEPT ![DeviceOf[s]] = FALSE]
  /\ activeDevice' = [u \in User |-> IF u = owner[DeviceOf[s]] /\ activeDevice[u] = DeviceOf[s]
                                     THEN NoDevice ELSE activeDevice[u]]
  /\ pending' = pending \ AwaitedFrom(DeviceOf[s])
  /\ Respond(AwaitedFrom(DeviceOf[s]), "unavailable")

(* Mutant: only what was sent on the connection is rejected.               *)
MarkOfflineBySocket(s) ==
  IF OpenSockets(DeviceOf[s]) \ {s} # {}
  THEN UNCHANGED <<online, activeDevice, pending, outcome>>
  ELSE /\ online' = [online EXCEPT ![DeviceOf[s]] = FALSE]
       /\ activeDevice' = [u \in User |-> IF u = owner[DeviceOf[s]] /\ activeDevice[u] = DeviceOf[s]
                                          THEN NoDevice ELSE activeDevice[u]]
       /\ pending' = {r \in pending : sentOn[r] # s}
       /\ Respond({r \in pending : sentOn[r] = s}, "unavailable")

(* markOffline: nothing when the device has another open connection; else  *)
(* it is no longer the user's active device, its record says offline and   *)
(* what it was to answer is answered with 504 (device_disconnected).       *)
MarkOffline(s) ==
  IF OpenSockets(DeviceOf[s]) \ {s} # {}
  THEN UNCHANGED <<online, activeDevice, pending, outcome>>
  ELSE /\ online' = [online EXCEPT ![DeviceOf[s]] = FALSE]
       /\ activeDevice' = [u \in User |-> IF u = owner[DeviceOf[s]] /\ activeDevice[u] = DeviceOf[s]
                                          THEN NoDevice ELSE activeDevice[u]]
       /\ pending' = pending \ AwaitedFrom(DeviceOf[s])
       /\ Respond(AwaitedFrom(DeviceOf[s]), "unavailable")

(* webSocketClose and webSocketError.  Afterwards getWebSockets may still  *)
(* return the connection, in closing.                                      *)
ServerClosed(s) ==
  /\ s \in Accepted
  /\ \E state \in {"closing", "gone"} : server' = [server EXCEPT ![s] = state]
  /\ MarkOffline(s)
  /\ UNCHANGED <<allowFallback, sessionUser, client, owner, sentOn, desk>>

(* The durable object restarts: its memory and its connections are lost,   *)
(* and the fetches of the executors fail.                                  *)
Restart ==
  /\ server' = [s \in Socket |-> IF s \in Accepted THEN "gone" ELSE server[s]]
  /\ pending' = {}
  /\ Respond(pending, "error")
  /\ UNCHANGED <<allowFallback, sessionUser, client, recordVars, sentOn, desk>>

--------------------------------------------------------------------------------

SocketStep(s) == \/ \E u \in User : Connect(s, u)
                 \/ ClientClosed(s) \/ HandleConnect(s) \/ ServerClosed(s)

RequestStep(r) == \/ HandleExecute(r) \/ RunLocally(r)
                  \/ \E status \in {"completed", "error"} : AnswerLocally(r, status)
                  \/ HandleMessage(r) \/ TimeOut(r)

Next == \/ Restart
        \/ \E s \in Socket : SocketStep(s)
        \/ \E r \in Request : RequestStep(r)

(* The timers of the durable object fire.                                  *)
Fairness == \A r \in Request : WF_vars(TimeOut(r))

Spec == Init /\ [][Next]_vars

FairSpec == Spec /\ Fairness

--------------------------------------------------------------------------------
(* Properties.                                                             *)

(* Types of the variables.                                                 *)
TypeOK ==
  /\ allowFallback \in Fallbacks
  /\ sessionUser \in [Socket -> User \cup {NoUser}]
  /\ client \in [Socket -> {"none", "connecting", "open", "closed"}]
  /\ server \in [Socket -> {"none", "open", "closing", "gone"}]
  /\ owner \in [Device -> User \cup {NoUser}]
  /\ online \in [Device -> BOOLEAN]
  /\ activeDevice \in [User -> Device \cup {NoDevice}]
  /\ pending \subseteq Request
  /\ sentOn \in [Request -> Socket \cup {NoSocket}]
  /\ desk \in [Request -> {"none", "running", "completed", "error", "unsent", "heard"}]
  /\ outcome \in [Request -> {"none", "completed", "error", "hosted", "upgrade"}]

(* A program goes out only on a connection its author's session opened,    *)
(* also when users take turns at one desktop, whose deviceId they share.   *)
SentToItsAuthor ==
  \A r \in Request : sentOn[r] # NoSocket => sessionUser[sentOn[r]] = Author[r]

(* While a device has an open connection its record says online and names  *)
(* the user who is connected, whichever close of an older connection is    *)
(* handled when.                                                           *)
ConnectedIsOnline ==
  \A s \in Socket : server[s] = "open" =>
    online[DeviceOf[s]] /\ owner[DeviceOf[s]] = sessionUser[s]

(* No program waits for a device that is recorded as offline: when the     *)
(* last connection closes, what was sent on the earlier ones is rejected   *)
(* with it.                                                                *)
AwaitedIsOnline == \A r \in pending : online[DeviceOf[sentOn[r]]]

(* A program is turned away as without a connected device only when no     *)
(* device of its author is open, or one has a connection in closing that   *)
(* the search may meet first.                                              *)
ConnectedIsFound ==
  [][\A r \in Request :
       outcome[r] = "none" /\ sentOn[r] = NoSocket /\ outcome'[r] # "none" =>
         \/ \A s \in Socket : server[s] = "open" => sessionUser[s] # Author[r]
         \/ \E s \in Socket : server[s] = "closing"]_vars

(* Every program that was sent to a desktop gets an outcome, whatever      *)
(* becomes of the desktop, the connection and the durable object.          *)
EverySentIsAnswered ==
  \A r \in Request : sentOn[r] # NoSocket ~> outcome[r] # "none"
================================================================================
