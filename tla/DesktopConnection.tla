--------------------------- MODULE DesktopConnection ---------------------------
(***************************************************************************)
(* The loop that keeps one desktop connected to the cloud app while its    *)
(* user is signed in (apps/desktop/src/main.ts).  It is driven by checks   *)
(* of the session that answer late, a reconnect timer, a cookie store that *)
(* is read asynchronously, and the close and error events of web sockets.  *)
(*                                                                         *)
(* DeviceSession has the other end; here a connection may be accepted and  *)
(* may be lost at any time.                                                *)
(***************************************************************************)

CONSTANTS
  User,     \* the users who sign in at the desktop
  Socket,   \* bound: the web socket objects alive at once
  NoUser,   \* not a user
  NoSocket, \* not a socket
  Unasked   \* no query of this kind is under way

ASSUME DesktopAssumption ==
  /\ NoUser \notin User
  /\ NoSocket \notin Socket
  /\ Unasked \notin User \cup {NoUser}

VARIABLES
  cookie,          \* the user of the session cookie that is stored
  deviceAuthState, \* who the desktop last found to be signed in
  checking,        \* who a check of the session, under way, will find
  reconnectTimer,  \* deviceReconnectTimer is armed
  connecting,      \* deviceConnecting: the session the attempt has read
  deviceSocket,    \* the current web socket
  client           \* the readyState of each web socket

connectionVars == <<cookie, deviceAuthState, checking, reconnectTimer, connecting,
                    deviceSocket, client>>

(* The readyStates connectDeviceWebSocket takes for a connection.          *)
Live == {"connecting", "open"}

ConnectionInit ==
  /\ cookie \in User \cup {NoUser}
  /\ deviceAuthState = NoUser
  /\ checking = Unasked
  /\ reconnectTimer = FALSE
  /\ connecting = Unasked
  /\ deviceSocket = NoSocket
  /\ client = [s \in Socket |-> "closed"]

--------------------------------------------------------------------------------

(* The browser comes back to the app with a session.                       *)
StoreSession(u) ==
  /\ cookie' = u
  /\ UNCHANGED <<deviceAuthState, checking, reconnectTimer, connecting, deviceSocket, client>>

(* stopDeviceConnection.                                                   *)
StopConnection ==
  /\ deviceAuthState' = NoUser
  /\ reconnectTimer' = FALSE
  /\ deviceSocket' = NoSocket
  /\ client' = [s \in Socket |-> IF s = deviceSocket /\ client[s] \in Live
                                 THEN "closing" ELSE client[s]]

(* signOutCloud.                                                           *)
SignOut ==
  /\ StopConnection
  /\ cookie' = NoUser
  /\ UNCHANGED <<checking, connecting>>

(* fetchCloudAuthState asks the cloud app about the cookie of this moment, *)
(* at the start, when a window asks, and after a sign-in.                  *)
CheckAuth ==
  /\ checking = Unasked
  /\ checking' = cookie
  /\ UNCHANGED <<cookie, deviceAuthState, reconnectTimer, connecting, deviceSocket, client>>

(* The check fails, or the cloud app does not know the session (any more): *)
(* it then counts as none.                                                 *)
CheckFails ==
  /\ checking # Unasked
  /\ checking' \in {NoUser, Unasked}
  /\ UNCHANGED <<cookie, deviceAuthState, reconnectTimer, connecting, deviceSocket, client>>

(* syncDeviceConnection with the answer of the check.                      *)
SyncConnection ==
  /\ checking # Unasked
  /\ checking' = Unasked
  /\ \/ /\ checking = NoUser
        /\ StopConnection
     \/ /\ checking # NoUser
        /\ deviceAuthState' = checking
        /\ reconnectTimer' = TRUE
        /\ UNCHANGED <<deviceSocket, client>>
  /\ UNCHANGED <<cookie, connecting>>

(* scheduleDeviceReconnect: at most one timer, and none when signed out.   *)
ScheduleReconnect == reconnectTimer' = (reconnectTimer \/ deviceAuthState # NoUser)

(* Mutant: an attempt that is under way does not keep another from         *)
(* starting, whose read of the cookie is then the one that counts.         *)
StartAnyway ==
  /\ reconnectTimer
  /\ reconnectTimer' = FALSE
  /\ connecting' = IF deviceAuthState = NoUser THEN connecting ELSE cookie
  /\ UNCHANGED <<cookie, deviceAuthState, checking, deviceSocket, client>>

(* Whether connectDeviceWebSocket returns at once.                         *)
NoAttempt == \/ deviceAuthState = NoUser
             \/ connecting # Unasked
             \/ deviceSocket # NoSocket /\ client[deviceSocket] \in Live

(* The timer fires: connectDeviceWebSocket up to its read of the cookie,   *)
(* which finds what is stored now however late it answers.                 *)
StartConnecting ==
  /\ reconnectTimer
  /\ reconnectTimer' = FALSE
  /\ connecting' = IF NoAttempt THEN connecting ELSE cookie
  /\ UNCHANGED <<cookie, deviceAuthState, checking, deviceSocket, client>>

(* The read of the cookie found no session: another attempt is scheduled.  *)
NoSession ==
  /\ connecting = NoUser
  /\ connecting' = Unasked
  /\ ScheduleReconnect
  /\ UNCHANGED <<cookie, deviceAuthState, checking, deviceSocket, client>>

(* It found one: a web socket is opened with it, also when the user has    *)
(* signed out, or another signed in, since it was read.                    *)
OpenSocket(s) ==
  /\ connecting \in User
  /\ client[s] = "closed"
  /\ connecting' = Unasked
  /\ client' = [client EXCEPT ![s] = "connecting"]
  /\ deviceSocket' = s
  /\ UNCHANGED <<cookie, deviceAuthState, checking, reconnectTimer>>

(* The cloud app accepts the connection.                                   *)
Opened(s) ==
  /\ client[s] = "connecting"
  /\ client' = [client EXCEPT ![s] = "open"]
  /\ UNCHANGED <<cookie, deviceAuthState, checking, reconnectTimer, connecting, deviceSocket>>

(* The cloud app starts to close it ("replaced", or it goes away).         *)
PeerCloses(s) ==
  /\ client[s] = "open"
  /\ client' = [client EXCEPT ![s] = "closing"]
  /\ UNCHANGED <<cookie, deviceAuthState, checking, reconnectTimer, connecting, deviceSocket>>

(* Mutant: a connection that was refused is not tried again.               *)
ClosedUnlessRefused(s) ==
  /\ client[s] # "closed"
  /\ client' = [client EXCEPT ![s] = "closed"]
  /\ deviceSocket' = IF deviceSocket = s THEN NoSocket ELSE deviceSocket
  /\ reconnectTimer' = (reconnectTimer \/ (deviceAuthState # NoUser /\ client[s] # "connecting"))
  /\ UNCHANGED <<cookie, deviceAuthState, checking, connecting>>

(* The listeners of close and error: refused, lost, ended by the cloud     *)
(* app, or the end of a close of our own.                                  *)
Closed(s) ==
  /\ client[s] # "closed"
  /\ client' = [client EXCEPT ![s] = "closed"]
  /\ deviceSocket' = IF deviceSocket = s THEN NoSocket ELSE deviceSocket
  /\ ScheduleReconnect
  /\ UNCHANGED <<cookie, deviceAuthState, checking, connecting>>

--------------------------------------------------------------------------------

ConnectionNext ==
  \/ \E u \in User : StoreSession(u)
  \/ SignOut \/ CheckAuth \/ CheckFails \/ SyncConnection
  \/ StartConnecting \/ NoSession
  \/ \E s \in Socket : OpenSocket(s) \/ Opened(s) \/ PeerCloses(s) \/ Closed(s)

(* Timers fire, the cookie store answers, and a web socket that is closing *)
(* gets closed.                                                            *)
ConnectionFairness ==
  /\ WF_connectionVars(StartConnecting)
  /\ WF_connectionVars(NoSession)
  /\ WF_connectionVars(\E s \in Socket : OpenSocket(s))
  /\ \A s \in Socket : WF_connectionVars(client[s] = "closing" /\ Closed(s))

ConnectionSpec == ConnectionInit /\ [][ConnectionNext]_connectionVars

FairConnectionSpec == ConnectionSpec /\ ConnectionFairness

--------------------------------------------------------------------------------
(* Properties.                                                             *)

(* Types of the variables.                                                 *)
ConnectionTypeOK ==
  /\ cookie \in User \cup {NoUser}
  /\ deviceAuthState \in User \cup {NoUser}
  /\ checking \in User \cup {NoUser, Unasked}
  /\ reconnectTimer \in BOOLEAN
  /\ connecting \in User \cup {NoUser, Unasked}
  /\ deviceSocket \in Socket \cup {NoSocket}
  /\ client \in [Socket -> {"closed", "connecting", "open", "closing"}]

(* The desktop has one connection at a time, the one deviceSocket names:   *)
(* two would have the same deviceId, and the cloud app closes the older of *)
(* such a pair as replaced, which makes the desktop open the next.         *)
OneConnection ==
  \A s \in Socket : client[s] \in Live => deviceSocket = s

(* A desktop that takes itself for signed in has a socket whose close will *)
(* be heard, an attempt under way or a timer that starts one: no order of  *)
(* sign-ins, sign-outs, late answers and close events leaves it offline.   *)
KeepsReconnecting ==
  deviceAuthState # NoUser =>
    \/ reconnectTimer
    \/ connecting # Unasked
    \/ deviceSocket # NoSocket /\ client[deviceSocket] # "closed"

(* A desktop that stays signed in with a session stored tries to connect   *)
(* again and again, however often it is refused or cut off.                *)
KeepsTrying ==
  <>[](deviceAuthState # NoUser /\ cookie # NoUser) =>
    []<>(\E s \in Socket : client[s] \in Live)
================================================================================
