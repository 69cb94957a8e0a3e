------------------------------ MODULE McpSession ------------------------------
(***************************************************************************)
(* An MCP session of the cloud app: the durable object that keeps it       *)
(* (apps/cloud/src/mcp-session.ts) and the calls the edge makes to it      *)
(* (apps/cloud/src/mcp.ts).  The runtime of a session, its transport, MCP  *)
(* server and database client, lives in memory; who it belongs to and when *)
(* it was last used live in storage, with the alarm that expires it.       *)
(*                                                                         *)
(* What a handler does between two awaits of the network is one step: an   *)
(* await of the object's own storage lets no other event in.  Other events *)
(* do come in while it ends a database client, builds a runtime or waits   *)
(* for the transport.  Time passes in ticks: a record of the last activity *)
(* is its age, and a set alarm the ticks left.                             *)
(***************************************************************************)
EXTENDS Naturals

CONSTANTS
  Account,       \* the bearers the edge has verified
  Owner,         \* the one the session is opened for
  NoAccount,     \* no session-meta
  Request,       \* bound: the requests of a session
  Timeout,       \* SESSION_TIMEOUT_MS, in ticks
  Heartbeat,     \* HEARTBEAT_MS, in ticks
  MaxEvictions   \* bound: how often the object loses its memory

ASSUME SessionAssumption ==
  /\ Owner \in Account
  /\ NoAccount \notin Account
  /\ Request \cap {"init", "alarm"} = {}
  /\ Timeout \in Nat \ {0}
  /\ Heartbeat \in Nat \ {0}
  /\ MaxEvictions \in Nat

VARIABLES
  meta,          \* storage: session-meta, by its user
  activity,      \* storage: the age of last-activity-ms
  alarm,         \* storage: the ticks until the alarm
  memMeta,       \* memory: sessionMeta
  memActivity,   \* memory: the age of lastActivityMs
  initialized,   \* memory
  transport,     \* memory: the runtime whose transport and server are set
  db,            \* memory: the runtime whose database client is dbHandle
  open,          \* the runtimes whose database client is not ended
  runtimes,      \* the number of runtimes so far; each is known by its number
  pc,            \* where a handler is
  runtime,       \* the runtime a handler builds or uses
  method,        \* what a request asks
  bearer,        \* whose request it is
  answer,        \* what it was answered
  age,           \* the age of a request since a transport took it
  cleared,       \* clearSessionState has run
  raced,         \* two handlers built or closed runtimes at the same time
  evictions

storageVars == <<meta, activity, alarm>>
memoryVars  == <<memMeta, memActivity, initialized, transport, db>>
handleVars  == <<open, runtimes>>
requestVars == <<method, bearer>>
vars == <<storageVars, memoryVars, handleVars, requestVars, pc, runtime, answer,
          age, cleared, raced, evictions>>

Handler == Request \cup {"init", "alarm"}

NoRuntime == 0
Unset     == Timeout + 1     \* no last-activity-ms: as old as can be
NoAlarm   == Heartbeat + 1

Older(t) == IF t < Timeout THEN t + 1 ELSE t

(* The handlers that other events can overtake while they build or close.  *)
Busy(p) == pc[p] \in {"building", "closing"}

Live == initialized /\ transport # NoRuntime

Init ==
  /\ meta = NoAccount /\ activity = Unset /\ alarm = NoAlarm
  /\ memMeta = NoAccount /\ memActivity = Unset
  /\ initialized = FALSE /\ transport = NoRuntime /\ db = NoRuntime
  /\ open = {} /\ runtimes = 0
  /\ pc = [p \in Handler |-> "idle"]
  /\ runtime = [p \in Handler |-> NoRuntime]
  /\ method = [r \in Request |-> "none"]
  /\ bearer = [r \in Request |-> NoAccount]
  /\ answer = [r \in Request |-> "none"]
  /\ age = [r \in Request |-> Timeout]
  /\ cleared = FALSE /\ raced = FALSE /\ evictions = 0

--------------------------------------------------------------------------------
(* What the handlers share.                                                *)

(* Mutant: the session-meta is not read back from storage.                 *)
RememberedMeta == memMeta

(* loadSessionMeta                                                         *)
LoadedMeta == IF memMeta # NoAccount THEN memMeta ELSE meta

(* Mutant: an object that has lost its memory checks nobody.               *)
AuthorizedInMemory(a) == memMeta \in {NoAccount, a}

(* validateSessionOwner                                                    *)
Authorized(a) == LoadedMeta \in {NoAccount, a}

(* Mutant: the activity is recorded in memory only.                        *)
TouchMemory ==
  /\ memActivity' = 0
  /\ alarm' = Heartbeat
  /\ UNCHANGED activity

(* markActivity                                                            *)
Touch ==
  /\ memActivity' = 0 /\ activity' = 0
  /\ alarm' = Heartbeat

(* clearSessionState                                                       *)
ClearSessionState ==
  /\ memMeta' = NoAccount /\ memActivity' = Unset /\ initialized' = FALSE
  /\ meta' = NoAccount /\ activity' = Unset /\ alarm' = NoAlarm
  /\ cleared' = TRUE

(* A step that builds or closes while another handler is at it.            *)
Overlaps(p) == raced' = (raced \/ \E q \in Handler \ {p} : Busy(q))

(* A request is answered; the other handlers come to rest.                 *)
Finish(p, result) ==
  /\ pc' = [pc EXCEPT ![p] = IF p = "alarm" THEN "idle" ELSE
                             IF p = "init" THEN "failed" ELSE "done"]
  /\ answer' = [r \in Request |-> IF r = p THEN result ELSE answer[r]]

(* What a handler that has cleared the session answers.                    *)
Verdict(p) == IF p \in Request /\ method[p] = "REVOKED" THEN "forbidden" ELSE "ok"

(* closeRuntime up to the end of the database client, which it awaits      *)
(* while dbHandle and initialized still say what they said.                *)
StartClose(p) ==
  /\ db # NoRuntime
  /\ transport' = NoRuntime
  /\ open' = open \ {db}
  /\ pc' = [pc EXCEPT ![p] = "closing"]
  /\ UNCHANGED <<meta, activity, alarm, memActivity, initialized, db, runtimes,
                 runtime, answer, cleared>>

(* A runtime gets its database client and starts to be built.              *)
OpenRuntime(p) ==
  /\ runtimes' = runtimes + 1
  /\ db' = runtimes'
  /\ open' = open \cup {runtimes'}
  /\ runtime' = [runtime EXCEPT ![p] = runtimes']
  /\ pc' = [pc EXCEPT ![p] = "building"]

(* cleanup: closeRuntime, which awaits nothing when there is no database   *)
(* client, then clearSessionState.                                         *)
Cleanup(p, result) ==
  /\ Overlaps(p)
  /\ \/ StartClose(p) /\ UNCHANGED memMeta
     \/ /\ db = NoRuntime
        /\ transport' = NoRuntime
        /\ ClearSessionState
        /\ Finish(p, result)
        /\ UNCHANGED <<db, open, runtimes, runtime>>

--------------------------------------------------------------------------------
(* The opening of a session.                                               *)

(* doInit resolves the organization and stores whose session this is.      *)
InitStores ==
  /\ pc["init"] = "idle"
  /\ pc' = [pc EXCEPT !["init"] = "saved"]
  /\ memMeta' = Owner /\ meta' = Owner
  /\ UNCHANGED <<activity, alarm, memActivity, initialized, transport, db, handleVars,
                 requestVars, runtime, answer, age, cleared, raced, evictions>>

(* The organization is not found, or the database is out of reach.         *)
InitFails ==
  /\ pc["init"] = "idle"
  /\ Cleanup("init", "ok")
  /\ UNCHANGED <<requestVars, age, evictions>>

(* The client that looked the organization up is ended; the runtime of the *)
(* session follows.                                                        *)
InitOpens ==
  /\ pc["init"] = "saved"
  /\ OpenRuntime("init")
  /\ UNCHANGED <<storageVars, memMeta, memActivity, initialized, transport,
                 requestVars, answer, age, cleared, raced, evictions>>

--------------------------------------------------------------------------------
(* The requests, as they come in.                                          *)

(* The edge passes on a request of account a: the first is the one that    *)
(* opened the session, the others know the session's id from its answer.   *)
Arrives(r, m, a) ==
  /\ pc["init"] = "done"
  /\ pc[r] = "idle"
  /\ \/ (\A q \in Request : pc[q] = "idle") /\ m = "CALL" /\ a = Owner
     \/ \E q \in Request : answer[q] = "ok"
  /\ method' = [method EXCEPT ![r] = m]
  /\ bearer' = [bearer EXCEPT ![r] = a]
  /\ UNCHANGED evictions

(* The bearer may not use the organization any more: the edge asks for     *)
(* clearSession, and answers by itself.                                    *)
Revoke(r, a) ==
  /\ Arrives(r, "REVOKED", a)
  /\ Cleanup(r, "forbidden")
  /\ UNCHANGED age

(* The session belongs to somebody else.                                   *)
Reject(r, m, a) ==
  /\ Arrives(r, m, a)
  /\ ~Authorized(a)
  /\ memMeta' = LoadedMeta
  /\ Finish(r, "forbidden")
  /\ UNCHANGED <<storageVars, memActivity, initialized, transport, db, handleVars,
                 runtime, age, cleared, raced>>

(* A request for a live session goes to its transport.                     *)
Serve(r, m, a) ==
  /\ Arrives(r, m, a)
  /\ Authorized(a)
  /\ Live
  /\ memMeta' = LoadedMeta
  /\ Touch
  /\ runtime' = [runtime EXCEPT ![r] = transport]
  /\ pc' = [pc EXCEPT ![r] = "serving"]
  /\ age' = [age EXCEPT ![r] = 0]
  /\ UNCHANGED <<meta, initialized, transport, db, handleVars, answer, cleared, raced>>

(* A DELETE of a session that is not live clears what is stored.           *)
StaleDelete(r, a) ==
  /\ Arrives(r, "DELETE", a)
  /\ Authorized(a)
  /\ ~Live
  /\ Overlaps(r)
  /\ ClearSessionState
  /\ Finish(r, "deleted")
  /\ UNCHANGED <<transport, db, handleVars, runtime, age>>

(* Nothing is stored: the session is gone.                                 *)
Gone(r, a) ==
  /\ Arrives(r, "CALL", a)
  /\ ~Live
  /\ LoadedMeta = NoAccount
  /\ Finish(r, "gone")
  /\ UNCHANGED <<storageVars, memoryVars, handleVars, runtime, age, cleared, raced>>

(* Mutant: restoring leaves what there was of a runtime as it is.          *)
RestoreBeside(r, a) ==
  /\ Arrives(r, "CALL", a)
  /\ Authorized(a)
  /\ ~Live
  /\ LoadedMeta # NoAccount
  /\ memMeta' = LoadedMeta
  /\ Overlaps(r)
  /\ OpenRuntime(r)
  /\ UNCHANGED <<storageVars, memActivity, initialized, transport, answer, age, cleared>>

(* restoreRuntimeFromStorage: what there is of a runtime is closed, and a  *)
(* new one opened.                                                         *)
Restore(r, a) ==
  /\ Arrives(r, "CALL", a)
  /\ Authorized(a)
  /\ ~Live
  /\ LoadedMeta # NoAccount
  /\ memMeta' = LoadedMeta
  /\ Overlaps(r)
  /\ \/ StartClose(r)
     \/ /\ db = NoRuntime
        /\ transport' = NoRuntime /\ initialized' = FALSE
        /\ OpenRuntime(r)
        /\ UNCHANGED <<storageVars, memActivity, answer, cleared>>
  /\ UNCHANGED age

--------------------------------------------------------------------------------
(* The steps that follow.                                                  *)

(* The database client is ended.  A request to be restored goes on to open *)
(* a runtime, everything else to clear the session.                        *)
Closed(p) ==
  /\ pc[p] = "closing"
  /\ IF p \in Request /\ method[p] = "CALL"
     THEN /\ initialized' = FALSE
          /\ OpenRuntime(p)
          /\ UNCHANGED <<storageVars, memMeta, memActivity, answer, cleared>>
     ELSE /\ db' = NoRuntime
          /\ ClearSessionState
          /\ Finish(p, Verdict(p))
          /\ UNCHANGED <<open, runtimes, runtime>>
  /\ UNCHANGED <<transport, requestVars, age, raced, evictions>>

(* A runtime is ready: init is done, and the request that restored it is   *)
(* served.                                                                 *)
Built(p) ==
  /\ pc[p] = "building"
  /\ transport' = runtime[p]
  /\ initialized' = TRUE
  /\ Touch
  /\ pc' = [pc EXCEPT ![p] = IF p = "init" THEN "done" ELSE "serving"]
  /\ age' = [r \in Request |-> IF r = p THEN 0 ELSE age[r]]
  /\ UNCHANGED <<meta, memMeta, db, handleVars, requestVars, runtime, answer,
                 cleared, raced, evictions>>

(* It cannot be built: init cleans up, a request is answered and leaves    *)
(* the database client.                                                    *)
BuildFails(p) ==
  /\ pc[p] = "building"
  /\ \/ p = "init" /\ Cleanup(p, "ok")
     \/ /\ p \in Request
        /\ Finish(p, "error")
        /\ UNCHANGED <<storageVars, memoryVars, handleVars, runtime, cleared, raced>>
  /\ UNCHANGED <<requestVars, age, evictions>>

(* The transport answers; after a DELETE the session is cleaned up first.  *)
Respond(r) ==
  /\ pc[r] = "serving"
  /\ \/ method[r] = "DELETE" /\ Cleanup(r, "ok")
     \/ /\ method[r] # "DELETE"
        /\ Finish(r, "ok")
        /\ UNCHANGED <<storageVars, memoryVars, handleVars, runtime, cleared, raced>>
  /\ UNCHANGED <<requestVars, age, evictions>>

(* The transport fails.                                                    *)
ServeFails(r) ==
  /\ pc[r] = "serving"
  /\ Finish(r, "error")
  /\ UNCHANGED <<storageVars, memoryVars, handleVars, requestVars, runtime, age,
                 cleared, raced, evictions>>

--------------------------------------------------------------------------------
(* The alarm, time, and the loss of memory.                                *)

(* loadLastActivity                                                        *)
LoadedActivity == IF memActivity # Unset THEN memActivity ELSE activity

(* runAlarm finds the session idle and cleans up.                          *)
AlarmExpires ==
  /\ alarm = 0 /\ pc["alarm"] = "idle"
  /\ LoadedActivity >= Timeout
  /\ Overlaps("alarm")
  /\ \/ /\ db # NoRuntime
        /\ alarm' = NoAlarm
        /\ memActivity' = LoadedActivity
        /\ transport' = NoRuntime
        /\ open' = open \ {db}
        /\ pc' = [pc EXCEPT !["alarm"] = "closing"]
        /\ UNCHANGED <<meta, activity, memMeta, initialized, db, answer, cleared>>
     \/ /\ db = NoRuntime
        /\ transport' = NoRuntime
        /\ ClearSessionState
        /\ Finish("alarm", "ok")
        /\ UNCHANGED <<db, open>>
  /\ UNCHANGED <<runtimes, runtime, requestVars, age, evictions>>

(* Mutant: the alarm is not set again.                                     *)
AlarmOnce ==
  /\ alarm = 0 /\ pc["alarm"] = "idle"
  /\ LoadedActivity < Timeout
  /\ memActivity' = LoadedActivity
  /\ alarm' = NoAlarm
  /\ UNCHANGED <<meta, activity, memMeta, initialized, transport, db, handleVars,
                 requestVars, pc, runtime, answer, age, cleared, raced, evictions>>

(* runAlarm finds the session in use and sets the alarm again.             *)
AlarmRearms ==
  /\ alarm = 0 /\ pc["alarm"] = "idle"
  /\ LoadedActivity < Timeout
  /\ memActivity' = LoadedActivity
  /\ alarm' = Heartbeat
  /\ UNCHANGED <<meta, activity, memMeta, initialized, transport, db, handleVars,
                 requestVars, pc, runtime, answer, age, cleared, raced, evictions>>

(* Time passes.                                                            *)
Tick ==
  /\ \/ alarm \in 1..Heartbeat
     \/ activity < Timeout
     \/ \E r \in Request : age[r] < Timeout
  /\ alarm' = IF alarm \in 1..Heartbeat THEN alarm - 1 ELSE alarm
  /\ activity' = Older(activity)
  /\ memActivity' = Older(memActivity)
  /\ age' = [r \in Request |-> Older(age[r])]
  /\ UNCHANGED <<meta, memMeta, initialized, transport, db, handleVars, requestVars,
                 pc, runtime, answer, cleared, raced, evictions>>

(* The object loses its memory, and every handler with it.  An alarm whose *)
(* handler did not finish is due again.                                    *)
Evict ==
  /\ evictions < MaxEvictions
  /\ evictions' = evictions + 1
  /\ memMeta' = NoAccount /\ memActivity' = Unset
  /\ initialized' = FALSE /\ transport' = NoRuntime /\ db' = NoRuntime
  /\ open' = {} /\ raced' = FALSE
  /\ alarm' = IF pc["alarm"] = "closing" THEN 0 ELSE alarm
  /\ pc' = [p \in Handler |->
              IF p = "alarm" \/ pc[p] = "idle" THEN "idle"
              ELSE IF p # "init" THEN "done"
              ELSE IF pc[p] \in {"saved", "building", "closing"} THEN "failed" ELSE pc[p]]
  /\ answer' = [r \in Request |->
                  IF pc[r] \in {"idle", "done"} THEN answer[r] ELSE "error"]
  /\ UNCHANGED <<meta, activity, runtimes, requestVars, runtime, age, cleared>>

--------------------------------------------------------------------------------
Method == {"CALL", "DELETE"}

Step(p) == Closed(p) \/ Built(p) \/ BuildFails(p)

Next ==
  \/ InitStores \/ InitFails \/ InitOpens
  \/ \E r \in Request, a \in Account :
       \/ Revoke(r, a)
       \/ \E m \in Method : Reject(r, m, a) \/ Serve(r, m, a)
       \/ StaleDelete(r, a)
       \/ Gone(r, a)
       \/ Restore(r, a)
  \/ \E p \in Handler : Step(p)
  \/ \E r \in Request : Respond(r) \/ ServeFails(r)
  \/ AlarmExpires \/ AlarmRearms \/ Tick \/ Evict

Spec == Init /\ [][Next]_vars

(* Awaited clients end and runtimes get built or fail, the platform runs   *)
(* alarms that are due, and time passes.  Nothing is fair to the requests. *)
Fairness ==
  /\ \A p \in Handler : WF_vars(Step(p))
  /\ WF_vars(AlarmExpires \/ AlarmRearms)
  /\ WF_vars(Tick)

FairSpec == Spec /\ Fairness

--------------------------------------------------------------------------------
(* Each variable has its type.                                             *)
TypeOK ==
  /\ meta \in Account \cup {NoAccount}
  /\ memMeta \in Account \cup {NoAccount}
  /\ activity \in 0..Unset
  /\ memActivity \in 0..Unset
  /\ alarm \in 0..NoAlarm
  /\ initialized \in BOOLEAN /\ cleared \in BOOLEAN /\ raced \in BOOLEAN
  /\ runtimes \in Nat
  /\ transport \in 0..runtimes
  /\ db \in 0..runtimes
  /\ open \in SUBSET (1..runtimes)
  /\ pc \in [Handler -> {"idle", "saved", "building", "serving", "closing", "done",
                         "failed"}]
  /\ runtime \in [Handler -> 0..runtimes]
  /\ method \in [Request -> {"none", "CALL", "DELETE", "REVOKED"}]
  /\ bearer \in [Request -> Account \cup {NoAccount}]
  /\ answer \in [Request -> {"none", "ok", "error", "gone", "deleted", "forbidden"}]
  /\ age \in [Request -> 0..Timeout]
  /\ evictions \in 0..MaxEvictions

(* A session is gone only once somebody cleared it: a request that comes   *)
(* after the object lost its memory, in the middle of whatever it did, is  *)
(* never told that the session timed out.                                  *)
GoneOnlyWhenCleared ==
  \A r \in Request : answer[r] = "gone" => cleared

(* Until the session is cleared, the transport gets the requests of its    *)
(* owner only, before and after the object has lost its memory.            *)
ServedToItsOwner ==
  \A r \in Request :
    (pc[r] = "serving" \/ answer[r] = "ok") => (bearer[r] = Owner \/ cleared)

(* As long as no two handlers build or close runtimes at the same time, a  *)
(* live session is in storage, the database client it holds is the one its *)
(* runtime was built with and is not ended, and there is no other client   *)
(* open.                                                                   *)
Coherent ==
  ~raced =>
    /\ Live => (meta = Owner /\ transport = db /\ db \in open)
    /\ open \subseteq {db}

(* A session that was opened and is still stored has its alarm set, or the *)
(* handler of its alarm is at work.                                        *)
AlarmKept ==
  (meta # NoAccount /\ pc["init"] = "done") =>
    (alarm # NoAlarm \/ pc["alarm"] = "closing")

(* The alarm expires a stored session only when no request has gone to its *)
(* transport for as long as the session timeout.                           *)
ExpiresOnlyWhenIdle ==
  [][(AlarmExpires /\ meta # NoAccount) => \A r \in Request : age[r] >= Timeout]_vars

(* A session that was opened is cleared in the end, however often the      *)
(* object loses its memory: nothing stays in storage for good.             *)
EventuallyCleared ==
  (pc["init"] = "done") ~> (meta = NoAccount)

(* A session that was cleared stays so: nothing makes it live again, and   *)
(* its storage stays empty (mcp-flow.test.ts expects no session-meta, no   *)
(* activity and no alarm after a clear).                                   *)
ClearedForGood ==
  cleared => (~Live /\ meta = NoAccount /\ activity = Unset /\ alarm = NoAlarm)
================================================================================
