---------------------------- MODULE McpSessionProofs ----------------------------
(***************************************************************************)
(* Proofs about McpSession, for any number of requests, accounts and       *)
(* losses of memory, and any timeouts.                                     *)
(***************************************************************************)
EXTENDS McpSession, TLAPS

(* Where each kind of handler can be.                                      *)
PcOK ==
  /\ pc["alarm"] \in {"idle", "closing"}
  /\ pc["init"] \in {"idle", "saved", "building", "closing", "done", "failed"}
  /\ \A r \in Request : pc[r] \in {"idle", "building", "serving", "closing", "done"}

(* What memory says of the session is what storage says, or nothing.       *)
MemoryOK ==
  /\ meta \in {NoAccount, Owner}
  /\ memMeta \in {NoAccount, meta}
  /\ memActivity \in {Unset, activity}

Opening == pc["init"] \in {"idle", "saved", "building", "closing"}

(* While the session is being opened nothing else happens.                 *)
OpeningOK ==
  /\ Opening => /\ \A r \in Request : pc[r] = "idle" /\ age[r] = Timeout
                /\ pc["alarm"] = "idle" /\ alarm = NoAlarm
                /\ ~raced /\ transport = NoRuntime
  /\ pc["init"] \in {"idle", "saved"} => db = NoRuntime /\ open = {}
  /\ pc["init"] \in {"saved", "building"} => meta = Owner

(* A session is in storage from its opening until it is cleared.           *)
StoredOK == (pc["init"] \in {"saved", "building", "done"} /\ ~cleared) => meta = Owner

(* The requests that get past the check of the owner.                      *)
OwnerOK ==
  \A r \in Request :
    /\ pc[r] = "idle" => answer[r] = "none"
    /\ \/ pc[r] \in {"building", "serving"} \/ answer[r] = "ok"
       \/ pc[r] = "closing" /\ method[r] # "REVOKED"
       => bearer[r] = Owner \/ cleared

(* The latest activity on record is no older than any request.             *)
ActivityOK ==
  meta # NoAccount => \A r \in Request : age[r] = Timeout \/ activity <= age[r]

(* As long as no handlers overlap, at most one is building or closing, no  *)
(* transport is set meanwhile, and there is no client but dbHandle.        *)
RuntimeOK ==
  /\ \A p, q \in Handler : Busy(p) /\ Busy(q) => p = q
  /\ \A p \in Handler : Busy(p) => transport = NoRuntime
  /\ \A p \in Handler : pc[p] = "building" => runtime[p] = db /\ db \in open /\ meta = Owner
  /\ \A p \in Handler : pc[p] = "closing" => open = {}
  /\ \A r \in Request : pc[r] = "closing" /\ method[r] = "CALL" => meta = Owner
  /\ transport # NoRuntime =>
       initialized /\ transport = db /\ db \in open /\ meta = Owner
  /\ open \subseteq {db}

Inv == /\ TypeOK /\ PcOK /\ MemoryOK /\ OpeningOK /\ StoredOK /\ OwnerOK
       /\ ActivityOK /\ AlarmKept /\ GoneOnlyWhenCleared
       /\ ~raced => RuntimeOK

--------------------------------------------------------------------------------

Place  == {"idle", "saved", "building", "serving", "closing", "done", "failed"}
Result == {"none", "ok", "error", "gone", "deleted", "forbidden"}

(* The types of storage, memory, and the handlers' progress ...            *)
StateTypes ==
  /\ meta \in Account \cup {NoAccount} /\ memMeta \in Account \cup {NoAccount}
  /\ activity \in 0..Unset /\ memActivity \in 0..Unset /\ alarm \in 0..NoAlarm
  /\ runtimes \in Nat /\ transport \in 0..runtimes /\ db \in 0..runtimes
  /\ open \in SUBSET (1..runtimes)
  /\ pc \in [Handler -> Place]
  /\ runtime \in [Handler -> 0..runtimes]
  /\ answer \in [Request -> Result]

(* ... and of the rest.                                                    *)
RequestTypes ==
  /\ method \in [Request -> {"none", "CALL", "DELETE", "REVOKED"}]
  /\ bearer \in [Request -> Account \cup {NoAccount}]
  /\ age \in [Request -> 0..Timeout]
  /\ evictions \in 0..MaxEvictions

FlagTypes == initialized \in BOOLEAN /\ cleared \in BOOLEAN /\ raced \in BOOLEAN

LEMMA Types == TypeOK <=> StateTypes /\ RequestTypes /\ FlagTypes
BY DEF TypeOK, StateTypes, RequestTypes, FlagTypes, Place, Result

LEMMA TypesNext == TypeOK' <=> StateTypes' /\ RequestTypes' /\ FlagTypes'
BY DEF TypeOK, StateTypes, RequestTypes, FlagTypes, Place, Result

LEMMA InitInv == Init => Inv
<1> SUFFICES ASSUME Init PROVE Inv
  OBVIOUS
<1> USE SessionAssumption DEF Init, Handler, NoRuntime, Unset, NoAlarm
<1>1. StateTypes /\ RequestTypes
  BY DEF StateTypes, RequestTypes, Place, Result
<1>6. FlagTypes
  BY Zenon DEF FlagTypes
<1>2. PcOK /\ MemoryOK
  BY DEF PcOK, MemoryOK
<1>3. OpeningOK /\ StoredOK /\ OwnerOK
  BY DEF OpeningOK, Opening, StoredOK, OwnerOK
<1>4. ActivityOK /\ AlarmKept /\ GoneOnlyWhenCleared
  BY DEF ActivityOK, AlarmKept, GoneOnlyWhenCleared
<1>5. RuntimeOK
  BY DEF RuntimeOK, Busy
<1> QED BY <1>1, <1>2, <1>3, <1>4, <1>5, <1>6, Types DEF Inv

(* Whether handlers have overlapped is true or false.                      *)
LEMMA OverlapsType ==
  ASSUME NEW p, raced \in BOOLEAN, Overlaps(p)
  PROVE  raced' \in BOOLEAN
<1> DEFINE other == \E q \in Handler \ {p} : Busy(q)
<1>1. raced' = (raced \/ other)
  BY DEF Overlaps
<1> HIDE DEF other
<1> QED BY <1>1, Zenon

(* A handler that ends comes to rest where its kind may.                   *)
LEMMA FinishTypes ==
  ASSUME StateTypes, PcOK, NEW p \in Handler, NEW result \in Result, Finish(p, result)
  PROVE  /\ pc' \in [Handler -> Place] /\ answer' \in [Request -> Result]
         /\ PcOK'
BY SessionAssumption DEF StateTypes, PcOK, Finish, Handler, Place

LEMMA ClearTypes ==
  ASSUME ClearSessionState
  PROVE  /\ meta' \in Account \cup {NoAccount} /\ memMeta' \in Account \cup {NoAccount}
         /\ activity' \in 0..Unset /\ memActivity' \in 0..Unset /\ alarm' \in 0..NoAlarm
BY SessionAssumption DEF ClearSessionState, Unset, NoAlarm

LEMMA StartCloseTypes ==
  ASSUME StateTypes, PcOK, NEW p \in Handler, StartClose(p),
         memMeta' \in Account \cup {NoAccount}
  PROVE  StateTypes' /\ PcOK'
BY SessionAssumption DEF StateTypes, PcOK, StartClose, Handler, Place, NoRuntime

LEMMA OpenTypes ==
  ASSUME StateTypes, PcOK, NEW p \in Handler, p # "alarm", OpenRuntime(p)
  PROVE  /\ runtimes' \in Nat /\ db' \in 0..runtimes' /\ open' \in SUBSET (1..runtimes')
         /\ runtime' \in [Handler -> 0..runtimes']
         /\ \A n \in 0..runtimes : n \in 0..runtimes'
         /\ pc' \in [Handler -> Place] /\ PcOK'
BY SessionAssumption DEF StateTypes, PcOK, OpenRuntime, Handler, Place

LEMMA CleanupTypes ==
  ASSUME StateTypes, PcOK, NEW p \in Handler, NEW result \in Result, Cleanup(p, result)
  PROVE  StateTypes' /\ PcOK'
<1>1. CASE StartClose(p) /\ UNCHANGED memMeta
  BY <1>1, StartCloseTypes DEF StateTypes
<1>2. CASE /\ db = NoRuntime /\ transport' = NoRuntime
           /\ ClearSessionState /\ Finish(p, result)
           /\ UNCHANGED <<db, open, runtimes, runtime>>
  BY <1>2, FinishTypes, ClearTypes DEF StateTypes, NoRuntime
<1> QED BY <1>1, <1>2 DEF Cleanup

(* The flags stay flags: the steps set them, leave them, or count overlap. *)
LEMMA NextFlagTypes ==
  ASSUME FlagTypes, [Next]_vars
  PROVE  FlagTypes'
<1>1. initialized' \in BOOLEAN
  <2>1. initialized' \in {TRUE, FALSE, initialized}
    BY Zenon DEF Next, Step, vars, memoryVars, InitStores, InitFails, InitOpens, Cleanup, StartClose,
           ClearSessionState, Revoke, Reject, Serve, StaleDelete, Gone, Restore, Closed,
           Built, BuildFails, Respond, ServeFails, AlarmExpires, AlarmRearms, Tick, Evict
  <2> QED BY <2>1 DEF FlagTypes
<1>2. cleared' \in BOOLEAN
  <2>1. cleared' \in {TRUE, cleared}
    BY Zenon DEF Next, Step, vars, InitStores, InitFails, InitOpens, Cleanup, StartClose,
           ClearSessionState, Revoke, Reject, Serve, StaleDelete, Gone, Restore, Closed,
           Built, BuildFails, Respond, ServeFails, AlarmExpires, AlarmRearms, Tick, Evict
  <2> QED BY <2>1 DEF FlagTypes
<1>3. raced' \in BOOLEAN
  <2>1. raced' \in {FALSE, raced} \/ \E p \in Handler : Overlaps(p)
    BY Zenon DEF Next, Step, vars, InitStores, InitFails, InitOpens, Cleanup, Handler,
           Revoke, Reject, Serve, StaleDelete, Gone, Restore, Closed,
           Built, BuildFails, Respond, ServeFails, AlarmExpires, AlarmRearms, Tick, Evict
  <2>2. CASE raced' \in {FALSE, raced}
    BY <2>2 DEF FlagTypes
  <2>3. CASE \E p \in Handler : Overlaps(p)
    BY <2>3, OverlapsType DEF FlagTypes
  <2> QED BY <2>1, <2>2, <2>3
<1> QED BY <1>1, <1>2, <1>3 DEF FlagTypes

(* Every step keeps the types, and each handler where its kind may be.     *)
LEMMA NextTypeOK ==
  ASSUME TypeOK, PcOK, [Next]_vars
  PROVE  TypeOK' /\ PcOK'
<1> USE SessionAssumption
<1>0. StateTypes /\ RequestTypes
  BY Types
<1> SUFFICES StateTypes' /\ RequestTypes' /\ PcOK'
  BY Types, TypesNext, NextFlagTypes
<1> USE <1>0
<1>1. CASE UNCHANGED vars
  BY <1>1 DEF vars, storageVars, memoryVars, handleVars, requestVars, StateTypes,
              RequestTypes, PcOK
<1>2. CASE InitStores
  BY <1>2 DEF InitStores, handleVars, requestVars, StateTypes, RequestTypes, PcOK, Handler, Place
<1>3. CASE InitFails
  <2>1. "init" \in Handler /\ "ok" \in Result
    BY DEF Handler, Result
  <2> QED BY <1>3, <2>1, CleanupTypes
          DEF InitFails, Cleanup, RequestTypes, requestVars
<1>4. CASE InitOpens
  <2>1. "init" \in Handler
    BY DEF Handler
  <2> QED BY <1>4, <2>1, OpenTypes
          DEF InitOpens, StateTypes, RequestTypes, storageVars, requestVars
<1>5. ASSUME NEW r \in Request, NEW a \in Account, Revoke(r, a)
      PROVE  StateTypes' /\ RequestTypes' /\ PcOK'
  <2>1. r \in Handler /\ "forbidden" \in Result
    BY DEF Handler, Result
  <2> QED BY <1>5, <2>1, CleanupTypes DEF Revoke, Cleanup, Arrives, RequestTypes
<1>6. ASSUME NEW r \in Request, NEW a \in Account, NEW m \in Method, Reject(r, m, a)
      PROVE  StateTypes' /\ RequestTypes' /\ PcOK'
  <2>1. r \in Handler /\ "forbidden" \in Result
    BY DEF Handler, Result
  <2> QED BY <1>6, <2>1, FinishTypes
          DEF Reject, Arrives, Method, LoadedMeta, storageVars, handleVars, StateTypes,
              RequestTypes
<1>7. ASSUME NEW r \in Request, NEW a \in Account, NEW m \in Method, Serve(r, m, a)
      PROVE  StateTypes' /\ RequestTypes' /\ PcOK'
  BY <1>7 DEF Serve, Arrives, Method, LoadedMeta, Touch, handleVars, StateTypes, RequestTypes,
              PcOK, Handler, Place, Unset, NoAlarm
<1>8. ASSUME NEW r \in Request, NEW a \in Account, StaleDelete(r, a)
      PROVE  StateTypes' /\ RequestTypes' /\ PcOK'
  <2>1. r \in Handler /\ "deleted" \in Result
    BY DEF Handler, Result
  <2> QED BY <1>8, <2>1, FinishTypes, ClearTypes
          DEF StaleDelete, Arrives, handleVars, StateTypes, RequestTypes
<1>9. ASSUME NEW r \in Request, NEW a \in Account, Gone(r, a)
      PROVE  StateTypes' /\ RequestTypes' /\ PcOK'
  <2>1. r \in Handler /\ "gone" \in Result
    BY DEF Handler, Result
  <2> QED BY <1>9, <2>1, FinishTypes
          DEF Gone, Arrives, storageVars, memoryVars, handleVars, StateTypes, RequestTypes
<1>10. ASSUME NEW r \in Request, NEW a \in Account, Restore(r, a)
       PROVE  StateTypes' /\ RequestTypes' /\ PcOK'
  <2>1. r \in Handler /\ r # "alarm" /\ LoadedMeta \in Account \cup {NoAccount}
    BY DEF Handler, LoadedMeta, StateTypes
  <2>2. RequestTypes'
    BY <1>10 DEF Restore, Arrives, RequestTypes
  <2>3. CASE StartClose(r)
    BY <1>10, <2>1, <2>2, <2>3, StartCloseTypes DEF Restore
  <2>4. CASE /\ db = NoRuntime /\ transport' = NoRuntime /\ initialized' = FALSE
             /\ OpenRuntime(r)
             /\ UNCHANGED <<storageVars, memActivity, answer, cleared>>
    BY <1>10, <2>1, <2>2, <2>4, OpenTypes DEF Restore, storageVars, StateTypes, NoRuntime
  <2> QED BY <1>10, <2>3, <2>4 DEF Restore
<1>11. ASSUME NEW p \in Handler, Closed(p) PROVE StateTypes' /\ RequestTypes' /\ PcOK'
  <2>1. Verdict(p) \in Result
    BY DEF Verdict, Result
  <2>2. RequestTypes'
    BY <1>11 DEF Closed, RequestTypes, requestVars
  <2>3. CASE p \in Request /\ method[p] = "CALL"
    BY <1>11, <2>2, <2>3, OpenTypes DEF Closed, storageVars, StateTypes
  <2>4. CASE ~(p \in Request /\ method[p] = "CALL")
    <3>1. /\ ClearSessionState /\ Finish(p, Verdict(p)) /\ db' = NoRuntime
          /\ UNCHANGED <<open, runtimes, runtime, transport>>
      BY <1>11, <2>4 DEF Closed
    <3> QED BY <3>1, <2>1, <2>2, FinishTypes, ClearTypes DEF StateTypes, NoRuntime
  <2> QED BY <2>3, <2>4
<1>12. ASSUME NEW p \in Handler, Built(p) PROVE StateTypes' /\ RequestTypes' /\ PcOK'
  BY <1>12 DEF Built, Touch, handleVars, requestVars, StateTypes, RequestTypes, PcOK, Handler,
               Place, Unset, NoAlarm
<1>13. ASSUME NEW p \in Handler, BuildFails(p) PROVE StateTypes' /\ RequestTypes' /\ PcOK'
  <2>1. "ok" \in Result /\ "error" \in Result
    BY DEF Result
  <2> QED BY <1>13, <2>1, CleanupTypes, FinishTypes
          DEF BuildFails, Cleanup, storageVars, memoryVars, handleVars, requestVars,
              StateTypes, RequestTypes
<1>14. ASSUME NEW r \in Request, Respond(r) PROVE StateTypes' /\ RequestTypes' /\ PcOK'
  <2>1. r \in Handler /\ "ok" \in Result
    BY DEF Handler, Result
  <2> QED BY <1>14, <2>1, CleanupTypes, FinishTypes
          DEF Respond, Cleanup, storageVars, memoryVars, handleVars, requestVars, StateTypes,
              RequestTypes
<1>15. ASSUME NEW r \in Request, ServeFails(r) PROVE StateTypes' /\ RequestTypes' /\ PcOK'
  <2>1. r \in Handler /\ "error" \in Result
    BY DEF Handler, Result
  <2> QED BY <1>15, <2>1, FinishTypes
          DEF ServeFails, storageVars, memoryVars, handleVars, requestVars, StateTypes,
              RequestTypes
<1>16. CASE AlarmExpires
  <2>1. "alarm" \in Handler /\ "ok" \in Result
    BY DEF Handler, Result
  <2>2. RequestTypes'
    BY <1>16 DEF AlarmExpires, RequestTypes, requestVars
  <2>3. CASE db # NoRuntime
    <3>1. /\ alarm' = NoAlarm /\ memActivity' = LoadedActivity /\ transport' = NoRuntime
          /\ open' = open \ {db} /\ pc' = [pc EXCEPT !["alarm"] = "closing"]
          /\ UNCHANGED <<meta, activity, memMeta, db, answer, runtimes, runtime>>
      BY <1>16, <2>3 DEF AlarmExpires
    <3> QED BY <3>1, <2>1, <2>2
            DEF LoadedActivity, StateTypes, PcOK, Handler, Place, NoRuntime, NoAlarm
  <2>4. CASE db = NoRuntime
    BY <1>16, <2>1, <2>2, <2>4, FinishTypes, ClearTypes DEF AlarmExpires, StateTypes, NoRuntime
  <2> QED BY <2>3, <2>4
<1>17. CASE AlarmRearms
  BY <1>17 DEF AlarmRearms, LoadedActivity, handleVars, requestVars, StateTypes, RequestTypes,
               PcOK, NoAlarm
<1>18. CASE Tick
  BY <1>18 DEF Tick, Older, handleVars, requestVars, StateTypes, RequestTypes, PcOK, Unset,
               NoAlarm
<1>19. CASE Evict
  <2>1. StateTypes' /\ PcOK'
    BY <1>19 DEF Evict, StateTypes, PcOK, Handler, Place, Result, NoRuntime, Unset, NoAlarm
  <2>2. RequestTypes'
    BY <1>19 DEF Evict, RequestTypes, requestVars
  <2> QED BY <2>1, <2>2
<1> QED BY <1>1, <1>2, <1>3, <1>4, <1>5, <1>6, <1>7, <1>8, <1>9, <1>10, <1>11, <1>12,
           <1>13, <1>14, <1>15, <1>16, <1>17, <1>18, <1>19 DEF Next, Step
(* Memory keeps saying what storage says. *)
LEMMA NextMemoryOK ==
  ASSUME TypeOK, MemoryOK, [Next]_vars
  PROVE  MemoryOK'
<1> USE SessionAssumption DEF MemoryOK, TypeOK, Unset
<1>1. CASE UNCHANGED vars
  BY <1>1 DEF vars, storageVars, memoryVars, handleVars, requestVars
<1>2. CASE InitStores
  BY <1>2 DEF InitStores, handleVars, requestVars
<1>3. CASE InitFails
  BY <1>3 DEF InitFails, Cleanup, StartClose, ClearSessionState, Finish, requestVars
<1>4. CASE InitOpens
  BY <1>4 DEF InitOpens, OpenRuntime, storageVars, requestVars
<1>5. ASSUME NEW r \in Request, NEW a \in Account, Revoke(r, a)
      PROVE  MemoryOK'
  BY <1>5 DEF Revoke, Arrives, Cleanup, StartClose, ClearSessionState, Finish
<1>6. ASSUME NEW r \in Request, NEW a \in Account, NEW m \in Method, Reject(r, m, a)
      PROVE  MemoryOK'
  BY <1>6 DEF Reject, Arrives, LoadedMeta, Finish, storageVars, handleVars
<1>7. ASSUME NEW r \in Request, NEW a \in Account, NEW m \in Method, Serve(r, m, a)
      PROVE  MemoryOK'
  BY <1>7 DEF Serve, Arrives, Authorized, LoadedMeta, Live, Touch, handleVars
<1>8. ASSUME NEW r \in Request, NEW a \in Account, StaleDelete(r, a)
      PROVE  MemoryOK'
  BY <1>8 DEF StaleDelete, Arrives, ClearSessionState, Finish, handleVars
<1>9. ASSUME NEW r \in Request, NEW a \in Account, Gone(r, a)
      PROVE  MemoryOK'
  BY <1>9 DEF Gone, Arrives, LoadedMeta, Finish, storageVars, memoryVars, handleVars
<1>10. ASSUME NEW r \in Request, NEW a \in Account, Restore(r, a)
      PROVE  MemoryOK'
  BY <1>10 DEF Restore, Arrives, Authorized, LoadedMeta, StartClose, OpenRuntime,
              storageVars
<1>11. ASSUME NEW p \in Handler, Closed(p)
      PROVE  MemoryOK'
  BY <1>11 DEF Closed, OpenRuntime, ClearSessionState, Finish, Verdict, storageVars,
              requestVars
<1>12. ASSUME NEW p \in Handler, Built(p)
      PROVE  MemoryOK'
  BY <1>12 DEF Built, Touch, handleVars, requestVars
<1>13. ASSUME NEW p \in Handler, BuildFails(p)
      PROVE  MemoryOK'
  BY <1>13 DEF BuildFails, Cleanup, StartClose, ClearSessionState, Finish, storageVars,
              memoryVars, handleVars, requestVars
<1>14. ASSUME NEW r \in Request, Respond(r)
      PROVE  MemoryOK'
  BY <1>14 DEF Respond, Cleanup, StartClose, ClearSessionState, Finish, storageVars,
              memoryVars, handleVars, requestVars
<1>15. ASSUME NEW r \in Request, ServeFails(r)
      PROVE  MemoryOK'
  BY <1>15 DEF ServeFails, Finish, storageVars, memoryVars, handleVars, requestVars
<1>16. CASE AlarmExpires
  BY <1>16 DEF AlarmExpires, LoadedActivity, ClearSessionState, Finish, requestVars
<1>17. CASE AlarmRearms
  BY <1>17 DEF AlarmRearms, LoadedActivity, handleVars, requestVars
<1>18. CASE Tick
  BY <1>18 DEF Tick, Older, handleVars, requestVars
<1>19. CASE Evict
  BY <1>19 DEF Evict, requestVars
<1> QED BY <1>1, <1>2, <1>3, <1>4, <1>5, <1>6, <1>7, <1>8, <1>9, <1>10, <1>11, <1>12, <1>13, <1>14, <1>15, <1>16, <1>17, <1>18, <1>19 DEF Next, Step

(* A session stays stored until it is cleared. *)
LEMMA NextStoredOK ==
  ASSUME TypeOK, PcOK, MemoryOK, OpeningOK, StoredOK, [Next]_vars
  PROVE  StoredOK'
<1> USE SessionAssumption DEF StoredOK, OpeningOK, PcOK, MemoryOK, TypeOK, Handler
<1>1. CASE UNCHANGED vars
  BY <1>1 DEF vars, storageVars, memoryVars, handleVars, requestVars
<1>2. CASE InitStores
  BY <1>2 DEF InitStores, handleVars, requestVars
<1>3. CASE InitFails
  BY <1>3 DEF InitFails, Cleanup, StartClose, ClearSessionState, Finish, requestVars
<1>4. CASE InitOpens
  BY <1>4 DEF InitOpens, OpenRuntime, storageVars, requestVars
<1>5. ASSUME NEW r \in Request, NEW a \in Account, Revoke(r, a)
      PROVE  StoredOK'
  BY <1>5 DEF Revoke, Arrives, Cleanup, StartClose, ClearSessionState, Finish
<1>6. ASSUME NEW r \in Request, NEW a \in Account, NEW m \in Method, Reject(r, m, a)
      PROVE  StoredOK'
  BY <1>6 DEF Reject, Arrives, LoadedMeta, Finish, storageVars, handleVars
<1>7. ASSUME NEW r \in Request, NEW a \in Account, NEW m \in Method, Serve(r, m, a)
      PROVE  StoredOK'
  BY <1>7 DEF Serve, Arrives, Authorized, LoadedMeta, Live, Touch, handleVars
<1>8. ASSUME NEW r \in Request, NEW a \in Account, StaleDelete(r, a)
      PROVE  StoredOK'
  BY <1>8 DEF StaleDelete, Arrives, ClearSessionState, Finish, handleVars
<1>9. ASSUME NEW r \in Request, NEW a \in Account, Gone(r, a)
      PROVE  StoredOK'
  BY <1>9 DEF Gone, Arrives, LoadedMeta, Finish, storageVars, memoryVars, handleVars
<1>10. ASSUME NEW r \in Request, NEW a \in Account, Restore(r, a)
      PROVE  StoredOK'
  BY <1>10 DEF Restore, Arrives, Authorized, LoadedMeta, StartClose, OpenRuntime,
              storageVars
<1>11. ASSUME NEW p \in Handler, Closed(p)
      PROVE  StoredOK'
  BY <1>11 DEF Closed, OpenRuntime, ClearSessionState, Finish, Verdict, storageVars,
              requestVars
<1>12. ASSUME NEW p \in Handler, Built(p)
      PROVE  StoredOK'
  BY <1>12 DEF Built, Touch, handleVars, requestVars
<1>13. ASSUME NEW p \in Handler, BuildFails(p)
      PROVE  StoredOK'
  BY <1>13 DEF BuildFails, Cleanup, StartClose, ClearSessionState, Finish, storageVars,
              memoryVars, handleVars, requestVars
<1>14. ASSUME NEW r \in Request, Respond(r)
      PROVE  StoredOK'
  BY <1>14 DEF Respond, Cleanup, StartClose, ClearSessionState, Finish, storageVars,
              memoryVars, handleVars, requestVars
<1>15. ASSUME NEW r \in Request, ServeFails(r)
      PROVE  StoredOK'
  BY <1>15 DEF ServeFails, Finish, storageVars, memoryVars, handleVars, requestVars
<1>16. CASE AlarmExpires
  BY <1>16 DEF AlarmExpires, LoadedActivity, ClearSessionState, Finish, requestVars
<1>17. CASE AlarmRearms
  BY <1>17 DEF AlarmRearms, LoadedActivity, handleVars, requestVars
<1>18. CASE Tick
  BY <1>18 DEF Tick, Older, handleVars, requestVars
<1>19. CASE Evict
  BY <1>19 DEF Evict, requestVars
<1> QED BY <1>1, <1>2, <1>3, <1>4, <1>5, <1>6, <1>7, <1>8, <1>9, <1>10, <1>11, <1>12, <1>13, <1>14, <1>15, <1>16, <1>17, <1>18, <1>19 DEF Next, Step

(* The owner is checked on the way in. *)
LEMMA NextOwnerOK ==
  ASSUME TypeOK, PcOK, MemoryOK, StoredOK, OwnerOK, [Next]_vars
  PROVE  OwnerOK'
<1> USE SessionAssumption DEF OwnerOK, StoredOK, PcOK, MemoryOK, TypeOK, Handler
<1>1. CASE UNCHANGED vars
  BY <1>1 DEF vars, storageVars, memoryVars, handleVars, requestVars
<1>2. CASE InitStores
  BY <1>2 DEF InitStores, handleVars, requestVars
<1>3. CASE InitFails
  BY <1>3 DEF InitFails, Cleanup, StartClose, ClearSessionState, Finish, requestVars
<1>4. CASE InitOpens
  BY <1>4 DEF InitOpens, OpenRuntime, storageVars, requestVars
<1>5. ASSUME NEW r \in Request, NEW a \in Account, Revoke(r, a)
      PROVE  OwnerOK'
  BY <1>5 DEF Revoke, Arrives, Cleanup, StartClose, ClearSessionState, Finish
<1>6. ASSUME NEW r \in Request, NEW a \in Account, NEW m \in Method, Reject(r, m, a)
      PROVE  OwnerOK'
  BY <1>6 DEF Reject, Arrives, LoadedMeta, Finish, storageVars, handleVars
<1>7. ASSUME NEW r \in Request, NEW a \in Account, NEW m \in Method, Serve(r, m, a)
      PROVE  OwnerOK'
  BY <1>7 DEF Serve, Arrives, Authorized, LoadedMeta, Live, Touch, handleVars
<1>8. ASSUME NEW r \in Request, NEW a \in Account, StaleDelete(r, a)
      PROVE  OwnerOK'
  BY <1>8 DEF StaleDelete, Arrives, ClearSessionState, Finish, handleVars
<1>9. ASSUME NEW r \in Request, NEW a \in Account, Gone(r, a)
      PROVE  OwnerOK'
  BY <1>9 DEF Gone, Arrives, LoadedMeta, Finish, storageVars, memoryVars, handleVars
<1>10. ASSUME NEW r \in Request, NEW a \in Account, Restore(r, a)
      PROVE  OwnerOK'
  BY <1>10 DEF Restore, Arrives, Authorized, LoadedMeta, StartClose, OpenRuntime,
              storageVars
<1>11. ASSUME NEW p \in Handler, Closed(p)
      PROVE  OwnerOK'
  BY <1>11 DEF Closed, OpenRuntime, ClearSessionState, Finish, Verdict, storageVars,
              requestVars
<1>12. ASSUME NEW p \in Handler, Built(p)
      PROVE  OwnerOK'
  BY <1>12 DEF Built, Touch, handleVars, requestVars
<1>13. ASSUME NEW p \in Handler, BuildFails(p)
      PROVE  OwnerOK'
  BY <1>13 DEF BuildFails, Cleanup, StartClose, ClearSessionState, Finish, storageVars,
              memoryVars, handleVars, requestVars
<1>14. ASSUME NEW r \in Request, Respond(r)
      PROVE  OwnerOK'
  BY <1>14 DEF Respond, Cleanup, StartClose, ClearSessionState, Finish, storageVars,
              memoryVars, handleVars, requestVars
<1>15. ASSUME NEW r \in Request, ServeFails(r)
      PROVE  OwnerOK'
  BY <1>15 DEF ServeFails, Finish, storageVars, memoryVars, handleVars, requestVars
<1>16. CASE AlarmExpires
  BY <1>16 DEF AlarmExpires, LoadedActivity, ClearSessionState, Finish, requestVars
<1>17. CASE AlarmRearms
  BY <1>17 DEF AlarmRearms, LoadedActivity, handleVars, requestVars
<1>18. CASE Tick
  BY <1>18 DEF Tick, Older, handleVars, requestVars
<1>19. CASE Evict
  BY <1>19 DEF Evict, requestVars
<1> QED BY <1>1, <1>2, <1>3, <1>4, <1>5, <1>6, <1>7, <1>8, <1>9, <1>10, <1>11, <1>12, <1>13, <1>14, <1>15, <1>16, <1>17, <1>18, <1>19 DEF Next, Step

(* The record of the activity keeps up with the requests. *)
LEMMA NextActivityOK ==
  ASSUME TypeOK, PcOK, MemoryOK, OpeningOK, ActivityOK, [Next]_vars
  PROVE  ActivityOK'
<1> USE SessionAssumption DEF ActivityOK, OpeningOK, Opening, PcOK, MemoryOK, TypeOK, Handler, Unset
<1>1. CASE UNCHANGED vars
  BY <1>1 DEF vars, storageVars, memoryVars, handleVars, requestVars
<1>2. CASE InitStores
  BY <1>2 DEF InitStores, handleVars, requestVars
<1>3. CASE InitFails
  BY <1>3 DEF InitFails, Cleanup, StartClose, ClearSessionState, Finish, requestVars
<1>4. CASE InitOpens
  BY <1>4 DEF InitOpens, OpenRuntime, storageVars, requestVars
<1>5. ASSUME NEW r \in Request, NEW a \in Account, Revoke(r, a)
      PROVE  ActivityOK'
  BY <1>5 DEF Revoke, Arrives, Cleanup, StartClose, ClearSessionState, Finish
<1>6. ASSUME NEW r \in Request, NEW a \in Account, NEW m \in Method, Reject(r, m, a)
      PROVE  ActivityOK'
  BY <1>6 DEF Reject, Arrives, LoadedMeta, Finish, storageVars, handleVars
<1>7. ASSUME NEW r \in Request, NEW a \in Account, NEW m \in Method, Serve(r, m, a)
      PROVE  ActivityOK'
  BY <1>7 DEF Serve, Arrives, Authorized, LoadedMeta, Live, Touch, handleVars
<1>8. ASSUME NEW r \in Request, NEW a \in Account, StaleDelete(r, a)
      PROVE  ActivityOK'
  BY <1>8 DEF StaleDelete, Arrives, ClearSessionState, Finish, handleVars
<1>9. ASSUME NEW r \in Request, NEW a \in Account, Gone(r, a)
      PROVE  ActivityOK'
  BY <1>9 DEF Gone, Arrives, LoadedMeta, Finish, storageVars, memoryVars, handleVars
<1>10. ASSUME NEW r \in Request, NEW a \in Account, Restore(r, a)
      PROVE  ActivityOK'
  BY <1>10 DEF Restore, Arrives, Authorized, LoadedMeta, StartClose, OpenRuntime,
              storageVars
<1>11. ASSUME NEW p \in Handler, Closed(p)
      PROVE  ActivityOK'
  BY <1>11 DEF Closed, OpenRuntime, ClearSessionState, Finish, Verdict, storageVars,
              requestVars
<1>12. ASSUME NEW p \in Handler, Built(p)
      PROVE  ActivityOK'
  BY <1>12 DEF Built, Touch, handleVars, requestVars
<1>13. ASSUME NEW p \in Handler, BuildFails(p)
      PROVE  ActivityOK'
  BY <1>13 DEF BuildFails, Cleanup, StartClose, ClearSessionState, Finish, storageVars,
              memoryVars, handleVars, requestVars
<1>14. ASSUME NEW r \in Request, Respond(r)
      PROVE  ActivityOK'
  BY <1>14 DEF Respond, Cleanup, StartClose, ClearSessionState, Finish, storageVars,
              memoryVars, handleVars, requestVars
<1>15. ASSUME NEW r \in Request, ServeFails(r)
      PROVE  ActivityOK'
  BY <1>15 DEF ServeFails, Finish, storageVars, memoryVars, handleVars, requestVars
<1>16. CASE AlarmExpires
  BY <1>16 DEF AlarmExpires, LoadedActivity, ClearSessionState, Finish, requestVars
<1>17. CASE AlarmRearms
  BY <1>17 DEF AlarmRearms, LoadedActivity, handleVars, requestVars
<1>18. CASE Tick
  BY <1>18 DEF Tick, Older, handleVars, requestVars
<1>19. CASE Evict
  BY <1>19 DEF Evict, requestVars
<1> QED BY <1>1, <1>2, <1>3, <1>4, <1>5, <1>6, <1>7, <1>8, <1>9, <1>10, <1>11, <1>12, <1>13, <1>14, <1>15, <1>16, <1>17, <1>18, <1>19 DEF Next, Step

(* The alarm of a stored session stays set. *)
LEMMA NextAlarmKept ==
  ASSUME TypeOK, PcOK, MemoryOK, OpeningOK, AlarmKept, [Next]_vars
  PROVE  AlarmKept'
<1> USE SessionAssumption DEF AlarmKept, OpeningOK, PcOK, MemoryOK, TypeOK, Handler, NoAlarm
<1>1. CASE UNCHANGED vars
  BY <1>1 DEF vars, storageVars, memoryVars, handleVars, requestVars
<1>2. CASE InitStores
  BY <1>2 DEF InitStores, handleVars, requestVars
<1>3. CASE InitFails
  BY <1>3 DEF InitFails, Cleanup, StartClose, ClearSessionState, Finish, requestVars
<1>4. CASE InitOpens
  BY <1>4 DEF InitOpens, OpenRuntime, storageVars, requestVars
<1>5. ASSUME NEW r \in Request, NEW a \in Account, Revoke(r, a)
      PROVE  AlarmKept'
  BY <1>5 DEF Revoke, Arrives, Cleanup, StartClose, ClearSessionState, Finish
<1>6. ASSUME NEW r \in Request, NEW a \in Account, NEW m \in Method, Reject(r, m, a)
      PROVE  AlarmKept'
  BY <1>6 DEF Reject, Arrives, LoadedMeta, Finish, storageVars, handleVars
<1>7. ASSUME NEW r \in Request, NEW a \in Account, NEW m \in Method, Serve(r, m, a)
      PROVE  AlarmKept'
  BY <1>7 DEF Serve, Arrives, Authorized, LoadedMeta, Live, Touch, handleVars
<1>8. ASSUME NEW r \in Request, NEW a \in Account, StaleDelete(r, a)
      PROVE  AlarmKept'
  BY <1>8 DEF StaleDelete, Arrives, ClearSessionState, Finish, handleVars
<1>9. ASSUME NEW r \in Request, NEW a \in Account, Gone(r, a)
      PROVE  AlarmKept'
  BY <1>9 DEF Gone, Arrives, LoadedMeta, Finish, storageVars, memoryVars, handleVars
<1>10. ASSUME NEW r \in Request, NEW a \in Account, Restore(r, a)
      PROVE  AlarmKept'
  BY <1>10 DEF Restore, Arrives, Authorized, LoadedMeta, StartClose, OpenRuntime,
              storageVars
<1>11. ASSUME NEW p \in Handler, Closed(p)
      PROVE  AlarmKept'
  BY <1>11 DEF Closed, OpenRuntime, ClearSessionState, Finish, Verdict, storageVars,
              requestVars
<1>12. ASSUME NEW p \in Handler, Built(p)
      PROVE  AlarmKept'
  BY <1>12 DEF Built, Touch, handleVars, requestVars
<1>13. ASSUME NEW p \in Handler, BuildFails(p)
      PROVE  AlarmKept'
  BY <1>13 DEF BuildFails, Cleanup, StartClose, ClearSessionState, Finish, storageVars,
              memoryVars, handleVars, requestVars
<1>14. ASSUME NEW r \in Request, Respond(r)
      PROVE  AlarmKept'
  BY <1>14 DEF Respond, Cleanup, StartClose, ClearSessionState, Finish, storageVars,
              memoryVars, handleVars, requestVars
<1>15. ASSUME NEW r \in Request, ServeFails(r)
      PROVE  AlarmKept'
  BY <1>15 DEF ServeFails, Finish, storageVars, memoryVars, handleVars, requestVars
<1>16. CASE AlarmExpires
  BY <1>16 DEF AlarmExpires, LoadedActivity, ClearSessionState, Finish, requestVars
<1>17. CASE AlarmRearms
  BY <1>17 DEF AlarmRearms, LoadedActivity, handleVars, requestVars
<1>18. CASE Tick
  BY <1>18 DEF Tick, Older, handleVars, requestVars
<1>19. CASE Evict
  BY <1>19 DEF Evict, requestVars
<1> QED BY <1>1, <1>2, <1>3, <1>4, <1>5, <1>6, <1>7, <1>8, <1>9, <1>10, <1>11, <1>12, <1>13, <1>14, <1>15, <1>16, <1>17, <1>18, <1>19 DEF Next, Step

(* A session is gone only once cleared. *)
LEMMA NextGone ==
  ASSUME TypeOK, PcOK, MemoryOK, StoredOK, GoneOnlyWhenCleared, [Next]_vars
  PROVE  GoneOnlyWhenCleared'
<1> USE SessionAssumption DEF GoneOnlyWhenCleared, StoredOK, PcOK, MemoryOK, TypeOK, Handler
<1>1. CASE UNCHANGED vars
  BY <1>1 DEF vars, storageVars, memoryVars, handleVars, requestVars
<1>2. CASE InitStores
  BY <1>2 DEF InitStores, handleVars, requestVars
<1>3. CASE InitFails
  BY <1>3 DEF InitFails, Cleanup, StartClose, ClearSessionState, Finish, requestVars
<1>4. CASE InitOpens
  BY <1>4 DEF InitOpens, OpenRuntime, storageVars, requestVars
<1>5. ASSUME NEW r \in Request, NEW a \in Account, Revoke(r, a)
      PROVE  GoneOnlyWhenCleared'
  BY <1>5 DEF Revoke, Arrives, Cleanup, StartClose, ClearSessionState, Finish
<1>6. ASSUME NEW r \in Request, NEW a \in Account, NEW m \in Method, Reject(r, m, a)
      PROVE  GoneOnlyWhenCleared'
  BY <1>6 DEF Reject, Arrives, LoadedMeta, Finish, storageVars, handleVars
<1>7. ASSUME NEW r \in Request, NEW a \in Account, NEW m \in Method, Serve(r, m, a)
      PROVE  GoneOnlyWhenCleared'
  BY <1>7 DEF Serve, Arrives, Authorized, LoadedMeta, Live, Touch, handleVars
<1>8. ASSUME NEW r \in Request, NEW a \in Account, StaleDelete(r, a)
      PROVE  GoneOnlyWhenCleared'
  BY <1>8 DEF StaleDelete, Arrives, ClearSessionState, Finish, handleVars
<1>9. ASSUME NEW r \in Request, NEW a \in Account, Gone(r, a)
      PROVE  GoneOnlyWhenCleared'
  BY <1>9 DEF Gone, Arrives, LoadedMeta, Finish, storageVars, memoryVars, handleVars
<1>10. ASSUME NEW r \in Request, NEW a \in Account, Restore(r, a)
      PROVE  GoneOnlyWhenCleared'
  BY <1>10 DEF Restore, Arrives, Authorized, LoadedMeta, StartClose, OpenRuntime,
              storageVars
<1>11. ASSUME NEW p \in Handler, Closed(p)
      PROVE  GoneOnlyWhenCleared'
  BY <1>11 DEF Closed, OpenRuntime, ClearSessionState, Finish, Verdict, storageVars,
              requestVars
<1>12. ASSUME NEW p \in Handler, Built(p)
      PROVE  GoneOnlyWhenCleared'
  BY <1>12 DEF Built, Touch, handleVars, requestVars
<1>13. ASSUME NEW p \in Handler, BuildFails(p)
      PROVE  GoneOnlyWhenCleared'
  BY <1>13 DEF BuildFails, Cleanup, StartClose, ClearSessionState, Finish, storageVars,
              memoryVars, handleVars, requestVars
<1>14. ASSUME NEW r \in Request, Respond(r)
      PROVE  GoneOnlyWhenCleared'
  BY <1>14 DEF Respond, Cleanup, StartClose, ClearSessionState, Finish, storageVars,
              memoryVars, handleVars, requestVars
<1>15. ASSUME NEW r \in Request, ServeFails(r)
      PROVE  GoneOnlyWhenCleared'
  BY <1>15 DEF ServeFails, Finish, storageVars, memoryVars, handleVars, requestVars
<1>16. CASE AlarmExpires
  BY <1>16 DEF AlarmExpires, LoadedActivity, ClearSessionState, Finish, requestVars
<1>17. CASE AlarmRearms
  BY <1>17 DEF AlarmRearms, LoadedActivity, handleVars, requestVars
<1>18. CASE Tick
  BY <1>18 DEF Tick, Older, handleVars, requestVars
<1>19. CASE Evict
  BY <1>19 DEF Evict, requestVars
<1> QED BY <1>1, <1>2, <1>3, <1>4, <1>5, <1>6, <1>7, <1>8, <1>9, <1>10, <1>11, <1>12, <1>13, <1>14, <1>15, <1>16, <1>17, <1>18, <1>19 DEF Next, Step

(* Nothing else happens during the opening. *)
LEMMA NextOpeningOK ==
  ASSUME TypeOK, PcOK, MemoryOK, OpeningOK, [Next]_vars
  PROVE  OpeningOK'
<1> USE SessionAssumption DEF OpeningOK, Opening, PcOK, MemoryOK, TypeOK, Handler, Busy, Overlaps, NoRuntime, NoAlarm
<1>1. CASE UNCHANGED vars
  BY <1>1 DEF vars, storageVars, memoryVars, handleVars, requestVars
<1>2. CASE InitStores
  BY <1>2 DEF InitStores, handleVars, requestVars
<1>3. CASE InitFails
  BY <1>3 DEF InitFails, Cleanup, StartClose, ClearSessionState, Finish, requestVars
<1>4. CASE InitOpens
  BY <1>4 DEF InitOpens, OpenRuntime, storageVars, requestVars
<1>5. ASSUME NEW r \in Request, NEW a \in Account, Revoke(r, a)
      PROVE  OpeningOK'
  BY <1>5 DEF Revoke, Arrives, Cleanup, StartClose, ClearSessionState, Finish
<1>6. ASSUME NEW r \in Request, NEW a \in Account, NEW m \in Method, Reject(r, m, a)
      PROVE  OpeningOK'
  BY <1>6 DEF Reject, Arrives, LoadedMeta, Finish, storageVars, handleVars
<1>7. ASSUME NEW r \in Request, NEW a \in Account, NEW m \in Method, Serve(r, m, a)
      PROVE  OpeningOK'
  BY <1>7 DEF Serve, Arrives, Authorized, LoadedMeta, Live, Touch, handleVars
<1>8. ASSUME NEW r \in Request, NEW a \in Account, StaleDelete(r, a)
      PROVE  OpeningOK'
  BY <1>8 DEF StaleDelete, Arrives, ClearSessionState, Finish, handleVars
<1>9. ASSUME NEW r \in Request, NEW a \in Account, Gone(r, a)
      PROVE  OpeningOK'
  BY <1>9 DEF Gone, Arrives, LoadedMeta, Finish, storageVars, memoryVars, handleVars
<1>10. ASSUME NEW r \in Request, NEW a \in Account, Restore(r, a)
      PROVE  OpeningOK'
  BY <1>10 DEF Restore, Arrives, Authorized, LoadedMeta, StartClose, OpenRuntime,
              storageVars
<1>11. ASSUME NEW p \in Handler, Closed(p)
      PROVE  OpeningOK'
  BY <1>11 DEF Closed, OpenRuntime, ClearSessionState, Finish, Verdict, storageVars,
              requestVars
<1>12. ASSUME NEW p \in Handler, Built(p)
      PROVE  OpeningOK'
  BY <1>12 DEF Built, Touch, handleVars, requestVars
<1>13. ASSUME NEW p \in Handler, BuildFails(p)
      PROVE  OpeningOK'
  BY <1>13 DEF BuildFails, Cleanup, StartClose, ClearSessionState, Finish, storageVars,
              memoryVars, handleVars, requestVars
<1>14. ASSUME NEW r \in Request, Respond(r)
      PROVE  OpeningOK'
  BY <1>14 DEF Respond, Cleanup, StartClose, ClearSessionState, Finish, storageVars,
              memoryVars, handleVars, requestVars
<1>15. ASSUME NEW r \in Request, ServeFails(r)
      PROVE  OpeningOK'
  BY <1>15 DEF ServeFails, Finish, storageVars, memoryVars, handleVars, requestVars
<1>16. CASE AlarmExpires
  BY <1>16 DEF AlarmExpires, LoadedActivity, ClearSessionState, Finish, requestVars
<1>17. CASE AlarmRearms
  BY <1>17 DEF AlarmRearms, LoadedActivity, handleVars, requestVars
<1>18. CASE Tick
  BY <1>18 DEF Tick, Older, handleVars, requestVars
<1>19. CASE Evict
  BY <1>19 DEF Evict, requestVars
<1> QED BY <1>1, <1>2, <1>3, <1>4, <1>5, <1>6, <1>7, <1>8, <1>9, <1>10, <1>11, <1>12, <1>13, <1>14, <1>15, <1>16, <1>17, <1>18, <1>19 DEF Next, Step

(* A step that overlaps with nothing finds every other handler at rest.    *)
LEMMA NoOverlap ==
  ASSUME NEW p, Overlaps(p), ~raced'
  PROVE  ~raced /\ \A q \in Handler \ {p} : ~Busy(q)
BY Zenon DEF Overlaps

(* Three places a step may leave the runtimes in: p closes the only one,   *)
LEMMA ClosingOK ==
  ASSUME TypeOK, RuntimeOK, NEW p \in Handler, \A q \in Handler \ {p} : ~Busy(q),
         StartClose(p), p \in Request /\ method'[p] = "CALL" => meta = Owner
  PROVE  RuntimeOK'
BY SessionAssumption DEF RuntimeOK, TypeOK, StartClose, Handler, Busy, NoRuntime

(* p builds the only one,                                                  *)
LEMMA BuildingOK ==
  ASSUME TypeOK, NEW p \in Handler, \A q \in Handler \ {p} : ~Busy(q),
         OpenRuntime(p), open = {}, transport' = NoRuntime, meta' = Owner
  PROVE  RuntimeOK'
BY SessionAssumption DEF RuntimeOK, TypeOK, OpenRuntime, Handler, Busy, NoRuntime

(* or nothing is built or closed, and no transport is set.                 *)
LEMMA RestingOK ==
  ASSUME \A q \in Handler : ~Busy(q)', transport' = NoRuntime, open' \subseteq {db'}
  PROVE  RuntimeOK'
BY SessionAssumption DEF RuntimeOK, Handler, Busy

(* A handler that ends is not busy, and neither are those at rest.         *)
LEMMA FinishedOK ==
  ASSUME TypeOK, NEW p \in Handler, \A q \in Handler \ {p} : ~Busy(q), NEW result,
         Finish(p, result)
  PROVE  \A q \in Handler : ~Busy(q)'
BY SessionAssumption DEF TypeOK, Finish, Handler, Busy

(* Without a database client there is nothing open.                        *)
LEMMA NothingOpen ==
  ASSUME TypeOK, RuntimeOK, db = NoRuntime
  PROVE  open = {}
BY DEF TypeOK, RuntimeOK, NoRuntime

LEMMA CleanupRuntimeOK ==
  ASSUME TypeOK, ~raced => RuntimeOK, ~raced', NEW p \in Handler, NEW result,
         Cleanup(p, result), p \in Request => method'[p] # "CALL"
  PROVE  RuntimeOK'
<1>1. RuntimeOK /\ \A q \in Handler \ {p} : ~Busy(q)
  BY NoOverlap DEF Cleanup
<1>2. CASE StartClose(p)
  BY <1>1, <1>2, ClosingOK
<1>3. CASE ~StartClose(p)
  <2>1. /\ db = NoRuntime /\ transport' = NoRuntime /\ Finish(p, result)
        /\ UNCHANGED <<db, open>>
    BY <1>3 DEF Cleanup
  <2> QED BY <1>1, <2>1, FinishedOK, RestingOK, NothingOpen
<1> QED BY <1>2, <1>3

(* Without overlap the runtimes are in order. *)
LEMMA NextRuntimeOK ==
  ASSUME TypeOK, PcOK, MemoryOK, OpeningOK, ~raced => RuntimeOK, [Next]_vars
  PROVE  ~raced' => RuntimeOK'
<1> USE SessionAssumption DEF OpeningOK, Opening, PcOK, MemoryOK, TypeOK, Handler, NoRuntime
<1>1. CASE UNCHANGED vars
  BY <1>1 DEF vars, storageVars, memoryVars, handleVars, requestVars,
              RuntimeOK, Busy
<1>2. CASE InitStores
  BY <1>2 DEF InitStores, handleVars, requestVars,
              RuntimeOK, Busy
<1>3. CASE InitFails
  BY <1>3 DEF InitFails, Cleanup, StartClose, ClearSessionState, Finish, requestVars,
              RuntimeOK, Busy, Overlaps
<1>4. CASE InitOpens
  BY <1>4 DEF InitOpens, OpenRuntime, storageVars, requestVars,
              RuntimeOK, Busy
<1>5. ASSUME NEW r \in Request, NEW a \in Account, Revoke(r, a)
      PROVE  ~raced' => RuntimeOK'
  <2>1. r \in Handler /\ method'[r] # "CALL"
    BY <1>5 DEF Revoke, Arrives
  <2> QED BY <1>5, <2>1, CleanupRuntimeOK DEF Revoke
<1>6. ASSUME NEW r \in Request, NEW a \in Account, NEW m \in Method, Reject(r, m, a)
      PROVE  ~raced' => RuntimeOK'
  BY <1>6 DEF Reject, Arrives, LoadedMeta, Finish, storageVars, handleVars,
              RuntimeOK, Busy
<1>7. ASSUME NEW r \in Request, NEW a \in Account, NEW m \in Method, Serve(r, m, a)
      PROVE  ~raced' => RuntimeOK'
  BY <1>7 DEF Serve, Arrives, Authorized, LoadedMeta, Live, Touch, handleVars,
              RuntimeOK, Busy
<1>8. ASSUME NEW r \in Request, NEW a \in Account, StaleDelete(r, a)
      PROVE  ~raced' => RuntimeOK'
  <2> SUFFICES ASSUME ~raced' PROVE RuntimeOK'
    OBVIOUS
  <2>1. r \in Handler
    OBVIOUS
  <2>2. RuntimeOK /\ (\A q \in Handler \ {r} : ~Busy(q)) /\ ~Busy(r)
    BY <1>8, NoOverlap DEF StaleDelete, Arrives, Busy
  <2>3. \A q \in Handler : ~Busy(q)'
    BY <1>8, <2>1, <2>2, FinishedOK DEF StaleDelete
  <2>4. transport = NoRuntime
    BY <1>8, <2>2 DEF StaleDelete, Live, RuntimeOK
  <2> QED BY <1>8, <2>2, <2>3, <2>4, RestingOK DEF StaleDelete, handleVars, RuntimeOK
<1>9. ASSUME NEW r \in Request, NEW a \in Account, Gone(r, a)
      PROVE  ~raced' => RuntimeOK'
  BY <1>9 DEF Gone, Arrives, LoadedMeta, Finish, storageVars, memoryVars, handleVars,
              RuntimeOK, Busy
<1>10. ASSUME NEW r \in Request, NEW a \in Account, Restore(r, a)
      PROVE  ~raced' => RuntimeOK'
  <2> SUFFICES ASSUME ~raced' PROVE RuntimeOK'
    OBVIOUS
  <2>1. r \in Handler
    OBVIOUS
  <2>2. RuntimeOK /\ \A q \in Handler \ {r} : ~Busy(q)
    BY <1>10, NoOverlap DEF Restore
  <2>3. meta = Owner
    BY <1>10 DEF Restore, LoadedMeta
  <2>4. CASE StartClose(r)
    BY <2>1, <2>2, <2>3, <2>4, ClosingOK
  <2>5. CASE /\ db = NoRuntime /\ transport' = NoRuntime /\ OpenRuntime(r)
             /\ UNCHANGED storageVars
    BY <2>1, <2>2, <2>3, <2>5, NothingOpen, BuildingOK DEF storageVars
  <2> QED BY <1>10, <2>4, <2>5 DEF Restore
<1>11. ASSUME NEW p \in Handler, Closed(p)
      PROVE  ~raced' => RuntimeOK'
  <2> SUFFICES ASSUME ~raced' PROVE RuntimeOK'
    OBVIOUS
  <2>1. RuntimeOK
    BY <1>11 DEF Closed
  <2>2. /\ \A q \in Handler \ {p} : ~Busy(q)
        /\ transport = NoRuntime /\ open = {}
    BY <1>11, <2>1 DEF Closed, RuntimeOK, Busy
  <2>3. CASE p \in Request /\ method[p] = "CALL"
    <3>1. meta = Owner
      BY <1>11, <2>1, <2>3 DEF Closed, RuntimeOK
    <3> QED BY <1>11, <2>2, <2>3, <3>1, BuildingOK DEF Closed, storageVars
  <2>4. CASE ~(p \in Request /\ method[p] = "CALL")
    <3>1. Finish(p, Verdict(p)) /\ UNCHANGED <<open, transport>>
      BY <1>11, <2>4 DEF Closed
    <3> QED BY <2>2, <3>1, FinishedOK, RestingOK
  <2> QED BY <2>3, <2>4
<1>12. ASSUME NEW p \in Handler, Built(p)
      PROVE  ~raced' => RuntimeOK'
  BY <1>12 DEF Built, Touch, handleVars, requestVars,
              RuntimeOK, Busy
<1>13. ASSUME NEW p \in Handler, BuildFails(p)
      PROVE  ~raced' => RuntimeOK'
  <2> SUFFICES ASSUME ~raced' PROVE RuntimeOK'
    OBVIOUS
  <2>1. CASE p = "init" /\ Cleanup(p, "ok")
    BY <2>1, CleanupRuntimeOK
  <2>2. CASE Finish(p, "error") /\ UNCHANGED <<memoryVars, handleVars, raced>>
    <3>1. RuntimeOK
      BY <2>2
    <3>2. (\A q \in Handler \ {p} : ~Busy(q)) /\ transport = NoRuntime
      BY <1>13, <3>1 DEF BuildFails, RuntimeOK, Busy
    <3> QED BY <2>2, <3>1, <3>2, FinishedOK, RestingOK DEF RuntimeOK, memoryVars, handleVars
  <2> QED BY <1>13, <2>1, <2>2 DEF BuildFails
<1>14. ASSUME NEW r \in Request, Respond(r)
      PROVE  ~raced' => RuntimeOK'
  <2> SUFFICES ASSUME ~raced' PROVE RuntimeOK'
    OBVIOUS
  <2>1. CASE method[r] = "DELETE" /\ Cleanup(r, "ok")
    BY <1>14, <2>1, CleanupRuntimeOK DEF Respond, requestVars
  <2>2. CASE Finish(r, "ok") /\ UNCHANGED <<storageVars, memoryVars, handleVars, runtime, raced>>
    BY <1>14, <2>2
       DEF Respond, Finish, storageVars, memoryVars, handleVars, requestVars, RuntimeOK, Busy
  <2> QED BY <1>14, <2>1, <2>2 DEF Respond
<1>15. ASSUME NEW r \in Request, ServeFails(r)
      PROVE  ~raced' => RuntimeOK'
  BY <1>15 DEF ServeFails, Finish, storageVars, memoryVars, handleVars, requestVars,
              RuntimeOK, Busy
<1>16. CASE AlarmExpires
  <2> SUFFICES ASSUME ~raced' PROVE RuntimeOK'
    OBVIOUS
  <2>1. "alarm" \in Handler
    OBVIOUS
  <2>2. RuntimeOK /\ \A q \in Handler \ {"alarm"} : ~Busy(q)
    BY <1>16, NoOverlap DEF AlarmExpires
  <2>3. CASE db # NoRuntime
    <3>1. /\ transport' = NoRuntime /\ open' = open \ {db}
          /\ pc' = [pc EXCEPT !["alarm"] = "closing"] /\ UNCHANGED <<method, db>>
      BY <1>16, <2>3 DEF AlarmExpires, requestVars
    <3> QED BY <2>2, <3>1 DEF RuntimeOK, Busy
  <2>4. CASE db = NoRuntime
    <3>1. /\ transport' = NoRuntime /\ Finish("alarm", "ok") /\ UNCHANGED <<db, open>>
      BY <1>16, <2>4 DEF AlarmExpires
    <3> QED BY <2>1, <2>2, <2>4, <3>1, FinishedOK, RestingOK, NothingOpen
  <2> QED BY <2>3, <2>4
<1>17. CASE AlarmRearms
  BY <1>17 DEF AlarmRearms, LoadedActivity, handleVars, requestVars,
              RuntimeOK, Busy
<1>18. CASE Tick
  BY <1>18 DEF Tick, Older, handleVars, requestVars,
              RuntimeOK, Busy
<1>19. CASE Evict
  BY <1>19 DEF Evict, requestVars,
              RuntimeOK, Busy
<1> QED BY <1>1, <1>2, <1>3, <1>4, <1>5, <1>6, <1>7, <1>8, <1>9, <1>10, <1>11, <1>12, <1>13, <1>14, <1>15, <1>16, <1>17, <1>18, <1>19 DEF Next, Step

(* Inv is an inductive invariant.                                          *)
LEMMA NextInv == Inv /\ [Next]_vars => Inv'
BY NextTypeOK, NextMemoryOK, NextOpeningOK, NextStoredOK, NextOwnerOK, NextActivityOK,
   NextAlarmKept, NextGone, NextRuntimeOK
   DEF Inv

LEMMA Invariance == Spec => []Inv
BY InitInv, NextInv, PTL DEF Spec

--------------------------------------------------------------------------------

(* Each variable keeps its type.                                           *)
THEOREM TypeCorrect == Spec => []TypeOK
<1>1. Inv => TypeOK
  BY DEF Inv
<1> QED BY Invariance, <1>1, PTL

(* A request is told that the session is gone only once it was cleared,    *)
(* whenever the durable object lost its memory.                            *)
THEOREM NeverGoneUncleared == Spec => []GoneOnlyWhenCleared
<1>1. Inv => GoneOnlyWhenCleared
  BY DEF Inv
<1> QED BY Invariance, <1>1, PTL

(* Until the session is cleared its transport gets its owner's requests    *)
(* only.                                                                   *)
THEOREM OwnerServed == Spec => []ServedToItsOwner
<1>1. Inv => ServedToItsOwner
  BY DEF Inv, OwnerOK, ServedToItsOwner
<1> QED BY Invariance, <1>1, PTL

(* Without overlapping handlers a live session is stored and its runtime   *)
(* has the one open database client.                                       *)
THEOREM CoherentRuntime == Spec => []Coherent
<1>1. Inv => Coherent
  BY DEF Inv, RuntimeOK, Coherent, Live
<1> QED BY Invariance, <1>1, PTL

(* A stored session keeps its alarm.                                       *)
THEOREM AlarmAlwaysKept == Spec => []AlarmKept
<1>1. Inv => AlarmKept
  BY DEF Inv
<1> QED BY Invariance, <1>1, PTL

(* The alarm never expires a session that was used within the timeout.     *)
THEOREM NoEarlyExpiry == Spec => ExpiresOnlyWhenIdle
<1>1. Inv /\ [Next]_vars =>
        [(AlarmExpires /\ meta # NoAccount) => \A r \in Request : age[r] >= Timeout]_vars
  <2> SUFFICES ASSUME Inv, AlarmExpires, meta # NoAccount, NEW r \in Request
               PROVE  age[r] >= Timeout
    OBVIOUS
  <2>1. activity >= Timeout /\ activity \in Nat /\ age[r] \in Nat /\ Timeout \in Nat
    BY SessionAssumption DEF Inv, TypeOK, MemoryOK, AlarmExpires, LoadedActivity, Unset
  <2>2. age[r] = Timeout \/ activity <= age[r]
    BY DEF Inv, ActivityOK
  <2> QED BY <2>1, <2>2
<1> QED BY Invariance, <1>1, PTL DEF Spec, ExpiresOnlyWhenIdle
================================================================================
