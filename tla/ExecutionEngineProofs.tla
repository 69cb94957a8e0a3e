------------------------- MODULE ExecutionEngineProofs -------------------------
(***************************************************************************)
(* Proofs about ExecutionEngine, for every set of executions, calls and    *)
(* requests, every runtime profile and every bound on the pauses.          *)
(***************************************************************************)
EXTENDS ExecutionEngine, TLAPS

(* The paused executions are the issued, unanswered pauses.                *)
PausesOK ==
  \A p \in PauseId :
    /\ p <= nextId <=> elicitedBy[p] # NoCall
    /\ p \in pausedExecutions <=> p <= nextId /\ response[p] = "none"
    /\ response[p] # "none" => p <= nextId

(* A request's signal is completed with a pause of the execution it races. *)
RequestsOK ==
  \A r \in Request :
    /\ request[r] = "idle" => /\ joined[r] = NoExecution
                              /\ resumes[r] = NoPause
                              /\ signalled[r] = NoPause
    /\ request[r] \notin {"idle", "missing"} => joined[r] \in Execution
    /\ request[r] = "paused" => signalled[r] # NoPause
    /\ signalled[r] # NoPause =>
         /\ elicitedBy[signalled[r]] # NoCall
         /\ ExecOf[elicitedBy[signalled[r]]] = joined[r]

(* No pause is signalled to two requests.                                  *)
SignalledOnce ==
  \A r, s \in Request :
    signalled[r] = signalled[s] /\ signalled[r] # NoPause => r = s

SignalsOK ==
  \A e \in Execution : execution[e] # "none" =>
    /\ pauseSignal[e] \in Request
    /\ request[pauseSignal[e]] \notin {"idle", "missing"}
    /\ joined[pauseSignal[e]] = e

(* Which questions a call's fiber has asked, by where the fiber is.        *)
CallsOK ==
  \A c \in Call :
    /\ call[c] \in Waiting <=> awaiting[c] # NoPause
    /\ awaiting[c] # NoPause => elicitedBy[awaiting[c]] = c
    /\ call[c] # "idle" => execution[ExecOf[c]] # "none"
    /\ call[c] = "aborted" => execution[ExecOf[c]] # "running"
    /\ \A p \in PauseId : elicitedBy[p] = c =>
         /\ call[c] \notin {"idle", "gate"}
         /\ call[c] = "gateWait" => p = awaiting[c]
         /\ p = awaiting[c] \/ response[p] # "none" \/ call[c] = "aborted"

Approved(c) ==
  \E p \in PauseId : /\ elicitedBy[p] = c
                     /\ response[p] = "accept"
                     /\ \A q \in PauseId : elicitedBy[q] = c => p <= q

GateOK ==
  \A c \in Gated : call[c] \in {"handling", "handlerWait", "done"} => Approved(c)

ResumesOK ==
  /\ \A r \in Request : resumes[r] # NoPause => response[resumes[r]] # "none"
  /\ \A p \in PauseId : response[p] # "none" =>
       \E r \in Request : /\ resumes[r] = p
                          /\ request[r] # "missing"
                          /\ joined[r] = ExecOf[elicitedBy[p]]
  /\ \A r, s \in Request :
       /\ resumes[r] = resumes[s] /\ resumes[r] # NoPause
       /\ request[r] # "missing" /\ request[s] # "missing"
       => r = s

Inv == /\ TypeOK /\ PausesOK /\ RequestsOK /\ SignalledOnce /\ SignalsOK
       /\ CallsOK /\ GateOK /\ ResumesOK

(* With calls served one by one, an execution has one call in flight, and  *)
(* its current signal holds exactly the pause that call has open.          *)
OpenCall(c) == call[c] \in Waiting /\ response[awaiting[c]] = "none"

OneInFlight ==
  \A c, d \in Call :
    ExecOf[c] = ExecOf[d] /\ call[c] \in Busy /\ call[d] \in Busy => c = d

OpenIsSignalled ==
  \A c \in Call : execution[ExecOf[c]] = "running" /\ OpenCall(c) =>
    signalled[pauseSignal[ExecOf[c]]] = awaiting[c]

SignalledIsOpen ==
  \A e \in Execution :
    execution[e] = "running" /\ signalled[pauseSignal[e]] # NoPause =>
      \E c \in Call : ExecOf[c] = e /\ OpenCall(c)

SerialOK == ~codeExecutor.parallel =>
              OneInFlight /\ OpenIsSignalled /\ SignalledIsOpen

(* Nothing is in flight in an execution that ended, unless the runtime's   *)
(* calls outlive it.                                                       *)
QuietOK ==
  ~codeExecutor.outlives =>
    \A c \in Call : Ended(ExecOf[c]) => call[c] \notin Busy

--------------------------------------------------------------------------------

LEMMA InitTypeOK == Init => TypeOK
  BY EngineAssumption
  DEF Init, TypeOK, CallState, Busy, Waiting, PauseId, NoPause, Action

LEMMA NextTypeOK == TypeOK /\ PausesOK /\ [Next]_vars => TypeOK'
<1> SUFFICES ASSUME TypeOK, PausesOK, [Next]_vars PROVE TypeOK'
  OBVIOUS
<1> USE EngineAssumption DEF TypeOK, engineVars, signalVars, requestVars
<1>1. CASE UNCHANGED vars
  BY <1>1 DEF vars
<1>2. ASSUME NEW r \in Request, ClientStep(r) PROVE TypeOK'
  <2>1. ASSUME NEW e \in Execution, ExecuteWithPause(r, e) PROVE TypeOK'
    BY <2>1 DEF ExecuteWithPause, AwaitCompletionOrPause
  <2>2. ASSUME NEW p \in PauseId, NEW a \in Action, Resume(r, p, a) PROVE TypeOK'
    <3> DEFINE e == ExecOf[elicitedBy[p]]
    <3>1. e \in Execution
      BY <2>2 DEF Resume, PausesOK
    <3>2. /\ request' = [request EXCEPT ![r] = "waiting"]
          /\ joined' = [joined EXCEPT ![r] = e]
          /\ pauseSignal' = [pauseSignal EXCEPT ![e] = r]
          /\ resumes' = [resumes EXCEPT ![r] = p]
          /\ pausedExecutions' \subseteq pausedExecutions
          /\ response' = [response EXCEPT ![p] = IF @ = "none" THEN a ELSE @]
          /\ UNCHANGED <<codeExecutor, execution, call, awaiting, nextId,
                         elicitedBy, signalled>>
      BY <2>2 DEF Resume, AwaitCompletionOrPause
    <3> HIDE DEF e
    <3> QED BY <3>1, <3>2
  <2>3. ASSUME NEW p \in PauseId \cup {NoPause}, ResumeMissing(r, p)
        PROVE  TypeOK'
    BY <2>3 DEF ResumeMissing
  <2>4. CASE Interrupt(r)
    BY <2>4 DEF Interrupt
  <2> QED BY <1>2, <2>1, <2>2, <2>3, <2>4 DEF ClientStep
<1>3. ASSUME NEW r \in Request, RequestStep(r) PROVE TypeOK'
  BY <1>3 DEF RequestStep, ReturnCompleted, ReturnPaused
<1>4. ASSUME NEW c \in Call, CallStep(c) PROVE TypeOK'
  <2>1. CASE Dispatch(c)
    BY <2>1 DEF Dispatch, CallState, Busy
  <2>2. CASE Elicit(c)
    <3> DEFINE p == nextId + 1
               s == pauseSignal[ExecOf[c]]
    <3>1. p \in PauseId /\ p \in 0 .. MaxPause
      BY <2>2 DEF Elicit, PauseId
    <3>2. call' \in [Call -> CallState]
      BY <2>2 DEF Elicit, CallState, Busy, Waiting
    <3>3. /\ nextId' = p
          /\ elicitedBy' = [elicitedBy EXCEPT ![p] = c]
          /\ pausedExecutions' = pausedExecutions \cup {p}
          /\ signalled' = [signalled EXCEPT ![s] = IF @ = NoPause THEN p ELSE @]
          /\ awaiting' = [awaiting EXCEPT ![c] = p]
          /\ UNCHANGED <<codeExecutor, execution, response, pauseSignal,
                         request, joined, resumes>>
      BY <2>2 DEF Elicit
    <3> HIDE DEF p, s
    <3> QED BY <3>1, <3>2, <3>3
  <2>3. CASE TakeResponse(c)
    BY <2>3 DEF TakeResponse, CallState, Busy
  <2>4. CASE Perform(c)
    BY <2>4 DEF Perform, CallState
  <2> QED BY <1>4, <2>1, <2>2, <2>3, <2>4 DEF CallStep
<1>5. ASSUME NEW e \in Execution, ExecutionStep(e) PROVE TypeOK'
  BY <1>5 DEF ExecutionStep, Complete, TimeOut, Fail, End, CallState
<1> QED BY <1>1, <1>2, <1>3, <1>4, <1>5 DEF Next

--------------------------------------------------------------------------------
(* The parts of the inductive invariant.                                   *)

LEMMA FreshPause ==
  ASSUME TypeOK, PausesOK, nextId < MaxPause
  PROVE  /\ nextId + 1 \in PauseId
         /\ elicitedBy[nextId + 1] = NoCall
         /\ response[nextId + 1] = "none"
<1> DEFINE p == nextId + 1
<1>1. p \in PauseId /\ ~(p <= nextId)
  BY EngineAssumption DEF TypeOK, PauseId
<1> HIDE DEF p
<1>2. elicitedBy[p] = NoCall /\ response[p] = "none"
  BY <1>1 DEF PausesOK
<1> QED BY <1>1, <1>2 DEF p

LEMMA NextPausesOK ==
  ASSUME TypeOK, PausesOK, [Next]_vars
  PROVE  PausesOK'
<1> USE DEF TypeOK, engineVars, signalVars, requestVars
<1>1. CASE UNCHANGED engineVars
  BY <1>1 DEF PausesOK
<1>2. ASSUME NEW r \in Request, NEW p \in PauseId, NEW a \in Action,
             Resume(r, p, a)
      PROVE  PausesOK'
  <2>1. p <= nextId
    BY <1>2 DEF Resume, PausesOK
  <2>2. a # "none"
    BY DEF Action
  <2>3. /\ UNCHANGED <<nextId, elicitedBy>>
        /\ p \in pausedExecutions
        /\ pausedExecutions' = pausedExecutions \ {p}
        /\ response' = [response EXCEPT ![p] = a]
    BY <1>2 DEF Resume, PausesOK
  <2> QED BY <2>1, <2>2, <2>3 DEF PausesOK
<1>3. ASSUME NEW c \in Call, Elicit(c) PROVE PausesOK'
  <2> DEFINE p == nextId + 1
  <2>1. p \in PauseId /\ response[p] = "none"
    BY <1>3, EngineAssumption, FreshPause DEF Elicit
  <2>2. /\ nextId' = p
        /\ elicitedBy' = [elicitedBy EXCEPT ![p] = c]
        /\ pausedExecutions' = pausedExecutions \cup {p}
        /\ response' = response
    BY <1>3 DEF Elicit
  <2>3. \A q \in PauseId : q <= nextId' <=> q <= nextId \/ q = p
    BY <2>2 DEF PauseId
  <2> HIDE DEF p
  <2> QED BY <2>1, <2>2, <2>3, EngineAssumption DEF PausesOK
<1>4. \/ UNCHANGED engineVars
      \/ \E r \in Request, p \in PauseId, a \in Action : Resume(r, p, a)
      \/ \E c \in Call : Elicit(c)
  <2>1. ASSUME NEW r \in Request, ClientStep(r) PROVE <1>4
    BY <2>1 DEF ClientStep, ExecuteWithPause, ResumeMissing, Interrupt
  <2>2. ASSUME NEW r \in Request, RequestStep(r) PROVE <1>4
    BY <2>2 DEF RequestStep, ReturnCompleted, ReturnPaused
  <2>3. ASSUME NEW c \in Call, CallStep(c) PROVE <1>4
    BY <2>3 DEF CallStep, Dispatch, TakeResponse, Perform
  <2>4. ASSUME NEW e \in Execution, ExecutionStep(e) PROVE <1>4
    BY <2>4 DEF ExecutionStep, Complete, TimeOut, Fail, End
  <2> QED BY <2>1, <2>2, <2>3, <2>4 DEF Next, vars
<1> QED BY <1>1, <1>2, <1>3, <1>4

LEMMA NextRequestsOK ==
  ASSUME TypeOK, PausesOK, RequestsOK, SignalsOK, CallsOK, [Next]_vars
  PROVE  RequestsOK'
<1> USE EngineAssumption DEF TypeOK, engineVars, signalVars, requestVars
<1>1. CASE UNCHANGED <<elicitedBy, signalled, request, joined, resumes>>
  BY <1>1 DEF RequestsOK
<1>2. ASSUME NEW r \in Request, ClientStep(r) PROVE RequestsOK'
  <2>1. ASSUME NEW e \in Execution, ExecuteWithPause(r, e) PROVE RequestsOK'
    BY <2>1 DEF ExecuteWithPause, AwaitCompletionOrPause, RequestsOK
  <2>2. ASSUME NEW p \in PauseId, NEW a \in Action, Resume(r, p, a)
        PROVE  RequestsOK'
    <3> DEFINE e == ExecOf[elicitedBy[p]]
    <3>1. e \in Execution
      BY <2>2 DEF Resume, PausesOK
    <3>2. /\ request[r] = "idle"
          /\ request' = [request EXCEPT ![r] = "waiting"]
          /\ joined' = [joined EXCEPT ![r] = e]
          /\ resumes' = [resumes EXCEPT ![r] = p]
          /\ UNCHANGED <<elicitedBy, signalled>>
      BY <2>2 DEF Resume, AwaitCompletionOrPause
    <3> HIDE DEF e
    <3> QED BY <3>1, <3>2 DEF RequestsOK
  <2>3. ASSUME NEW p \in PauseId \cup {NoPause}, ResumeMissing(r, p)
        PROVE  RequestsOK'
    BY <2>3 DEF ResumeMissing, RequestsOK
  <2>4. CASE Interrupt(r)
    BY <2>4 DEF Interrupt, RequestsOK
  <2> QED BY <1>2, <2>1, <2>2, <2>3, <2>4 DEF ClientStep
<1>3. ASSUME NEW r \in Request, RequestStep(r) PROVE RequestsOK'
  BY <1>3 DEF RequestStep, ReturnCompleted, ReturnPaused, RequestsOK
<1>4. ASSUME NEW c \in Call, Elicit(c) PROVE RequestsOK'
  <2> DEFINE p == nextId + 1
             s == pauseSignal[ExecOf[c]]
  <2>1. /\ p \in PauseId
        /\ elicitedBy[p] = NoCall
    BY <1>4 DEF Elicit, PausesOK, PauseId
  <2>2. /\ elicitedBy' = [elicitedBy EXCEPT ![p] = c]
        /\ signalled' = [signalled EXCEPT ![s] = IF @ = NoPause THEN p ELSE @]
        /\ UNCHANGED <<request, joined, resumes>>
    BY <1>4 DEF Elicit
  <2>3. /\ s \in Request
        /\ request[s] # "idle"
        /\ joined[s] = ExecOf[c]
    BY <1>4 DEF Elicit, CallsOK, SignalsOK
  <2>4. c # NoCall
    OBVIOUS
  <2> HIDE DEF p, s
  <2>5. ASSUME NEW r \in Request, signalled'[r] # NoPause
        PROVE  /\ elicitedBy'[signalled'[r]] # NoCall
               /\ ExecOf[elicitedBy'[signalled'[r]]] = joined[r]
    <3>1. CASE signalled[r] # NoPause
      <4>1. signalled'[r] = signalled[r]
        BY <3>1, <2>2
      <4>2. /\ elicitedBy[signalled[r]] # NoCall
            /\ ExecOf[elicitedBy[signalled[r]]] = joined[r]
            /\ signalled[r] \in PauseId
        BY <3>1 DEF RequestsOK
      <4>3. elicitedBy'[signalled[r]] = elicitedBy[signalled[r]]
        BY <4>2, <2>1, <2>2
      <4> QED BY <4>1, <4>2, <4>3
    <3>2. CASE signalled[r] = NoPause
      BY <3>2, <2>1, <2>2, <2>3, <2>4, <2>5
    <3> QED BY <3>1, <3>2
  <2> QED BY <2>1, <2>2, <2>3, <2>5 DEF RequestsOK, NoPause, PauseId
<1>5. \/ UNCHANGED <<elicitedBy, signalled, request, joined, resumes>>
      \/ \E r \in Request : ClientStep(r) \/ RequestStep(r)
      \/ \E c \in Call : Elicit(c)
  <2>1. ASSUME NEW c \in Call, CallStep(c) PROVE <1>5
    BY <2>1 DEF CallStep, Dispatch, TakeResponse, Perform
  <2>2. ASSUME NEW e \in Execution, ExecutionStep(e) PROVE <1>5
    BY <2>2 DEF ExecutionStep, Complete, TimeOut, Fail, End
  <2> QED BY <2>1, <2>2 DEF Next, vars
<1> QED BY <1>1, <1>2, <1>3, <1>4, <1>5

LEMMA NextSignalledOnce ==
  ASSUME TypeOK, PausesOK, RequestsOK, SignalledOnce, [Next]_vars
  PROVE  SignalledOnce'
<1> USE DEF TypeOK, engineVars, signalVars, requestVars
<1>1. CASE UNCHANGED signalled
  BY <1>1 DEF SignalledOnce
<1>2. ASSUME NEW c \in Call, Elicit(c) PROVE SignalledOnce'
  <2> DEFINE p == nextId + 1
             s == pauseSignal[ExecOf[c]]
  <2>1. p \in PauseId /\ elicitedBy[p] = NoCall
    BY <1>2, FreshPause DEF Elicit
  <2>2. signalled' = [signalled EXCEPT ![s] = IF @ = NoPause THEN p ELSE @]
    BY <1>2 DEF Elicit
  <2> HIDE DEF p, s
  <2>3. \A r \in Request : signalled[r] # p
    BY <2>1 DEF RequestsOK, PauseId, NoPause
  <2> QED BY <2>2, <2>3 DEF SignalledOnce
<1>3. UNCHANGED signalled \/ \E c \in Call : Elicit(c)
  <2>1. ASSUME NEW r \in Request, ClientStep(r) \/ RequestStep(r)
        PROVE  UNCHANGED signalled
    BY <2>1 DEF ClientStep, ExecuteWithPause, Resume, ResumeMissing, Interrupt,
                AwaitCompletionOrPause, RequestStep, ReturnCompleted, ReturnPaused
  <2>2. ASSUME NEW c \in Call, CallStep(c) PROVE UNCHANGED signalled \/ Elicit(c)
    BY <2>2 DEF CallStep, Dispatch, TakeResponse, Perform
  <2>3. ASSUME NEW e \in Execution, ExecutionStep(e) PROVE UNCHANGED signalled
    BY <2>3 DEF ExecutionStep, Complete, TimeOut, Fail, End
  <2> QED BY <2>1, <2>2, <2>3 DEF Next, vars
<1> QED BY <1>1, <1>2, <1>3

LEMMA NextSignalsOK ==
  ASSUME TypeOK, PausesOK, RequestsOK, SignalsOK, [Next]_vars
  PROVE  SignalsOK'
<1> USE EngineAssumption DEF TypeOK, engineVars, signalVars, requestVars
<1>1. CASE UNCHANGED <<execution, pauseSignal, request, joined>>
  BY <1>1 DEF SignalsOK
<1>2. ASSUME NEW r \in Request, ClientStep(r) PROVE SignalsOK'
  <2>1. ASSUME NEW e \in Execution, ExecuteWithPause(r, e) PROVE SignalsOK'
    BY <2>1 DEF ExecuteWithPause, AwaitCompletionOrPause, SignalsOK
  <2>2. ASSUME NEW p \in PauseId, NEW a \in Action, Resume(r, p, a)
        PROVE  SignalsOK'
    <3> DEFINE e == ExecOf[elicitedBy[p]]
    <3>1. e \in Execution
      BY <2>2 DEF Resume, PausesOK
    <3>2. /\ request[r] = "idle"
          /\ request' = [request EXCEPT ![r] = "waiting"]
          /\ joined' = [joined EXCEPT ![r] = e]
          /\ pauseSignal' = [pauseSignal EXCEPT ![e] = r]
          /\ UNCHANGED execution
      BY <2>2 DEF Resume, AwaitCompletionOrPause
    <3> HIDE DEF e
    <3> QED BY <3>1, <3>2 DEF SignalsOK
  <2>3. ASSUME NEW p \in PauseId \cup {NoPause}, ResumeMissing(r, p)
        PROVE  SignalsOK'
    BY <2>3 DEF ResumeMissing, SignalsOK
  <2>4. CASE Interrupt(r)
    BY <2>4 DEF Interrupt, SignalsOK
  <2> QED BY <1>2, <2>1, <2>2, <2>3, <2>4 DEF ClientStep
<1>3. ASSUME NEW r \in Request, RequestStep(r) PROVE SignalsOK'
  BY <1>3 DEF RequestStep, ReturnCompleted, ReturnPaused, SignalsOK
<1>4. ASSUME NEW e \in Execution, ExecutionStep(e) PROVE SignalsOK'
  BY <1>4 DEF ExecutionStep, Complete, TimeOut, Fail, End, SignalsOK
<1>5. ASSUME NEW c \in Call, CallStep(c)
      PROVE  UNCHANGED <<execution, pauseSignal, request, joined>>
  BY <1>5 DEF CallStep, Dispatch, Elicit, TakeResponse, Perform
<1> QED BY <1>1, <1>2, <1>3, <1>4, <1>5 DEF Next, vars

(* A call that waits or has ended does not change what it asked.           *)
LEMMA NextCallsOK ==
  ASSUME TypeOK, PausesOK, RequestsOK, SignalsOK, CallsOK, [Next]_vars
  PROVE  CallsOK'
<1> USE EngineAssumption DEF TypeOK, engineVars, signalVars, requestVars
<1>1. CASE UNCHANGED <<execution, call, awaiting, elicitedBy, response>>
  BY <1>1 DEF CallsOK
<1>2. ASSUME NEW r \in Request, NEW e \in Execution, ExecuteWithPause(r, e)
      PROVE  CallsOK'
  BY <1>2 DEF ExecuteWithPause, CallsOK
<1>3. ASSUME NEW r \in Request, NEW p \in PauseId, NEW a \in Action,
             Resume(r, p, a)
      PROVE  CallsOK'
  <2>1. /\ response' = [response EXCEPT ![p] = IF @ = "none" THEN a ELSE @]
        /\ UNCHANGED <<execution, call, awaiting, elicitedBy>>
    BY <1>3 DEF Resume
  <2>2. a # "none"
    BY DEF Action
  <2> QED BY <2>1, <2>2 DEF CallsOK
<1>4. ASSUME NEW c \in Call, Dispatch(c) PROVE CallsOK'
  BY <1>4 DEF Dispatch, CallsOK, Waiting
<1>5. ASSUME NEW c \in Call, Elicit(c) PROVE CallsOK'
  <2> DEFINE p == nextId + 1
  <2>1. p \in PauseId /\ elicitedBy[p] = NoCall
    BY <1>5 DEF Elicit, PausesOK, PauseId
  <2>2. /\ call[c] \in {"gate", "handling"}
        /\ elicitedBy' = [elicitedBy EXCEPT ![p] = c]
        /\ call' = [call EXCEPT ![c] = IF @ = "gate" THEN "gateWait" ELSE "handlerWait"]
        /\ awaiting' = [awaiting EXCEPT ![c] = p]
        /\ UNCHANGED <<execution, response>>
    BY <1>5 DEF Elicit
  <2>3. p # NoPause /\ c # NoCall
    BY <2>1 DEF PauseId, NoPause
  <2>4. awaiting[c] = NoPause /\ NoPause \notin PauseId
    <3>1. call[c] \notin Waiting
      BY <2>2 DEF Waiting
    <3>2. NoPause \notin PauseId
      BY DEF PauseId, NoPause
    <3> QED BY <3>1, <3>2 DEF CallsOK
  <2> HIDE DEF p
  <2>5. ASSUME NEW d \in Call, d # c PROVE
          /\ call'[d] = call[d] /\ awaiting'[d] = awaiting[d]
          /\ \A q \in PauseId : elicitedBy'[q] = d <=> elicitedBy[q] = d
    BY <2>5, <2>1, <2>2
  <2>6. ASSUME NEW d \in Call PROVE
          /\ call'[d] \in Waiting <=> awaiting'[d] # NoPause
          /\ awaiting'[d] # NoPause => elicitedBy'[awaiting'[d]] = d
          /\ call'[d] # "idle" => execution[ExecOf[d]] # "none"
          /\ call'[d] = "aborted" => execution[ExecOf[d]] # "running"
    BY <2>1, <2>2, <2>3, <2>5 DEF CallsOK, Waiting
  <2>7. ASSUME NEW d \in Call, NEW q \in PauseId, elicitedBy'[q] = d PROVE
          /\ call'[d] \notin {"idle", "gate"}
          /\ call'[d] = "gateWait" => q = awaiting'[d]
          /\ q = awaiting'[d] \/ response[q] # "none" \/ call'[d] = "aborted"
    <3>1. CASE d # c
      BY <3>1, <2>5, <2>7 DEF CallsOK
    <3>2. CASE d = c /\ q = p
      BY <3>2, <2>1, <2>2
    <3>3. CASE d = c /\ q # p
      <4>1. elicitedBy[q] = c
        BY <3>3, <2>1, <2>2, <2>7
      <4>2. call[c] = "handling"
        BY <4>1, <2>2 DEF CallsOK
      <4>3. response[q] # "none"
        BY <4>1, <4>2, <2>4 DEF CallsOK
      <4> QED BY <3>3, <4>2, <4>3, <2>2
    <3> QED BY <3>1, <3>2, <3>3
  <2> QED BY <2>2, <2>6, <2>7 DEF CallsOK
<1>6. ASSUME NEW c \in Call, TakeResponse(c) PROVE CallsOK'
  <2>1. /\ call[c] \in Waiting
        /\ response[awaiting[c]] # "none"
        /\ \/ call' = [call EXCEPT ![c] = "handling"]
           \/ call' = [call EXCEPT ![c] = "refused"]
        /\ awaiting' = [awaiting EXCEPT ![c] = NoPause]
        /\ UNCHANGED <<execution, elicitedBy, response>>
    BY <1>6 DEF TakeResponse
  <2> QED BY <2>1 DEF CallsOK, Waiting
<1>7. ASSUME NEW c \in Call, Perform(c) PROVE CallsOK'
  BY <1>7 DEF Perform, CallsOK, Waiting
<1>8. ASSUME NEW e \in Execution, ExecutionStep(e) PROVE CallsOK'
  <2>1. PICK stopped \in {{}, InFlight(e)} :
          /\ call' = [c \in Call |-> IF c \in stopped THEN "aborted" ELSE call[c]]
          /\ awaiting' = [c \in Call |-> IF c \in stopped THEN NoPause ELSE awaiting[c]]
    BY <1>8 DEF ExecutionStep, Complete, TimeOut, Fail, End
  <2>2. /\ execution[e] = "running"
        /\ \E outcome \in {"completed", "failed"} :
             execution' = [execution EXCEPT ![e] = outcome]
        /\ UNCHANGED <<elicitedBy, response>>
    BY <1>8 DEF ExecutionStep, Complete, TimeOut, Fail, End
  <2>3. \A c \in stopped : ExecOf[c] = e /\ call[c] \in Busy
    BY <2>1 DEF InFlight
  <2> QED BY <2>1, <2>2, <2>3 DEF CallsOK, Waiting, Busy
<1>9. ASSUME NEW r \in Request, \/ \E p \in PauseId \cup {NoPause} : ResumeMissing(r, p)
                                \/ Interrupt(r)
                                \/ RequestStep(r)
      PROVE  UNCHANGED <<execution, call, awaiting, elicitedBy, response>>
  BY <1>9 DEF ResumeMissing, Interrupt, RequestStep, ReturnCompleted, ReturnPaused
<1> QED
  BY <1>1, <1>2, <1>3, <1>4, <1>5, <1>6, <1>7, <1>8, <1>9
  DEF Next, ClientStep, CallStep, vars

(* An approval cannot be taken back, nor can a later question become the   *)
(* first one.                                                              *)
LEMMA ApprovedStays ==
  ASSUME TypeOK, PausesOK, [Next]_vars, NEW c \in Call, Approved(c)
  PROVE  Approved(c)'
<1> USE EngineAssumption DEF TypeOK, engineVars, signalVars, requestVars
<1>1. CASE UNCHANGED <<elicitedBy, response>>
  BY <1>1 DEF Approved
<1>2. ASSUME NEW r \in Request, NEW p \in PauseId, NEW a \in Action,
             Resume(r, p, a)
      PROVE  Approved(c)'
  <2>1. /\ response' = [response EXCEPT ![p] = IF @ = "none" THEN a ELSE @]
        /\ UNCHANGED elicitedBy
    BY <1>2 DEF Resume
  <2> QED BY <2>1 DEF Approved
<1>3. ASSUME NEW d \in Call, Elicit(d) PROVE Approved(c)'
  <2> DEFINE p == nextId + 1
  <2>1. p \in PauseId /\ elicitedBy[p] = NoCall
    BY <1>3 DEF Elicit, PausesOK, PauseId
  <2>2. elicitedBy' = [elicitedBy EXCEPT ![p] = d] /\ UNCHANGED response
    BY <1>3 DEF Elicit
  <2>3. PICK f \in PauseId : /\ elicitedBy[f] = c
                             /\ response[f] = "accept"
                             /\ \A q \in PauseId : elicitedBy[q] = c => f <= q
    BY DEF Approved
  <2>4. f <= p
    BY <2>3 DEF PausesOK, PauseId
  <2>5. f # p
    BY <2>1, <2>3
  <2> HIDE DEF p
  <2> QED BY <2>1, <2>2, <2>3, <2>4, <2>5 DEF Approved
<1>4. \/ UNCHANGED <<elicitedBy, response>>
      \/ \E r \in Request, p \in PauseId, a \in Action : Resume(r, p, a)
      \/ \E d \in Call : Elicit(d)
  <2>1. ASSUME NEW r \in Request, ClientStep(r) \/ RequestStep(r) PROVE <1>4
    BY <2>1 DEF ClientStep, ExecuteWithPause, ResumeMissing, Interrupt,
                RequestStep, ReturnCompleted, ReturnPaused
  <2>2. ASSUME NEW d \in Call, CallStep(d) PROVE <1>4
    BY <2>2 DEF CallStep, Dispatch, TakeResponse, Perform
  <2>3. ASSUME NEW e \in Execution, ExecutionStep(e) PROVE <1>4
    BY <2>3 DEF ExecutionStep, Complete, TimeOut, Fail, End
  <2> QED BY <2>1, <2>2, <2>3 DEF Next, vars
<1> QED BY <1>1, <1>2, <1>3, <1>4

LEMMA NextGateOK ==
  ASSUME TypeOK, PausesOK, CallsOK, GateOK, [Next]_vars
  PROVE  GateOK'
<1> USE EngineAssumption DEF TypeOK
<1> DEFINE Past == {"handling", "handlerWait", "done"}
<1>1. SUFFICES ASSUME NEW c \in Gated, c \in Call, call'[c] \in Past
               PROVE  Approved(c) \/ Approved(c)'
  BY ApprovedStays DEF GateOK
<1>2. CASE call[c] \in Past
  BY <1>2 DEF GateOK
<1>3. CASE call[c] \notin Past
  <2>1. TakeResponse(c)
    <3>1. ASSUME NEW r \in Request, ClientStep(r) \/ RequestStep(r)
          PROVE  UNCHANGED call
      BY <3>1 DEF ClientStep, ExecuteWithPause, Resume, ResumeMissing, Interrupt,
                  RequestStep, ReturnCompleted, ReturnPaused
    <3>2. ASSUME NEW e \in Execution, ExecutionStep(e) PROVE call'[c] \notin Past
      BY <3>2, <1>3 DEF ExecutionStep, Complete, TimeOut, Fail, End
    <3>3. ASSUME NEW d \in Call, Dispatch(d) \/ Elicit(d) \/ Perform(d)
          PROVE  call'[c] \notin Past
      BY <3>3, <1>3 DEF Dispatch, Elicit, Perform
    <3>4. ASSUME NEW d \in Call, TakeResponse(d), call'[c] # call[c] PROVE d = c
      BY <3>4 DEF TakeResponse
    <3> QED
      BY <1>1, <1>3, <3>1, <3>2, <3>3, <3>4 DEF Next, CallStep, vars
  <2>2. call[c] = "gateWait" /\ response[awaiting[c]] = "accept"
    BY <1>1, <1>3, <2>1 DEF TakeResponse, Waiting
  <2>3. /\ awaiting[c] \in PauseId
        /\ elicitedBy[awaiting[c]] = c
        /\ \A q \in PauseId : elicitedBy[q] = c => q = awaiting[c]
    BY <2>2 DEF CallsOK, Waiting
  <2> QED BY <2>2, <2>3 DEF Approved, PauseId
<1> QED BY <1>2, <1>3

LEMMA NextResumesOK ==
  ASSUME TypeOK, PausesOK, RequestsOK, ResumesOK, [Next]_vars
  PROVE  ResumesOK'
<1> USE EngineAssumption DEF TypeOK, engineVars, signalVars, requestVars
<1>1. CASE UNCHANGED <<response, elicitedBy, request, joined, resumes>>
  BY <1>1 DEF ResumesOK
<1>2. ASSUME NEW r \in Request, NEW e \in Execution, ExecuteWithPause(r, e)
      PROVE  ResumesOK'
  <2>1. /\ request[r] = "idle"
        /\ request' = [request EXCEPT ![r] = "waiting"]
        /\ joined' = [joined EXCEPT ![r] = e]
        /\ UNCHANGED <<response, elicitedBy, resumes>>
    BY <1>2 DEF ExecuteWithPause, AwaitCompletionOrPause
  <2>2. resumes[r] = NoPause /\ NoPause \notin PauseId
    BY <2>1 DEF RequestsOK, PauseId, NoPause
  <2> QED BY <2>1, <2>2 DEF ResumesOK
<1>3. ASSUME NEW r \in Request, NEW p \in PauseId, NEW a \in Action,
             Resume(r, p, a)
      PROVE  ResumesOK'
  <2> DEFINE e == ExecOf[elicitedBy[p]]
  <2>1. p # NoPause /\ a # "none" /\ response[p] = "none"
    BY <1>3 DEF Resume, PausesOK, PauseId, NoPause, Action
  <2>2. /\ request[r] = "idle"
        /\ request' = [request EXCEPT ![r] = "waiting"]
        /\ joined' = [joined EXCEPT ![r] = e]
        /\ resumes' = [resumes EXCEPT ![r] = p]
        /\ response' = [response EXCEPT ![p] = IF @ = "none" THEN a ELSE @]
        /\ UNCHANGED elicitedBy
    BY <1>3 DEF Resume, AwaitCompletionOrPause
  <2>3. \A s \in Request : resumes[s] # p
    BY <2>1 DEF ResumesOK
  <2>4. resumes[r] = NoPause
    BY <2>2 DEF RequestsOK
  <2>5. e = ExecOf[elicitedBy'[p]]
    BY <2>2
  <2> HIDE DEF e
  <2>6. ASSUME NEW s \in Request, resumes'[s] # NoPause
        PROVE  response'[resumes'[s]] # "none"
    BY <2>1, <2>2, <2>6 DEF ResumesOK
  <2>7. ASSUME NEW q \in PauseId, response'[q] # "none"
        PROVE  \E s \in Request : /\ resumes'[s] = q
                                  /\ request'[s] # "missing"
                                  /\ joined'[s] = ExecOf[elicitedBy'[q]]
    <3>1. CASE q = p
      BY <3>1, <2>2, <2>5
    <3>2. CASE q # p
      <4>1. PICK s \in Request : /\ resumes[s] = q
                                 /\ request[s] # "missing"
                                 /\ joined[s] = ExecOf[elicitedBy[q]]
        BY <3>2, <2>2, <2>7 DEF ResumesOK
      <4>2. s # r
        BY <4>1, <2>4 DEF PauseId, NoPause
      <4> QED BY <4>1, <4>2, <2>2
    <3> QED BY <3>1, <3>2
  <2>8. ASSUME NEW s \in Request, NEW t \in Request,
               resumes'[s] = resumes'[t], resumes'[s] # NoPause,
               request'[s] # "missing", request'[t] # "missing"
        PROVE  s = t
    BY <2>2, <2>3, <2>8 DEF ResumesOK
  <2> QED BY <2>6, <2>7, <2>8 DEF ResumesOK
<1>4. ASSUME NEW r \in Request, NEW p \in PauseId \cup {NoPause},
             ResumeMissing(r, p)
      PROVE  ResumesOK'
  <2>1. /\ request[r] = "idle"
        /\ request' = [request EXCEPT ![r] = "missing"]
        /\ resumes' = [resumes EXCEPT ![r] = p]
        /\ UNCHANGED <<response, elicitedBy, joined>>
    BY <1>4 DEF ResumeMissing
  <2>2. p # NoPause => response[p] # "none"
    BY <1>4 DEF ResumeMissing, PausesOK
  <2>3. resumes[r] = NoPause /\ NoPause \notin PauseId
    BY <2>1 DEF RequestsOK, PauseId, NoPause
  <2> QED BY <2>1, <2>2, <2>3 DEF ResumesOK
<1>5. ASSUME NEW r \in Request, Interrupt(r) \/ RequestStep(r) PROVE ResumesOK'
  BY <1>5 DEF Interrupt, RequestStep, ReturnCompleted, ReturnPaused, ResumesOK
<1>6. ASSUME NEW c \in Call, Elicit(c) PROVE ResumesOK'
  <2> DEFINE p == nextId + 1
  <2>1. p \in PauseId /\ elicitedBy[p] = NoCall
    BY <1>6, FreshPause DEF Elicit
  <2>2. response[p] = "none"
    BY <1>6, FreshPause DEF Elicit
  <2>3. /\ elicitedBy' = [elicitedBy EXCEPT ![p] = c]
        /\ UNCHANGED <<response, request, joined, resumes>>
    BY <1>6 DEF Elicit
  <2> HIDE DEF p
  <2> QED BY <2>1, <2>2, <2>3 DEF ResumesOK
<1>7. ASSUME NEW c \in Call, Dispatch(c) \/ TakeResponse(c) \/ Perform(c)
      PROVE  UNCHANGED <<response, elicitedBy, request, joined, resumes>>
  BY <1>7 DEF Dispatch, TakeResponse, Perform
<1>8. ASSUME NEW e \in Execution, ExecutionStep(e)
      PROVE  UNCHANGED <<response, elicitedBy, request, joined, resumes>>
  BY <1>8 DEF ExecutionStep, Complete, TimeOut, Fail, End
<1> QED
  BY <1>1, <1>2, <1>3, <1>4, <1>5, <1>6, <1>7, <1>8
  DEF Next, ClientStep, CallStep, vars

--------------------------------------------------------------------------------

LEMMA InitInv == Init => Inv
<1> SUFFICES ASSUME Init PROVE Inv
  OBVIOUS
<1> USE EngineAssumption DEF Init
<1>1. TypeOK
  BY InitTypeOK
<1>2. PausesOK /\ RequestsOK /\ SignalsOK
  BY DEF PausesOK, RequestsOK, SignalsOK, PauseId
<1>5. SignalledOnce
  BY DEF SignalledOnce
<1>3. CallsOK /\ GateOK
  BY DEF CallsOK, GateOK, Waiting
<1>4. ResumesOK
  BY DEF ResumesOK
<1> QED BY <1>1, <1>2, <1>3, <1>4, <1>5 DEF Inv

LEMMA NextInv == Inv /\ [Next]_vars => Inv'
BY NextTypeOK, NextPausesOK, NextRequestsOK, NextSignalledOnce, NextSignalsOK,
   NextCallsOK, NextGateOK, NextResumesOK
DEF Inv

(* The inductive invariant of the engine: every bookkeeping relation       *)
(* between the Map, the pauses, the requests and the calls holds in every  *)
(* reachable state.                                                        *)
THEOREM Invariance == Spec => []Inv
BY InitInv, NextInv, PTL DEF Spec

(* The variables of the engine keep their types.                           *)
THEOREM TypeCorrect == Spec => []TypeOK
<1>1. Inv => TypeOK
  BY DEF Inv
<1> QED BY <1>1, Invariance, PTL

(* Whatever runtime, however many clients and however often they retry: of *)
(* the resumes that name one pause exactly one drives the execution on,    *)
(* because the Map entry is deleted before the response is delivered; only *)
(* a resume of an id never issued gets null with none before it.           *)
THEOREM ResumeOnce == Spec => []ResumeDrivesOnce
<1>1. Inv => ResumeDrivesOnce
  <2>1. ASSUME Inv, NEW r \in Request, request[r] = "missing",
               resumes[r] # NoPause
        PROVE  \E s \in Request : resumes[s] = resumes[r] /\ request[s] # "missing"
    <3>1. resumes[r] \in PauseId /\ response[resumes[r]] # "none"
      BY <2>1 DEF Inv, ResumesOK, TypeOK
    <3> QED BY <2>1, <3>1 DEF Inv, ResumesOK
  <2> QED BY <2>1 DEF Inv, ResumeDrivesOnce, ResumesOK
<1> QED BY <1>1, Invariance, PTL

(* No interleaving of calls, executions and clients runs a gated tool      *)
(* without a resume that named the call's own approval question, accepted  *)
(* it, and drove the program on.                                           *)
THEOREM GateHolds == Spec => []RunsOnlyApproved
<1>1. ASSUME Inv, NEW c \in Gated, call[c] \in {"handling", "handlerWait", "done"}
      PROVE  \E p \in PauseId, r \in Request :
               /\ elicitedBy[p] = c /\ response[p] = "accept"
               /\ \A q \in PauseId : elicitedBy[q] = c => p <= q
               /\ resumes[r] = p /\ request[r] # "missing" /\ joined[r] = ExecOf[c]
  <2>1. PICK p \in PauseId : /\ elicitedBy[p] = c
                             /\ response[p] = "accept"
                             /\ \A q \in PauseId : elicitedBy[q] = c => p <= q
    BY <1>1, EngineAssumption DEF Inv, GateOK, Approved
  <2>2. PICK r \in Request : /\ resumes[r] = p
                             /\ request[r] # "missing"
                             /\ joined[r] = ExecOf[elicitedBy[p]]
    BY <1>1, <2>1 DEF Inv, ResumesOK
  <2> QED BY <2>1, <2>2
<1>2. Inv => RunsOnlyApproved
  BY <1>1 DEF RunsOnlyApproved
<1> QED BY <1>2, Invariance, PTL

--------------------------------------------------------------------------------
(* What holds on the runtimes that serve calls one by one, and on those    *)
(* that interrupt the calls in flight.                                     *)

LEMMA NextQuietOK ==
  ASSUME TypeOK, CallsOK, QuietOK, [Next]_vars
  PROVE  QuietOK'
<1> USE EngineAssumption DEF TypeOK, engineVars, signalVars, requestVars, Ended
<1>1. ASSUME NEW r \in Request, ClientStep(r) \/ RequestStep(r)
      PROVE  /\ UNCHANGED <<codeExecutor, call>>
             /\ \A e \in Execution : Ended(e)' => Ended(e)
  BY <1>1 DEF ClientStep, ExecuteWithPause, Resume, ResumeMissing, Interrupt,
              RequestStep, ReturnCompleted, ReturnPaused
<1>2. ASSUME NEW d \in Call, Dispatch(d) PROVE QuietOK'
  BY <1>2 DEF Dispatch, QuietOK
<1>3. ASSUME NEW d \in Call, Elicit(d) \/ TakeResponse(d) \/ Perform(d)
      PROVE  /\ UNCHANGED <<codeExecutor, execution>>
             /\ \A c \in Call : call'[c] \in Busy => call[c] \in Busy
  BY <1>3 DEF Elicit, TakeResponse, Perform, Busy, Waiting
<1>4. ASSUME NEW e \in Execution, ExecutionStep(e) PROVE QuietOK'
  <2>1. /\ UNCHANGED codeExecutor
        /\ \E outcome \in {"completed", "failed"} :
             execution' = [execution EXCEPT ![e] = outcome]
        /\ ~codeExecutor.outlives =>
             call' = [c \in Call |-> IF c \in InFlight(e) THEN "aborted" ELSE call[c]]
    BY <1>4 DEF ExecutionStep, Complete, TimeOut, Fail, End
  <2>2. "aborted" \notin Busy
    BY DEF Busy, Waiting
  <2> QED BY <2>1, <2>2 DEF QuietOK, InFlight
<1>5. CASE UNCHANGED vars
  BY <1>5 DEF vars, QuietOK
<1>6. ASSUME NEW r \in Request, ClientStep(r) \/ RequestStep(r) PROVE QuietOK'
  BY <1>1, <1>6 DEF QuietOK
<1>7. ASSUME NEW d \in Call, Elicit(d) \/ TakeResponse(d) \/ Perform(d)
      PROVE  QuietOK'
  BY <1>3, <1>7 DEF QuietOK
<1> QED BY <1>2, <1>4, <1>5, <1>6, <1>7 DEF Next, CallStep

LEMMA QuietStep ==
  ASSUME TypeOK, QuietOK, [Next]_vars, ~codeExecutor.outlives,
         NEW c \in Call, Ended(ExecOf[c])
  PROVE  call'[c] = call[c]
<1> USE EngineAssumption DEF TypeOK, Ended
<1>1. call[c] \notin Busy
  BY DEF QuietOK
<1>2. ASSUME NEW r \in Request, ClientStep(r) \/ RequestStep(r)
      PROVE  UNCHANGED call
  BY <1>2 DEF ClientStep, ExecuteWithPause, Resume, ResumeMissing, Interrupt,
              RequestStep, ReturnCompleted, ReturnPaused
<1>3. ASSUME NEW d \in Call, CallStep(d) PROVE call'[c] = call[c]
  BY <1>1, <1>3 DEF CallStep, Dispatch, Elicit, TakeResponse, Perform, Busy, Waiting
<1>4. ASSUME NEW e \in Execution, ExecutionStep(e) PROVE call'[c] = call[c]
  BY <1>1, <1>4 DEF ExecutionStep, Complete, TimeOut, Fail, End, InFlight
<1> QED BY <1>2, <1>3, <1>4 DEF Next, vars

LEMMA QuietInvariance == Spec => []QuietOK
<1>1. Init => QuietOK
  BY DEF Init, QuietOK, Busy, Waiting
<1>2. Inv /\ QuietOK /\ [Next]_vars => QuietOK'
  BY NextQuietOK DEF Inv
<1> QED BY <1>1, <1>2, Invariance, PTL DEF Spec

(* On a runtime that interrupts the calls in flight when it reports a      *)
(* result, no tool call moves after its execution ended, whatever answers  *)
(* arrive late.                                                            *)
THEOREM NothingAfterEnd == Spec => NoEffectAfterEnd
<1>1. TypeOK /\ QuietOK /\ [Next]_vars =>
        [\A c \in Call :
           /\ ~codeExecutor.outlives
           /\ Ended(ExecOf[c])
           => call'[c] = call[c]]_vars
  BY QuietStep
<1> QED BY <1>1, TypeCorrect, QuietInvariance, PTL DEF Spec, NoEffectAfterEnd

--------------------------------------------------------------------------------

LEMMA NextSerialOK ==
  ASSUME TypeOK, PausesOK, RequestsOK, SignalsOK, CallsOK, SerialOK, [Next]_vars
  PROVE  SerialOK'
<1> USE EngineAssumption DEF TypeOK, engineVars, signalVars, requestVars
<1>1. SUFFICES ASSUME ~codeExecutor.parallel
               PROVE  OneInFlight' /\ OpenIsSignalled' /\ SignalledIsOpen'
  <2>1. UNCHANGED codeExecutor
    <3>1. ASSUME NEW r \in Request, ClientStep(r) \/ RequestStep(r)
          PROVE  UNCHANGED codeExecutor
      BY <3>1 DEF ClientStep, ExecuteWithPause, Resume, ResumeMissing, Interrupt,
                  RequestStep, ReturnCompleted, ReturnPaused
    <3>2. ASSUME NEW c \in Call, CallStep(c) PROVE UNCHANGED codeExecutor
      BY <3>2 DEF CallStep, Dispatch, Elicit, TakeResponse, Perform
    <3>3. ASSUME NEW e \in Execution, ExecutionStep(e) PROVE UNCHANGED codeExecutor
      BY <3>3 DEF ExecutionStep, Complete, TimeOut, Fail, End
    <3> QED BY <3>1, <3>2, <3>3 DEF Next, vars
  <2> QED BY <2>1 DEF SerialOK
<1>2. OneInFlight /\ OpenIsSignalled /\ SignalledIsOpen
  BY <1>1 DEF SerialOK
<1> DEFINE Goal == OneInFlight' /\ OpenIsSignalled' /\ SignalledIsOpen'
<1>3. ASSUME UNCHANGED <<execution, call, awaiting, response, pauseSignal, signalled>>
      PROVE  Goal
  BY <1>2, <1>3 DEF OneInFlight, OpenIsSignalled, SignalledIsOpen, OpenCall
<1>4. ASSUME NEW r \in Request, NEW e \in Execution, ExecuteWithPause(r, e)
      PROVE  Goal
  <2>1. /\ execution[e] = "none"
        /\ execution' = [execution EXCEPT ![e] = "running"]
        /\ pauseSignal' = [pauseSignal EXCEPT ![e] = r]
        /\ UNCHANGED <<call, awaiting, response, signalled>>
    BY <1>4 DEF ExecuteWithPause, AwaitCompletionOrPause
  <2>2. signalled[r] = NoPause
    BY <1>4 DEF ExecuteWithPause, RequestsOK
  <2>3. \A c \in Call : ExecOf[c] = e => call[c] \notin Busy
    BY <2>1 DEF CallsOK, Busy, Waiting
  <2>4. \A c \in Call : OpenCall(c)' <=> OpenCall(c)
    BY <2>1 DEF OpenCall
  <2>5. \A c \in Call : ExecOf[c] = e => ~OpenCall(c)
    BY <2>3 DEF OpenCall, Busy
  <2>6. OneInFlight'
    BY <1>2, <2>1 DEF OneInFlight
  <2>7. OpenIsSignalled'
    BY <1>2, <2>1, <2>4, <2>5 DEF OpenIsSignalled
  <2>8. SignalledIsOpen'
    BY <1>2, <2>1, <2>2, <2>4 DEF SignalledIsOpen
  <2> QED BY <2>6, <2>7, <2>8
<1>5. ASSUME NEW r \in Request, NEW p \in PauseId, NEW a \in Action,
             Resume(r, p, a)
      PROVE  Goal
  <2> DEFINE d == elicitedBy[p]
             e == ExecOf[d]
  <2>1. d \in Call /\ e \in Execution /\ response[p] = "none" /\ a # "none"
    BY <1>5 DEF Resume, PausesOK, Action
  <2>2. /\ pauseSignal' = [pauseSignal EXCEPT ![e] = r]
        /\ response' = [response EXCEPT ![p] = IF @ = "none" THEN a ELSE @]
        /\ UNCHANGED <<execution, call, awaiting, elicitedBy, signalled>>
    BY <1>5 DEF Resume, AwaitCompletionOrPause
  <2>3. signalled[r] = NoPause
    BY <1>5 DEF Resume, RequestsOK
  <2>4. execution[e] = "running" => call[d] \in Waiting /\ awaiting[d] = p
    BY <2>1 DEF CallsOK, PauseId, NoPause
  <2> HIDE DEF d, e
  <2>5. \A c \in Call : OpenCall(c)' => OpenCall(c) /\ awaiting[c] # p
    BY <2>1, <2>2 DEF OpenCall, CallsOK
  <2>6. \A c \in Call : OpenCall(c) /\ awaiting[c] # p => OpenCall(c)'
    BY <2>1, <2>2 DEF OpenCall, CallsOK
  <2>7. \A c \in Call : OpenCall(c) /\ ExecOf[c] # e => awaiting[c] # p
    BY DEF OpenCall, CallsOK, d, e
  <2>8. OneInFlight'
    BY <1>2, <2>2 DEF OneInFlight
  <2>9. OpenIsSignalled'
    <3>1. SUFFICES ASSUME NEW c \in Call, execution[ExecOf[c]] = "running",
                          OpenCall(c)'
                   PROVE  signalled[pauseSignal'[ExecOf[c]]] = awaiting[c]
      BY <2>2 DEF OpenIsSignalled
    <3>2. ExecOf[c] # e
      <4>1. SUFFICES ASSUME ExecOf[c] = e PROVE FALSE
        OBVIOUS
      <4>2. call[c] \in Waiting /\ call[d] \in Waiting /\ awaiting[d] = p
        BY <2>4, <2>5, <3>1, <4>1 DEF OpenCall
      <4>3. c = d
        BY <1>2, <2>1, <4>1, <4>2 DEF OneInFlight, Busy, e
      <4> QED BY <2>5, <3>1, <4>2, <4>3
    <3> QED BY <1>2, <2>1, <2>2, <2>5, <3>1, <3>2 DEF OpenIsSignalled
  <2>10. SignalledIsOpen'
    BY <1>2, <2>1, <2>2, <2>3, <2>6, <2>7 DEF SignalledIsOpen
  <2> QED BY <2>8, <2>9, <2>10
<1>6. ASSUME NEW c \in Call, Dispatch(c) PROVE Goal
  <2>1. /\ call' = [call EXCEPT ![c] = IF c \in Gated THEN "gate" ELSE "handling"]
        /\ InFlight(ExecOf[c]) = {}
        /\ call[c] = "idle"
        /\ UNCHANGED <<execution, awaiting, response, pauseSignal, signalled>>
    BY <1>1, <1>6 DEF Dispatch
  <2>2. \A x \in Call : OpenCall(x)' <=> OpenCall(x)
    BY <2>1 DEF OpenCall, Waiting
  <2>3. OneInFlight'
    BY <1>2, <2>1 DEF OneInFlight, InFlight
  <2> QED BY <1>2, <2>1, <2>2, <2>3 DEF OpenIsSignalled, SignalledIsOpen
<1>7. ASSUME NEW c \in Call, Elicit(c) PROVE Goal
  <2> DEFINE p == nextId + 1
             s == pauseSignal[ExecOf[c]]
  <2>1. p \in PauseId /\ elicitedBy[p] = NoCall /\ p # NoPause
    BY <1>7 DEF Elicit, PausesOK, PauseId, NoPause
  <2>2. response[p] = "none"
    BY <1>7, FreshPause DEF Elicit
  <2>3. /\ call[c] \in {"gate", "handling"}
        /\ signalled' = [signalled EXCEPT ![s] = IF @ = NoPause THEN p ELSE @]
        /\ call' = [call EXCEPT ![c] = IF @ = "gate" THEN "gateWait" ELSE "handlerWait"]
        /\ awaiting' = [awaiting EXCEPT ![c] = p]
        /\ UNCHANGED <<execution, response, pauseSignal>>
    BY <1>7 DEF Elicit
  <2>4. s \in Request /\ joined[s] = ExecOf[c]
    BY <2>3 DEF CallsOK, SignalsOK
  <2>5. \A e \in Execution : execution[e] = "running" /\ pauseSignal[e] = s
                              => e = ExecOf[c]
    BY <2>4 DEF SignalsOK
  <2>6. execution[ExecOf[c]] = "running" => signalled[s] = NoPause
    <3>1. SUFFICES ASSUME execution[ExecOf[c]] = "running", signalled[s] # NoPause
                   PROVE  FALSE
      OBVIOUS
    <3>2. PICK d \in Call : ExecOf[d] = ExecOf[c] /\ OpenCall(d)
      BY <1>2, <3>1 DEF SignalledIsOpen
    <3>3. d = c
      BY <1>2, <2>3, <3>2 DEF OneInFlight, OpenCall, Busy
    <3> QED BY <2>3, <3>2, <3>3 DEF OpenCall, Waiting
  <2> HIDE DEF p, s
  <2>7. OpenCall(c)' /\ \A d \in Call : d # c => (OpenCall(d)' <=> OpenCall(d))
    BY <2>1, <2>2, <2>3 DEF OpenCall, Waiting
  <2>8. OneInFlight'
    BY <1>2, <2>3 DEF OneInFlight, Busy
  <2>9. OpenIsSignalled'
    <3>1. SUFFICES ASSUME NEW d \in Call, execution[ExecOf[d]] = "running",
                          OpenCall(d)'
                   PROVE  signalled'[pauseSignal[ExecOf[d]]] = awaiting'[d]
      BY <2>3 DEF OpenIsSignalled
    <3>2. CASE d = c
      BY <2>3, <2>4, <2>6, <3>1, <3>2 DEF s
    <3>3. CASE d # c
      <4>1. ExecOf[d] # ExecOf[c]
        BY <1>2, <2>3, <2>7, <3>1, <3>3 DEF OneInFlight, OpenCall, Busy
      <4>2. pauseSignal[ExecOf[d]] # s
        BY <2>5, <3>1, <4>1
      <4> QED BY <1>2, <2>3, <2>7, <3>1, <3>3, <4>2 DEF OpenIsSignalled, SignalsOK
    <3> QED BY <3>2, <3>3
  <2>10. SignalledIsOpen'
    <3>1. SUFFICES ASSUME NEW e \in Execution, execution[e] = "running",
                          signalled'[pauseSignal[e]] # NoPause
                   PROVE  \E d \in Call : ExecOf[d] = e /\ OpenCall(d)'
      BY <2>3 DEF SignalledIsOpen
    <3>2. CASE e = ExecOf[c]
      BY <2>7, <3>2
    <3>3. CASE e # ExecOf[c]
      <4>1. pauseSignal[e] # s /\ pauseSignal[e] \in Request
        BY <2>5, <3>1, <3>3 DEF SignalsOK
      <4> QED BY <1>2, <2>3, <2>7, <3>1, <3>3, <4>1 DEF SignalledIsOpen
    <3> QED BY <3>2, <3>3
  <2> QED BY <2>8, <2>9, <2>10
<1>8. ASSUME NEW c \in Call, TakeResponse(c) \/ Perform(c) PROVE Goal
  <2>1. /\ call[c] \in Waiting \cup {"handling"}
        /\ ~OpenCall(c)
        /\ \E state \in {"handling", "refused", "done"} :
             call' = [call EXCEPT ![c] = state]
        /\ \A d \in Call : d # c => awaiting'[d] = awaiting[d]
        /\ UNCHANGED <<execution, response, pauseSignal, signalled>>
    BY <1>8 DEF TakeResponse, Perform, OpenCall, Waiting
  <2>2. \A d \in Call : OpenCall(d)' <=> OpenCall(d)
    BY <2>1 DEF OpenCall, Waiting
  <2>3. OneInFlight'
    BY <1>2, <2>1 DEF OneInFlight, Busy
  <2>4. OpenIsSignalled'
    BY <1>2, <2>1, <2>2 DEF OpenIsSignalled
  <2>5. SignalledIsOpen'
    BY <1>2, <2>1, <2>2 DEF SignalledIsOpen
  <2> QED BY <2>3, <2>4, <2>5
<1>9. ASSUME NEW e \in Execution, ExecutionStep(e) PROVE Goal
  <2>1. PICK stopped \in {{}, InFlight(e)} :
          /\ call' = [c \in Call |-> IF c \in stopped THEN "aborted" ELSE call[c]]
          /\ awaiting' = [c \in Call |-> IF c \in stopped THEN NoPause ELSE awaiting[c]]
    BY <1>9 DEF ExecutionStep, Complete, TimeOut, Fail, End
  <2>2. /\ \E outcome \in {"completed", "failed"} :
             execution' = [execution EXCEPT ![e] = outcome]
        /\ UNCHANGED <<response, pauseSignal, signalled>>
    BY <1>9 DEF ExecutionStep, Complete, TimeOut, Fail, End
  <2>3. \A c \in stopped : ExecOf[c] = e
    BY <2>1 DEF InFlight
  <2>4. \A c \in Call : ExecOf[c] # e => (OpenCall(c)' <=> OpenCall(c))
                                         /\ awaiting'[c] = awaiting[c]
    BY <2>1, <2>2, <2>3 DEF OpenCall
  <2>5. OneInFlight'
    BY <1>2, <2>1 DEF OneInFlight, Busy, Waiting
  <2>6. \A f \in Execution : execution'[f] = "running" => f # e /\ execution[f] = "running"
    BY <2>2
  <2>7. OpenIsSignalled'
    BY <1>2, <2>2, <2>4, <2>6 DEF OpenIsSignalled
  <2>8. SignalledIsOpen'
    BY <1>2, <2>2, <2>4, <2>6 DEF SignalledIsOpen
  <2> QED BY <2>5, <2>7, <2>8
<1>10. ASSUME NEW r \in Request, \/ \E p \in PauseId \cup {NoPause} : ResumeMissing(r, p)
                                 \/ Interrupt(r)
                                 \/ RequestStep(r)
       PROVE  UNCHANGED <<execution, call, awaiting, response, pauseSignal, signalled>>
  BY <1>10 DEF ResumeMissing, Interrupt, RequestStep, ReturnCompleted, ReturnPaused
<1>11. Goal
  <2> HIDE DEF Goal
  <2>1. ASSUME NEW r \in Request, ClientStep(r) \/ RequestStep(r) PROVE Goal
    <3>1. \/ \E e \in Execution : ExecuteWithPause(r, e)
          \/ \E p \in PauseId, a \in Action : Resume(r, p, a)
          \/ UNCHANGED <<execution, call, awaiting, response, pauseSignal, signalled>>
      BY <2>1, <1>10 DEF ClientStep
    <3> QED BY <3>1, <1>3, <1>4, <1>5
  <2>2. ASSUME NEW c \in Call, CallStep(c) PROVE Goal
    BY <2>2, <1>6, <1>7, <1>8 DEF CallStep
  <2>3. CASE UNCHANGED vars
    BY <2>3, <1>3 DEF vars
  <2> QED BY <2>1, <2>2, <2>3, <1>9 DEF Next
<1> QED BY <1>11

LEMMA SerialInvariance == Spec => []SerialOK
<1>1. Init => SerialOK
  BY EngineAssumption
  DEF Init, SerialOK, OneInFlight, OpenIsSignalled, SignalledIsOpen, OpenCall,
      Busy, Waiting
<1>2. Inv /\ SerialOK /\ [Next]_vars => SerialOK'
  BY NextSerialOK DEF Inv
<1> QED BY <1>1, <1>2, Invariance, PTL DEF Spec

(* On a runtime that serves a program's calls one by one, a running        *)
(* program with an open question has signalled that question to a request, *)
(* because resume swaps in its fresh signal before it unblocks the fiber.  *)
THEOREM SerialSurfaces == Spec => []SerialPausesSurface
<1>1. ASSUME Inv, SerialOK, ~codeExecutor.parallel, NEW e \in Execution,
             execution[e] = "running", OpenPauses(e) # {}
      PROVE  \E r \in Request : joined[r] = e /\ signalled[r] \in OpenPauses(e)
  <2>1. PICK c \in Call : c \in InFlight(e) /\ OpenCall(c)
    <3>1. PICK p : p \in OpenPauses(e)
      BY <1>1
    <3> QED BY <3>1 DEF OpenPauses, OpenCall, InFlight
  <2>2. ExecOf[c] = e /\ awaiting[c] \in OpenPauses(e)
    BY <2>1 DEF OpenPauses, OpenCall, InFlight
  <2>3. signalled[pauseSignal[e]] = awaiting[c]
    BY <1>1, <2>1, <2>2 DEF SerialOK, OpenIsSignalled
  <2> QED BY <1>1, <2>2, <2>3 DEF Inv, SignalsOK
<1>2. Inv /\ SerialOK => SerialPausesSurface
  BY <1>1 DEF SerialPausesSurface, Surfaced
<1> QED BY <1>2, Invariance, SerialInvariance, PTL

--------------------------------------------------------------------------------
(* The engine implements the protocol of ElicitationProtocol.              *)

LEMMA ApprovalAgrees ==
  ASSUME NEW c, Approved(c)
  PROVE  Protocol!Approved(c)
BY DEF Approved, Protocol!Approved, Protocol!Questions

(* Only ReturnPaused tells a client of a question.                         *)
LEMMA ReportedSame ==
  ASSUME TypeOK, RequestsOK,
         \A r \in Request : (request'[r] = "paused") <=> (request[r] = "paused"),
         \A r \in Request : request[r] = "paused" => signalled'[r] = signalled[r]
  PROVE  Reported' = Reported
BY DEF Reported

LEMMA ElicitAsks ==
  ASSUME Inv, NEW c \in Call, Elicit(c)
  PROVE  Protocol!Ask(c, nextId + 1)
<1> USE EngineAssumption DEF TypeOK, engineVars, signalVars, requestVars
<1> DEFINE p == nextId + 1
<1>1. TypeOK /\ PausesOK /\ RequestsOK /\ CallsOK /\ GateOK
  BY DEF Inv
<1>2. /\ call[c] \in {"gate", "handling"}
      /\ elicitedBy' = [elicitedBy EXCEPT ![p] = c]
      /\ call' = [call EXCEPT ![c] = IF @ = "gate" THEN "gateWait" ELSE "handlerWait"]
      /\ UNCHANGED <<response, request>>
  BY DEF Elicit
<1>3. awaiting[c] = NoPause /\ NoPause \notin PauseId
  <2>1. call[c] \notin Waiting
    BY <1>2 DEF Waiting
  <2> QED BY <1>1, <2>1 DEF CallsOK, PauseId, NoPause
<1>4. Protocol!Answered(c)
  BY <1>1, <1>2, <1>3 DEF CallsOK, Protocol!Answered, Protocol!Questions
<1>5. c \in Gated => Protocol!Questions(c) = {} \/ Protocol!Approved(c)
  <2>1. CASE call[c] = "gate"
    BY <1>1, <2>1 DEF CallsOK, Protocol!Questions
  <2>2. CASE call[c] = "handling"
    BY <1>1, <2>2, ApprovalAgrees DEF GateOK
  <2> QED BY <1>2, <2>1, <2>2
<1>6. \A q \in PauseId : elicitedBy[q] # NoCall => q < p
  BY <1>1 DEF PausesOK, PauseId
<1>7. Reported' = Reported
  <2>1. \A r \in Request : request[r] = "paused" => signalled'[r] = signalled[r]
    BY <1>1 DEF Elicit, RequestsOK
  <2> QED BY <1>1, <1>2, <2>1, ReportedSame
<1>8. {d \in Call : call'[d] = "done"} = {d \in Call : call[d] = "done"}
  BY <1>1, <1>2
<1>9. call[c] # "done"
  BY <1>2
<1> HIDE DEF p
<1> QED BY <1>2, <1>4, <1>5, <1>6, <1>7, <1>8, <1>9 DEF Protocol!Ask, p

LEMMA ReturnPausedTells ==
  ASSUME Inv, NEW r \in Request, ReturnPaused(r)
  PROVE  \E q \in PauseId : Protocol!Tell(q)
<1> DEFINE q == signalled[r]
<1>1. TypeOK /\ RequestsOK
  BY DEF Inv
<1>2. q \in PauseId /\ elicitedBy[q] # NoCall
  BY <1>1 DEF ReturnPaused, TypeOK, RequestsOK
<1>3. request' = [request EXCEPT ![r] = "paused"] /\ UNCHANGED signalled
  BY DEF ReturnPaused, signalVars
<1>4. Reported' = Reported \cup {q}
  BY <1>1, <1>3 DEF Reported, TypeOK
<1>5. UNCHANGED <<elicitedBy, response, call>>
  BY DEF ReturnPaused, engineVars
<1>6. q \notin Reported
  <2>1. request[r] # "paused" /\ q # NoPause
    BY DEF ReturnPaused
  <2>2. \A s \in Request : signalled[s] = q => s = r
    BY <2>1 DEF Inv, SignalledOnce
  <2> QED BY <2>1, <2>2 DEF Reported
<1> HIDE DEF q
<1> QED BY <1>2, <1>4, <1>5, <1>6 DEF Protocol!Tell

LEMMA ResumeAnswers ==
  ASSUME Inv, NEW r \in Request, NEW p \in PauseId, NEW a \in Action,
         Resume(r, p, a)
  PROVE  Protocol!Answer(p, a)
<1>1. TypeOK /\ PausesOK /\ RequestsOK
  BY DEF Inv
<1>2. elicitedBy[p] # NoCall /\ response[p] = "none"
  BY <1>1 DEF Resume, PausesOK
<1>3. response' = [response EXCEPT ![p] = a]
  BY <1>1, <1>2 DEF Resume, TypeOK
<1>4. /\ request[r] = "idle"
      /\ request' = [request EXCEPT ![r] = "waiting"]
      /\ UNCHANGED <<signalled, elicitedBy, call>>
  BY DEF Resume, AwaitCompletionOrPause
<1>5. Reported' = Reported
  BY <1>1, <1>4, ReportedSame DEF TypeOK
<1> QED BY <1>2, <1>3, <1>4, <1>5 DEF Protocol!Answer

LEMMA PerformPerforms ==
  ASSUME Inv, NEW c \in Call, Perform(c)
  PROVE  Protocol!Perform(c)
<1>1. TypeOK /\ CallsOK /\ GateOK
  BY DEF Inv
<1>2. /\ call[c] = "handling"
      /\ call' = [call EXCEPT ![c] = "done"]
      /\ UNCHANGED <<elicitedBy, response, request, signalled>>
  BY DEF Perform, engineVars, signalVars, requestVars
<1>3. Protocol!Answered(c)
  <2>1. awaiting[c] = NoPause /\ NoPause \notin PauseId
    <3>1. call[c] \notin Waiting
      BY <1>2 DEF Waiting
    <3> QED BY <1>1, <3>1, EngineAssumption DEF CallsOK, PauseId, NoPause
  <2> QED BY <1>1, <1>2, <2>1 DEF CallsOK, Protocol!Answered, Protocol!Questions
<1>4. c \in Gated => Protocol!Approved(c)
  BY <1>1, <1>2, ApprovalAgrees DEF GateOK
<1>5. {d \in Call : call'[d] = "done"} = {d \in Call : call[d] = "done"} \cup {c}
  BY <1>1, <1>2 DEF TypeOK
<1>6. Reported' = Reported
  BY <1>2 DEF Reported
<1> QED BY <1>2, <1>3, <1>4, <1>5, <1>6 DEF Protocol!Perform

LEMMA StepRefines ==
  ASSUME Inv, [Next]_vars
  PROVE  [Protocol!Next]_(Protocol!vars)
<1> USE DEF engineVars, signalVars, requestVars
<1>1. TypeOK /\ RequestsOK
  BY DEF Inv
<1> DEFINE Stutter == UNCHANGED Protocol!vars
<1>2. ASSUME UNCHANGED <<elicitedBy, response, signalled>>,
             {d \in Call : call'[d] = "done"} = {d \in Call : call[d] = "done"},
             \A r \in Request : (request'[r] = "paused") <=> (request[r] = "paused")
      PROVE  Stutter
  BY <1>1, <1>2, ReportedSame DEF Protocol!vars
<1>3. ASSUME NEW r \in Request, ClientStep(r)
      PROVE  Stutter \/ \E p \in PauseId, a \in Action : Resume(r, p, a)
  <2>1. CASE \/ \E e \in Execution : ExecuteWithPause(r, e)
             \/ \E p \in PauseId \cup {NoPause} : ResumeMissing(r, p)
             \/ Interrupt(r)
    <3>1. /\ UNCHANGED <<elicitedBy, response, signalled, call>>
          /\ \A q \in Request : (request'[q] = "paused") <=> (request[q] = "paused")
      BY <1>1, <2>1 DEF ExecuteWithPause, AwaitCompletionOrPause, ResumeMissing,
                        Interrupt, TypeOK
    <3> HIDE DEF Stutter
    <3> QED BY <1>2, <3>1
  <2> QED BY <1>3, <2>1 DEF ClientStep
<1>4. ASSUME NEW r \in Request, ReturnCompleted(r) PROVE Stutter
  <2>1. /\ UNCHANGED <<elicitedBy, response, signalled, call>>
        /\ \A q \in Request : (request'[q] = "paused") <=> (request[q] = "paused")
    BY <1>1, <1>4 DEF ReturnCompleted, TypeOK
  <2> HIDE DEF Stutter
  <2> QED BY <1>2, <2>1
<1>5. ASSUME NEW c \in Call, Dispatch(c) \/ TakeResponse(c) PROVE Stutter
  <2>1. /\ UNCHANGED <<elicitedBy, response, signalled, request>>
        /\ {d \in Call : call'[d] = "done"} = {d \in Call : call[d] = "done"}
    BY <1>1, <1>5 DEF Dispatch, TakeResponse, TypeOK, Waiting
  <2> HIDE DEF Stutter
  <2> QED BY <1>2, <2>1
<1>6. ASSUME NEW e \in Execution, ExecutionStep(e) PROVE Stutter
  <2>1. PICK stopped \in {{}, InFlight(e)} :
          call' = [c \in Call |-> IF c \in stopped THEN "aborted" ELSE call[c]]
    BY <1>6 DEF ExecutionStep, Complete, TimeOut, Fail, End
  <2>2. \A c \in stopped : call[c] # "done"
    BY <2>1 DEF InFlight, Busy, Waiting
  <2>3. UNCHANGED <<elicitedBy, response, signalled, request>>
    BY <1>6 DEF ExecutionStep, Complete, TimeOut, Fail, End
  <2>4. {d \in Call : call'[d] = "done"} = {d \in Call : call[d] = "done"}
    BY <2>1, <2>2
  <2> HIDE DEF Stutter
  <2> QED BY <1>2, <2>3, <2>4
<1>7. ASSUME UNCHANGED vars PROVE Stutter
  <2>1. UNCHANGED <<elicitedBy, response, signalled, request, call>>
    BY <1>7 DEF vars
  <2> HIDE DEF Stutter
  <2> QED BY <1>2, <2>1
<1>8. ASSUME NEW r \in Request, NEW p \in PauseId, NEW a \in Action, Resume(r, p, a)
      PROVE  Protocol!Next
  BY <1>8, ResumeAnswers DEF Protocol!Next
<1>9. ASSUME NEW r \in Request, ReturnPaused(r) PROVE Protocol!Next
  BY <1>9, ReturnPausedTells DEF Protocol!Next
<1>10. ASSUME NEW c \in Call, Elicit(c) PROVE Protocol!Next
  <2>1. nextId + 1 \in PauseId
    BY <1>1, <1>10, EngineAssumption DEF Elicit, TypeOK, PauseId
  <2> QED BY <1>10, <2>1, ElicitAsks DEF Protocol!Next
<1>11. ASSUME NEW c \in Call, Perform(c) PROVE Protocol!Next
  BY <1>11, PerformPerforms DEF Protocol!Next
<1> HIDE DEF Stutter
<1>12. Protocol!Next \/ Stutter
  <2>1. ASSUME NEW r \in Request, ClientStep(r) \/ RequestStep(r)
        PROVE  Protocol!Next \/ Stutter
    BY <2>1, <1>3, <1>4, <1>8, <1>9 DEF RequestStep
  <2>2. ASSUME NEW c \in Call, CallStep(c) PROVE Protocol!Next \/ Stutter
    BY <2>2, <1>5, <1>10, <1>11 DEF CallStep
  <2>3. CASE UNCHANGED vars
    BY <2>3, <1>7
  <2> QED BY <2>1, <2>2, <2>3, <1>6 DEF Next
<1> QED BY <1>12 DEF Stutter

(* A user who knows only the protocol (one question at a time per call,    *)
(* told once and answered once, nothing gated performed without an         *)
(* accepted approval) sees no other behaviour from the engine, whatever    *)
(* runtime serves it.                                                      *)
THEOREM EngineImplementsProtocol == Spec => ImplementsProtocol
<1>1. Init => Protocol!Init
  BY DEF Init, Protocol!Init, Reported
<1>2. Inv /\ [Next]_vars => [Protocol!Next]_(Protocol!vars)
  BY StepRefines
<1> QED BY <1>1, <1>2, Invariance, PTL DEF Spec, ImplementsProtocol, Protocol!Spec

================================================================================
