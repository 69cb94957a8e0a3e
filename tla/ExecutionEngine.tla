---------------------------- MODULE ExecutionEngine ----------------------------
(***************************************************************************)
(* The pause/resume half of createExecutionEngine                          *)
(* (packages/core/execution/src/engine.ts) together with what decides how  *)
(* it behaves: the approval gate in front of every tool call               *)
(* (packages/core/sdk/src/executor.ts) and the code runtime that runs the  *)
(* sandboxed program (packages/kernel/runtime-* ).                         *)
(*                                                                         *)
(* A client without inline elicitation calls executeWithPause.  The        *)
(* sandbox runs as a daemon fiber; when one of its tool calls elicits, the *)
(* engine stores a paused execution under a fresh id and signals it to the *)
(* request that is racing the fiber against the current pause signal.  The *)
(* client later calls resume with that id, which answers the elicitation   *)
(* and races again.                                                        *)
(*                                                                         *)
(* A pause signal (a Deferred) is created by exactly one executeWithPause  *)
(* or resume and awaited by that request alone, so the signals are named   *)
(* by the requests: pauseSignal[e] is the request whose signal the         *)
(* elicitation handler of e completes next.                                *)
(***************************************************************************)
EXTENDS Naturals, FiniteSets

CONSTANTS
  Execution,      \* the sandboxed programs clients submit
  Call,           \* the tool calls these programs may make
  ExecOf,         \* the program that makes a call
  Gated,          \* the calls to tools annotated requiresApproval
  Request,        \* the executeWithPause and resume calls of the clients
  CodeExecutors,  \* the code runtimes an engine may be configured with
  MaxPause,       \* bound: the pauses of one engine (nextId)
  NoCall,         \* not a call
  NoExecution,    \* not an execution
  NoRequest       \* not a request

PauseId == 1 .. MaxPause
NoPause == 0
Action  == {"accept", "decline", "cancel"}

(***************************************************************************)
(* A code runtime, by what the engine can observe of it:                   *)
(*   parallel   tool calls a program makes at once are served at once;     *)
(*   outlives   a served call goes on when its execution has ended;        *)
(*   drains     a program that settles is not reported before the calls it *)
(*              did not await are served;                                  *)
(*   fails      its Effect may fail with a typed error instead of          *)
(*              succeeding with a result that carries an error.            *)
(***************************************************************************)
RuntimeProfile ==
  [parallel : BOOLEAN, outlives : BOOLEAN, drains : BOOLEAN, fails : BOOLEAN]

QuickJs ==
  [parallel |-> TRUE, outlives |-> TRUE, drains |-> TRUE, fails |-> TRUE]

DenoSubprocess ==
  [parallel |-> FALSE, outlives |-> FALSE, drains |-> TRUE, fails |-> FALSE]

DynamicWorker ==
  [parallel |-> TRUE, outlives |-> TRUE, drains |-> FALSE, fails |-> TRUE]

ASSUME EngineAssumption ==
  /\ ExecOf \in [Call -> Execution]
  /\ Gated \subseteq Call
  /\ CodeExecutors \subseteq RuntimeProfile
  /\ MaxPause \in Nat
  /\ NoCall \notin Call
  /\ NoExecution \notin Execution
  /\ NoRequest \notin Request

VARIABLES
  codeExecutor,     \* the runtime of this engine, fixed by its configuration
  execution,        \* the state of each execution's daemon fiber
  call,             \* the state of each tool call's fiber
  awaiting,         \* the pause whose response a call's fiber awaits
  nextId,           \* the last pause id issued
  elicitedBy,       \* the call a pause belongs to (its elicitationContext)
  response,         \* the value of a pause's response Deferred
  pausedExecutions, \* the keys of the engine's Map of paused executions
  pauseSignal,      \* the request whose signal an execution completes next
  signalled,        \* the pause a request's signal was completed with
  request,          \* the state of each client request
  joined,           \* the execution a request races against its signal
  resumes           \* the pause a resume request names, NoPause for an id
                    \* the engine has not issued

engineVars  == <<nextId, elicitedBy, response, pausedExecutions>>
signalVars  == <<pauseSignal, signalled>>
requestVars == <<request, joined, resumes>>
vars == <<codeExecutor, execution, call, awaiting, engineVars, signalVars,
          requestVars>>

--------------------------------------------------------------------------------

(* The pauses a request returned to its client.                            *)
Reported == {signalled[r] : r \in {q \in Request : request[q] = "paused"}}

(* A call's fiber is in the approval gate, or in the tool's own handler; in *)
(* either it may be waiting for the response to an elicitation.             *)
Waiting == {"gateWait", "handlerWait"}
Busy    == {"gate", "handling"} \cup Waiting

InFlight(e) ==
  {c \in Call : ExecOf[c] = e /\ call[c] \in Busy}

Ended(e) == execution[e] \in {"completed", "failed"}

Init ==
  /\ codeExecutor \in CodeExecutors
  /\ execution = [e \in Execution |-> "none"]
  /\ call = [c \in Call |-> "idle"]
  /\ awaiting = [c \in Call |-> NoPause]
  /\ nextId = 0
  /\ elicitedBy = [p \in PauseId |-> NoCall]
  /\ response = [p \in PauseId |-> "none"]
  /\ pausedExecutions = {}
  /\ pauseSignal = [e \in Execution |-> NoRequest]
  /\ signalled = [r \in Request |-> NoPause]
  /\ request = [r \in Request |-> "idle"]
  /\ joined = [r \in Request |-> NoExecution]
  /\ resumes = [r \in Request |-> NoPause]

--------------------------------------------------------------------------------
(* The requests.                                                           *)

(* Mutant: resume races the signal it found instead of a fresh one.        *)
AwaitStaleSignal(r, e) ==
  /\ request' = [request EXCEPT ![r] = "waiting"]
  /\ joined' = [joined EXCEPT ![r] = e]
  /\ pauseSignal' = [pauseSignal EXCEPT ![e] = IF @ = NoRequest THEN r ELSE @]
  /\ UNCHANGED signalled

(* The request becomes the one that races execution e.                     *)
AwaitCompletionOrPause(r, e) ==
  /\ request' = [request EXCEPT ![r] = "waiting"]
  /\ joined' = [joined EXCEPT ![r] = e]
  /\ pauseSignal' = [pauseSignal EXCEPT ![e] = r]
  /\ UNCHANGED signalled

(* executeWithPause: a fresh signal, the sandbox forked as a daemon, the   *)
(* race.  The forked fiber first runs after the fork returned, so its      *)
(* elicitation handler always finds the fiber variable set.                *)
ExecuteWithPause(r, e) ==
  /\ request[r] = "idle"
  /\ execution[e] = "none"
  /\ execution' = [execution EXCEPT ![e] = "running"]
  /\ AwaitCompletionOrPause(r, e)
  /\ UNCHANGED <<codeExecutor, call, awaiting, engineVars, resumes>>

(* Mutant: the Map entry outlives the resume.                              *)
ResumeKeepsEntry(r, p, a) ==
  /\ request[r] = "idle"
  /\ p \in pausedExecutions
  /\ response' = [response EXCEPT ![p] = IF @ = "none" THEN a ELSE @]
  /\ resumes' = [resumes EXCEPT ![r] = p]
  /\ AwaitCompletionOrPause(r, ExecOf[elicitedBy[p]])
  /\ UNCHANGED <<codeExecutor, execution, call, awaiting, nextId, elicitedBy,
                 pausedExecutions>>

(* resume of an id the Map holds, from whoever names it, whether or not a  *)
(* request has returned that pause yet: the entry is deleted, a fresh      *)
(* signal swapped in, the response delivered and the fiber raced, with no  *)
(* yield before the race.                                                  *)
Resume(r, p, a) ==
  /\ request[r] = "idle"
  /\ p \in pausedExecutions
  /\ pausedExecutions' = pausedExecutions \ {p}
  /\ response' = [response EXCEPT ![p] = IF @ = "none" THEN a ELSE @]
  /\ resumes' = [resumes EXCEPT ![r] = p]
  /\ AwaitCompletionOrPause(r, ExecOf[elicitedBy[p]])
  /\ UNCHANGED <<codeExecutor, execution, call, awaiting, nextId, elicitedBy>>

(* resume of an id the Map does not hold returns null: a pause that was    *)
(* resumed before, or an id never issued, for which NoPause stands.        *)
ResumeMissing(r, p) ==
  /\ request[r] = "idle"
  /\ p <= nextId
  /\ p \notin pausedExecutions
  /\ request' = [request EXCEPT ![r] = "missing"]
  /\ resumes' = [resumes EXCEPT ![r] = p]
  /\ UNCHANGED <<codeExecutor, execution, call, awaiting, engineVars,
                 signalVars, joined>>

(* The race is won by the first side that succeeds: Effect.race waits for  *)
(* the other side when one fails.                                          *)
ReturnCompleted(r) ==
  /\ request[r] = "waiting"
  /\ execution[joined[r]] = "completed"
  /\ request' = [request EXCEPT ![r] = "completed"]
  /\ UNCHANGED <<codeExecutor, execution, call, awaiting, engineVars,
                 signalVars, joined, resumes>>

ReturnPaused(r) ==
  /\ request[r] = "waiting"
  /\ signalled[r] # NoPause
  /\ request' = [request EXCEPT ![r] = "paused"]
  /\ UNCHANGED <<codeExecutor, execution, call, awaiting, engineVars,
                 signalVars, joined, resumes>>

(* The client goes away: the race is interrupted, the daemon is not.       *)
Interrupt(r) ==
  /\ request[r] = "waiting"
  /\ request' = [request EXCEPT ![r] = "interrupted"]
  /\ UNCHANGED <<codeExecutor, execution, call, awaiting, engineVars,
                 signalVars, joined, resumes>>

--------------------------------------------------------------------------------
(* The tool calls.                                                         *)

(* Mutant: one approval in a program opens the gate for its later calls.   *)
DispatchOnceApproved(c) ==
  LET approved == \E p \in PauseId : /\ elicitedBy[p] # NoCall
                                     /\ ExecOf[elicitedBy[p]] = ExecOf[c]
                                     /\ response[p] = "accept"
  IN /\ call[c] = "idle"
     /\ execution[ExecOf[c]] = "running"
     /\ codeExecutor.parallel \/ InFlight(ExecOf[c]) = {}
     /\ call' = [call EXCEPT ![c] = IF c \in Gated /\ ~approved
                                    THEN "gate" ELSE "handling"]
     /\ UNCHANGED <<codeExecutor, execution, awaiting, engineVars, signalVars,
                    requestVars>>

(* The runtime hands a call to the invoker, which gates it on approval.    *)
Dispatch(c) ==
  /\ call[c] = "idle"
  /\ execution[ExecOf[c]] = "running"
  /\ codeExecutor.parallel \/ InFlight(ExecOf[c]) = {}
  /\ call' = [call EXCEPT ![c] = IF c \in Gated THEN "gate" ELSE "handling"]
  /\ UNCHANGED <<codeExecutor, execution, awaiting, engineVars, signalVars,
                 requestVars>>

(* The elicitation handler: a fresh id, the Map entry, the current signal  *)
(* completed (a Deferred keeps the first value it is given), and the fiber *)
(* waits for the response.  The approval gate elicits once; the tool's own *)
(* handler may elicit any number of times.                                 *)
Elicit(c) ==
  LET p == nextId + 1
      s == pauseSignal[ExecOf[c]]
  IN /\ call[c] \in {"gate", "handling"}
     /\ nextId < MaxPause
     /\ nextId' = p
     /\ elicitedBy' = [elicitedBy EXCEPT ![p] = c]
     /\ pausedExecutions' = pausedExecutions \cup {p}
     /\ signalled' = [signalled EXCEPT ![s] = IF @ = NoPause THEN p ELSE @]
     /\ call' = [call EXCEPT ![c] = IF @ = "gate" THEN "gateWait" ELSE "handlerWait"]
     /\ awaiting' = [awaiting EXCEPT ![c] = p]
     /\ UNCHANGED <<codeExecutor, execution, response, pauseSignal, requestVars>>

(* Mutant: a cancelled approval is taken for the absence of an answer.     *)
TakeResponseIgnoresCancel(c) ==
  LET accepted == response[awaiting[c]] # "decline"
  IN /\ call[c] \in Waiting
     /\ response[awaiting[c]] # "none"
     /\ \/ /\ accepted \/ call[c] = "handlerWait"
           /\ call' = [call EXCEPT ![c] = "handling"]
        \/ /\ ~accepted
           /\ call' = [call EXCEPT ![c] = "refused"]
     /\ awaiting' = [awaiting EXCEPT ![c] = NoPause]
     /\ UNCHANGED <<codeExecutor, execution, engineVars, signalVars, requestVars>>

(* The fiber takes its response.  At the gate anything but accept is an    *)
(* ElicitationDeclinedError that ends the call.  In the handler it is the  *)
(* handler's to let through or to catch, as the MCP plugin does when it    *)
(* passes the answer on to the upstream server.                            *)
TakeResponse(c) ==
  LET accepted == response[awaiting[c]] = "accept"
  IN /\ call[c] \in Waiting
     /\ response[awaiting[c]] # "none"
     /\ \/ /\ accepted \/ call[c] = "handlerWait"
           /\ call' = [call EXCEPT ![c] = "handling"]
        \/ /\ ~accepted
           /\ call' = [call EXCEPT ![c] = "refused"]
     /\ awaiting' = [awaiting EXCEPT ![c] = NoPause]
     /\ UNCHANGED <<codeExecutor, execution, engineVars, signalVars, requestVars>>

(* The tool's handler has done its work.                                   *)
Perform(c) ==
  /\ call[c] = "handling"
  /\ call' = [call EXCEPT ![c] = "done"]
  /\ UNCHANGED <<codeExecutor, execution, awaiting, engineVars, signalVars,
                 requestVars>>

--------------------------------------------------------------------------------
(* The ends of an execution.                                               *)

(* Mutant: the calls in flight are never interrupted.                      *)
EndLeavesCalls(e, outcome) ==
  /\ execution[e] = "running"
  /\ execution' = [execution EXCEPT ![e] = outcome]
  /\ UNCHANGED <<codeExecutor, call, awaiting, engineVars, signalVars, requestVars>>

(* A runtime whose calls do not outlive the execution interrupts those in  *)
(* flight before it reports.                                               *)
End(e, outcome) ==
  LET stopped == IF codeExecutor.outlives THEN {} ELSE InFlight(e)
  IN /\ execution[e] = "running"
     /\ execution' = [execution EXCEPT ![e] = outcome]
     /\ call' = [c \in Call |-> IF c \in stopped THEN "aborted" ELSE call[c]]
     /\ awaiting' = [c \in Call |-> IF c \in stopped THEN NoPause ELSE awaiting[c]]
     /\ UNCHANGED <<codeExecutor, engineVars, signalVars, requestVars>>

(* The program settles and the runtime reports its result.                 *)
Complete(e) ==
  /\ codeExecutor.drains => InFlight(e) = {}
  /\ End(e, "completed")

(* Mutant: the deadline does not run while a call waits for an answer.     *)
TimeOutUnlessPaused(e) ==
  /\ \A c \in InFlight(e) : call[c] \notin Waiting
  /\ End(e, "completed")

(* The deadline passes, which counts the time spent paused, or the sandbox *)
(* dies: the result carries an error.                                      *)
TimeOut(e) == End(e, "completed")

(* The runtime's Effect fails with its typed error.                        *)
Fail(e) == codeExecutor.fails /\ End(e, "failed")

--------------------------------------------------------------------------------

ClientStep(r) ==
  \/ \E e \in Execution : ExecuteWithPause(r, e)
  \/ \E p \in PauseId, a \in Action : Resume(r, p, a)
  \/ \E p \in PauseId \cup {NoPause} : ResumeMissing(r, p)
  \/ Interrupt(r)

RequestStep(r) == ReturnCompleted(r) \/ ReturnPaused(r)

CallStep(c) == Dispatch(c) \/ Elicit(c) \/ TakeResponse(c) \/ Perform(c)

ExecutionStep(e) == Complete(e) \/ TimeOut(e) \/ Fail(e)

Next == \/ \E r \in Request : ClientStep(r) \/ RequestStep(r)
        \/ \E c \in Call : CallStep(c)
        \/ \E e \in Execution : ExecutionStep(e)

(* The event loop runs every fiber that can run, and every runtime arms a  *)
(* deadline.  Clients owe nothing, and a program need not end by itself.   *)
Fairness ==
  /\ \A r \in Request : WF_vars(RequestStep(r))
  /\ \A c \in Call : WF_vars(TakeResponse(c)) /\ WF_vars(Perform(c))
  /\ \A e \in Execution : WF_vars(TimeOut(e))

Spec == Init /\ [][Next]_vars

FairSpec == Spec /\ Fairness
--------------------------------------------------------------------------------
(* Properties.                                                             *)

CallState == {"idle", "done", "refused", "aborted"} \cup Busy

(* Types of the variables.                                                 *)
TypeOK ==
  /\ codeExecutor \in CodeExecutors
  /\ execution \in [Execution -> {"none", "running", "completed", "failed"}]
  /\ call \in [Call -> CallState]
  /\ awaiting \in [Call -> PauseId \cup {NoPause}]
  /\ nextId \in 0 .. MaxPause
  /\ elicitedBy \in [PauseId -> Call \cup {NoCall}]
  /\ response \in [PauseId -> Action \cup {"none"}]
  /\ pausedExecutions \subseteq PauseId
  /\ pauseSignal \in [Execution -> Request \cup {NoRequest}]
  /\ signalled \in [Request -> PauseId \cup {NoPause}]
  /\ request \in [Request -> {"idle", "waiting", "completed", "paused",
                              "missing", "interrupted"}]
  /\ joined \in [Request -> Execution \cup {NoExecution}]
  /\ resumes \in [Request -> PauseId \cup {NoPause}]

(* Of the resumes that name one pause, however many clients or retries     *)
(* send it, exactly one drives the execution on and the others get null;   *)
(* and for an id the engine has issued, a resume that gets null came after *)
(* the one that did.                                                       *)
ResumeDrivesOnce ==
  /\ \A r, s \in Request :
       /\ resumes[r] = resumes[s] /\ resumes[r] # NoPause
       /\ request[r] # "missing" /\ request[s] # "missing"
       => r = s
  /\ \A r \in Request : request[r] = "missing" /\ resumes[r] # NoPause =>
       \E s \in Request : resumes[s] = resumes[r] /\ request[s] # "missing"

(* A tool that requires approval is run only for a call whose own approval *)
(* question, the first it asked, a client accepted by naming its id; no    *)
(* answer to another call, execution or later question stands for it, and  *)
(* the resume that accepted it was the one that drove its program on.      *)
RunsOnlyApproved ==
  \A c \in Gated : call[c] \in {"handling", "handlerWait", "done"} =>
    \E p \in PauseId, r \in Request :
      /\ elicitedBy[p] = c /\ response[p] = "accept"
      /\ \A q \in PauseId : elicitedBy[q] = c => p <= q
      /\ resumes[r] = p /\ request[r] # "missing" /\ joined[r] = ExecOf[c]

(* The pauses of an execution that wait for a response.                    *)
OpenPauses(e) ==
  {awaiting[c] : c \in {d \in InFlight(e) : /\ call[d] \in Waiting
                                           /\ response[awaiting[d]] = "none"}}

(* A running program with open questions has one that was signalled to a   *)
(* request, which returns it, has returned it, or was interrupted by its   *)
(* client: there is a question the client can answer to go on.             *)
Surfaced(e) ==
  execution[e] = "running" /\ OpenPauses(e) # {} =>
    \E r \in Request : joined[r] = e /\ signalled[r] \in OpenPauses(e)

(* On a runtime that serves a program's calls one by one, a program never  *)
(* waits for an answer nobody can give.                                    *)
SerialPausesSurface ==
  ~codeExecutor.parallel => \A e \in Execution : Surfaced(e)

(* "Returns a completed result, a new pause, or null": a resumed program   *)
(* that still has an open question returns it, also when it called several *)
(* tools at once.                                                          *)
EveryPauseSurfaces == \A e \in Execution : Surfaced(e)

(* On a runtime that interrupts its calls, no tool runs for an execution   *)
(* whose result was already reported, and a late answer changes nothing.   *)
NoEffectAfterEnd ==
  [][\A c \in Call :
       /\ ~codeExecutor.outlives
       /\ Ended(ExecOf[c])
       => call'[c] = call[c]]_vars

(* A request that waits returns, with the result, with a pause, or because *)
(* the client went away, unless the Effect of its program has failed.      *)
RequestsReturn ==
  \A r \in Request :
    (request[r] = "waiting")
      ~> (request[r] # "waiting" \/ execution[joined[r]] = "failed")

(* The engine's type promises that executeWithPause and resume fail with   *)
(* the runtime's typed error, so they return whatever the runtime does.    *)
EveryRequestReturns ==
  \A r \in Request : (request[r] = "waiting") ~> (request[r] # "waiting")

(* The engine implements the protocol a user relies on.                    *)
Protocol == INSTANCE ElicitationProtocol
              WITH asked <- elicitedBy, told <- Reported, answer <- response,
                   performed <- {c \in Call : call[c] = "done"}

ImplementsProtocol == Protocol!Spec
================================================================================
