# A verification of godtool

This directory models the concurrent core of the repository in TLA+: the pause
and resume of programs, the approval of tool calls, the transactions on one
database connection, the refresh of OAuth tokens, the connections to MCP
servers, the secrets in the vault, the sources and their tools, the execution of
programs on a user's own desktop, the life of an MCP session in the cloud, the
local daemon, and the desktop's browser sessions. TLC checks each model on small
instances, and TLAPS proves the safety properties the runs check for every value of
the constants. Paths below are relative to the repository root `src/`.

## 1. The system

godtool lets an agent run TypeScript programs that call tools. A client (CLI,
MCP client, web page) submits a program to an *execution engine*, which runs it
in a *code runtime*. Each tool call leaves the sandbox and goes through the *SDK
executor*: it finds the tool, asks the user when the tool requires approval,
gets the secrets or OAuth tokens the source needs, and lets the *plugin* that
owns the source do the call. Sources, tools, connections and secrets are kept in
a database behind one *storage adapter* per executor. The whole runs in a local
daemon (CLI, desktop) or in the cloud app, where one durable object holds an MCP
session and another the web sockets of an organization's desktops.

### Inventory

For each component: the state it keeps, its operations, what makes it hard, and
what makes it correct. "Module" names the model, or the plan entry of section 7.

| Component | State | Operations | Hard | Correct when | Module |
|---|---|---|---|---|---|
| Execution engine (`packages/core/execution/src/engine.ts`) | Map of paused executions, id counter, per execution a fiber and a pause signal | executeWithPause, resume, the elicitation handler, execute | many fibers per program, clients that retry or leave, a signal swapped per request | one resume drives a pause; no gated tool without approval; every request returns | ExecutionEngine |
| Code runtimes (`packages/kernel/runtime-*`) | one sandbox per execution, a deadline | execute; dispatch of tool calls | calls in parallel or one by one; calls that outlive their program; typed failure | nothing happens for a program whose result is out | ExecutionEngine (`RuntimeProfile`) |
| Approval gate and dispatch (`packages/core/sdk/src/executor.ts`, `packages/core/execution/src/tool-invoker.ts`) | none of its own | tools.invoke | a call may ask several questions | the first question is the approval, and was accepted | ExecutionEngine, ElicitationProtocol |
| Storage adapter and router (`packages/core/storage-drizzle/src/adapter.ts`, `executor.ts`) | one connection, the active transaction in a fiber-local | create, update, delete, transaction | fibers of one executor share the connection; interruption | all or nothing; what was acknowledged stays | StorageTransactions |
| Connections and tokens (`executor.ts`, `packages/plugins/oauth2`) | connection rows, secrets, refreshInFlight | accessToken, create, remove, updateTokens | concurrent refreshes, rotating refresh tokens, transactions cut off | one refresh at a time; the stored refresh token is good | ConnectionTokens |
| Sources, tools, secrets of the executor | source and tool rows, the plugins' own rows, secret routing | register, unregister, remove, refresh, tools.invoke; secrets.set / get / remove | a source is rows of two owners, written in many statements; scopes shadow each other; partial failure | the listed tools and the plugin's rows are of one registration; a secret listed is one that resolves | SourceCatalog; VaultSecrets (one provider) |
| Scopes and blobs (`scoped-adapter.ts`, `blob.ts`) | none | filters on queries | innermost scope wins | no row of another scope | not planned |
| Storage core, file and Postgres stores | none | row conversion, file I/O | blob store outside the pool's discipline | round trip | not planned |
| MCP plugin (`packages/plugins/mcp/src/sdk`) | cached client connections; source and binding rows | invoke, discover; add, remove, refresh, update | a cached connection shared by calls; retry | a question reaches the client of its own call; nobody gets another's credentials | McpConnections, SourceCatalog |
| OpenAPI plugin (`packages/plugins/openapi/src/sdk`) | source, operation and binding rows | add, remove, refresh, update, bind, invoke | a re-registration drops and rewrites the rows; credentials bound by name | credentials stay with the source they were bound to | SourceCatalog, ConnectionTokens (token refresh) |
| GraphQL, Google Discovery, raw plugins | source and operation rows | add, remove, refresh, invoke | a refresh without a transaction | rows agree with the core's list | SourceCatalog |
| OAuth helpers, managed auth | none | exchange, refresh, discovery | lost answers | the token endpoint's view of tokens | ConnectionTokens (server side) |
| WorkOS vault | vault objects with versions, metadata rows | set, get, delete | optimistic retry, two-step writes | what was answered holds; a listed secret has a value | VaultSecrets |
| File, keychain, 1Password secrets | a file, external programs | set, get, delete | read-modify-write without a lock | no lost write | not planned |
| Browser, computer-use, workspace plugins | none | tool definitions | - | - | not planned |
| MCP host server (`packages/hosts/mcp/src/server.ts`) | enabled tools | execute, resume tools | capabilities known late | a paused execution can be resumed | McpHost (planned) |
| Cloud device session (`apps/cloud/src/device-session.ts`, `device-code-executor.ts`) | web sockets, device records, active devices, pending RPCs | connect, execute, message, close, timeout, restart | both ends learn late of a close; a desktop shared by users | a program reaches its author's desktop; records agree with connections; every program gets an outcome | DeviceSession |
| Desktop: device connection (`apps/desktop/src/main.ts`) | auth state, timer, attempt, socket | sign in and out, sync, connect, reconnect | timers, late answers and close events in any order | one connection; never gives up while signed in | DesktopConnection |
| Desktop: browser (`apps/desktop/src/browser/session-manager.ts`) | sessions, queues, views | open, act, close, restore | close beside the queue, view limit | every view can be found and is within the limit | BrowserSessions |
| Cloud MCP session (`apps/cloud/src/mcp-session.ts`, `mcp.ts`) | in memory runtime, transport, database client; in storage owner, last activity, alarm | init, request, restore, clear, alarm | eviction at any point, the idle alarm, handlers that overlap | only a cleared session is gone; its owner alone is served; runtime and storage agree; a used session lives, an unused one is cleared | McpSession |
| Cloud API, auth, organisations | rows in external services | request handlers | external services | - | not planned |
| CLI daemon (`apps/cli/src`) | start lock, pointer and record files | ensure, run, stop, status | several processes, crashes, stale files | one start at a time; a running daemon is found | DaemonLifecycle |
| Local server | wires the SDK, engine and MCP host | HTTP handlers | that of its parts | - | through its parts |
| React client, web, marketing | user interface | - | - | - | not planned |

### How the parts interact

    client --executeWithPause/resume--> engine --execute--> runtime (QuickJS, Deno, worker, device)
                                          ^                    |
                        elicitation, pause signal              | tool call
                                          |                    v
                                          +---- approval gate, SDK executor --> plugin --> upstream
                                                     |        \
                                    storage adapter (one      accessToken --> refresh slot --> provider
                                    connection, transactions)                 (authorization server)

    edge (mcp.ts) --> MCP session durable object --> MCP host --> engine
                        storage, alarm

    cloud engine --> device-code-executor --> durable object --web socket--> desktop --> local server
                                           \-> hosted runtime when there is no answer

Everything is calls between fibers of one process, except: the database and the
authorization server (queries and fetches that may fail or be cut off), and the
desktop, which is reached by messages over a web socket that may be lost or late.

## 2. Modules

| Module | What it is |
|---|---|
| ElicitationProtocol | abstract: what the engine promises a user - a question is told once and answered once, and gated calls run only when approved |
| ExecutionEngine | the engine, the approval gate and the runtimes |
| ExecutionEngineProofs | its invariants, and that it implements ElicitationProtocol |
| MCExecutionEngine | instances: Deno and QuickJS, only QuickJS, only the dynamic worker |
| StorageTransactions, MC- | operations that share one connection of SQLite or Postgres |
| ConnectionTokens, MC-, -Proofs | the life of one connection's tokens, with its transactions |
| DeviceSession, MC-, -Proofs | the durable object, the code executor and the desktops |
| DesktopConnection | the desktop's connection loop |
| McpSession, MC-, -Proofs | the durable object of an MCP session, its storage and its memory |
| McpConnections, MC-, -Proofs | calls of MCP tools over a cache of connections |
| VaultSecrets, MC-, -Proofs | one secret: the executor's facade over the WorkOS Vault provider |
| SourceCatalog, MC- | the rows of one source: the executor's list and the tables of its plugin |
| DaemonLifecycle, MC- | the CLI's commands and daemons as processes that share files and ports |
| BrowserSessions, MC- | the desktop's named browser sessions, their queues and views |
| LocalProofs | the invariants of the programs on the user's machine: BrowserSessions, DesktopConnection, DaemonLifecycle |
| DatabaseProofs | the invariants of what is kept in the database: StorageTransactions, SourceCatalog |

ConnectionTokens contains the transaction discipline that StorageTransactions
isolates (one connection, a refused BEGIN, a Postgres body that outlives its
caller), because the tokens' hazards come from it. DeviceSession and
DesktopConnection are the two ends of a web socket; each leaves the other end
free to act at any time, so what holds in one holds whatever the other does.

A module of proofs extends the components it is about. So that LocalProofs and
DatabaseProofs can extend several, which share nothing, the specifications of
DesktopConnection, DaemonLifecycle and StorageTransactions carry a prefix:
`ConnectionSpec`, `DaemonSpec`, `StorageSpec` and so on.

### ExecutionEngine

*State.* `pausedExecutions`, `nextId`, `pauseSignal` are the engine's variables;
`response` and `signalled` are the values of its Deferreds (a Deferred keeps its
first value); `execution`, `call` and `request` are the daemon fibers, the tool
calls and the client requests. A pause signal is created by one request and
awaited by it alone, so signals are named by requests.

*Actions.* `ExecuteWithPause`, `Resume`, `ResumeMissing` are the two entry
points up to their first yield: a resume takes whatever id the Map holds, from
anyone, returned to a client before or not (ids are a counter, and the code only
looks them up), and gets null for every other id, issued or not (`NoPause` stands
for one that never was). `ReturnCompleted` and `ReturnPaused` are the two
sides of `Effect.race` (which takes the first *success*); `Interrupt` is a
client that goes away. `Dispatch`, `Elicit`, `TakeResponse`, `Perform` follow a
call through the gate (once) and its handler (any number of questions).
`Complete`, `TimeOut`, `Fail` end a program as its runtime does. A runtime is a
record of four facts read from its source: QuickJS and the dynamic worker serve
calls in parallel and let them outlive the program, Deno serves them one by one
and interrupts them; the worker does not wait for calls the program did not
await; the Effects of QuickJS and the worker can fail with a typed error.

*Properties.* `ResumeDrivesOnce`, `RunsOnlyApproved` (a gated call runs only when
its own first question was accepted by id, by the resume that drove its program
on), `SerialPausesSurface` (on Deno there is always a question the client can
answer), `NoEffectAfterEnd`, `ImplementsProtocol` (refinement, as a temporal
property), `RequestsReturn` (every request returns, or its program failed).

### StorageTransactions

*State.* The `txHolder` of the open transaction, the rows `committed` and
`pending`, each operation's fiber. SQLite: BEGIN fails when a transaction is
open, a statement of any fiber joins the open transaction, ROLLBACK is in
`catchAll`, which sees neither interruption nor defects. Postgres: the pool's
one connection makes others wait, and drizzle runs the body in a promise the
interrupt does not reach.

*Properties.* `AllOrNothing`, `AcknowledgedStays`, `FailedLeavesNothing`,
`ConnectionReleased`.

### ConnectionTokens

*State.* The authorization server (`issued`, `grantOf`, `honoured`, `rotates`),
the row and the two secrets, one program counter per operation, the
`refreshInFlight` slot of each executor. Secret values are outside the database:
ROLLBACK does not restore them. Two variables are history, which no action
reads: `cut`, some leader was issued a pair that it may not have stored, and
`clientRefused`, the lookups for which the server refused the client itself.

*Actions.* One per await of `accessToken`, `performRefresh`,
`connectionsUpdateTokens`, `create` and `remove`; the transaction's steps are
shared by the three writers. The refresh slot's check and registration are one
step (they hold the semaphore's permit), and so are the clearing of the slot and
the completion of the Deferred (`onExit`). `Refused` is the server's refusal: of
the token, when it does not honour it, or of the client whatever its token
(`invalid_client`, `unauthorized_client`), which the providers also turn into
"sign in again" (openapi `plugin.ts:1522`). The server is assumed to withdraw a
token only by rotation.

*Properties.* `SingleFlight`, `StoredIsHonoured`, `NoNeedlessReauth`,
`EveryInvokeEnds`.

### DeviceSession and DesktopConnection

In DeviceSession a handler of the durable object is one step: the awaits in it
are on the object's storage, and the input gate holds other events back
meanwhile. A connection has a `client` and a `server` end, each of which closes
on its own and tells the other late. A restart loses `pending` and the
connections. A connection may stay in `closing` after webSocketClose. The
executor's reaction is `Verdict`: 409 and 504 lead to the hosted runtime, or to
402 on a plan without it.

In DesktopConnection an action runs from one await, timer or event to the next:
`StartConnecting` stops at the read of the cookie, `NoSession` and `OpenSocket`
go on after it, with the session read before.

*Properties.* `SentToItsAuthor`, `ConnectedIsOnline`, `AwaitedIsOnline`,
`ConnectedIsFound`, `EverySentIsAnswered`; `OneConnection`, `KeepsTrying`, and
`KeepsReconnecting`, which is proved.

### McpSession

*State.* Storage (`meta`, `activity`, `alarm`) outlives an eviction; memory
(`memMeta`, `memActivity`, `initialized`, `transport`, `db`) and the open
database clients do not. Runtimes are numbered in the order of their making, so
that the model can say which runtime a transport and a client belong to. The
transport and the MCP server are set and closed together and are one variable.
Instead of the time of the last activity the model keeps its age, and instead of
the alarm's time the ticks until it. `cleared`, `raced` and `age` are history
variables: the session was cleared; two handlers built or closed at the same
time; how long ago a transport took a request.

*Actions.* An await of the object's storage admits no other event, so a handler
runs in one step up to its next other await, which is one of three: the end of a
database client (`closing`), the building of a runtime (`building`), the
transport (`serving`). A request is `Reject`ed, `Serve`d, `StaleDelete`, `Gone`
or leads to `Restore`; `Revoke` is the edge's clearSession. `Closed`, `Built`,
`BuildFails`, `Respond` and `ServeFails` are what follows; `AlarmExpires` and
`AlarmRearms` are the alarm's handler. `Tick` and `Evict` are the world's:
`Evict` may come in any state, drops memory and handlers, and leaves an alarm
whose handler did not finish due again, as the platform retries it.

*Properties.* `GoneOnlyWhenCleared`, `ServedToItsOwner`, `Coherent` (as long as
no two handlers overlapped: with overlap the code breaks it, see section 6),
`ExpiresOnlyWhenIdle`, `EventuallyCleared`, and `AlarmKept`, which is proved.

### McpConnections

*State.* `cache` is Effect's ScopedCache (external): by key a connection, a
failed opening, or the call that is opening one while others wait. `conn` says
what a connection was opened for and whose `elicit` its handler calls; a
connection is open while the cache or a call has it. A call keeps the connection
of its first attempt until it ends.

*Actions.* `Begin` and `Again` are the two `connectionCache.get`s, `Opened` and
`OpenFails` the lookup, `Use` sets the handler and sends the call, `Asks`,
`Answered`, `Replies` and `CallFails` are what the server does, `Invalidate`
drops the key before the retry, `Expire` is the time to live and the capacity.

*Properties.* `OwnElicitation` (a question reaches its call, or one that began
on the connection meanwhile, which the code cannot tell apart), `RetryOnAnother`,
`OwnCredentials`; `CallsOwnSource` does not hold (section 6).

### VaultSecrets

*State.* The three places a secret is kept in: the executor's `row`, the
provider's `meta`data row, the `object` in the vault, by scope. What became of
the object a request has read (`current`, `stale`, `gone`) stands for the
vault's version check. `promise`, `changes` and `torn` are history variables.

*Actions.* One per statement and per request to the vault, of `secretsSet` with
`upsertSecretValue` and its two kinds of retry, and of `secretsRemove`. `Fails`
ends a request at any of them: no transaction surrounds them.

*Properties.* `PromisesKept` (a request that had its scope to itself has done
what it says, whatever wreck it found, and a removal reveals the outer scope's
value), `ListedHasValue`, `RefusedAfterConflicts`.

### SourceCatalog

*State.* One namespace of one of the five plugins, by scope: the core's source
and tool rows (`core`), the plugin's source row (`config`), its row for each tool
(`ops`), and openapi's credential bindings (`bound`). Rows are named by the
registration they are from, and `spec` has what it fetched. `holder` and `saved`
are the open transaction. `calm` (requests beside whom nobody wrote the rows),
`torn` (scopes hit by one of the named hazards), a request's `missed` and a
binding's `late` are history.

*Actions.* An operation is a script, the sequence of its awaits as its source has
them: `AddOpenapi`, `RegisterManifest`, `RefreshMcp`, `InvokeTool` and so on. Each
word of a script is an action, enabled when a request is at it: `Find`, `Stored`
and `Fetch` before a transaction, `Begins` and `Commits`, the statements (`DropOps`,
`PutOps`, `Register`, `Unregister`, `Bind`, ...), and a call's `Resolve`,
`Annotate`, `Approve`, `LookUp`, `Perform`. `Fail` may end a request anywhere
and rolls its transaction back, with what others have written into it on SQLite.
A user's requests see the stack of the user and the organisation, and the
innermost row wins.

*Properties.* `CatalogAgrees` (outside transactions the tools listed and the
plugin's rows are of one registration), `RunsWhatIsListed` (a call beside which
nobody changed the rows runs the operation of the registration it found, approved
if that requires it), `BoundToItsSource` (credentials never pass to another
registration under the same name). `CatalogAgrees` excepts the scopes in `torn`:
`unregister` takes the innermost scope, whichever its caller means; googleDiscovery
ignores a failure of it when it removes, and refreshes without a transaction.
`BoundToItsSource` excepts a binding written after the source it was checked
against had gone. Without any of these exceptions TLC finds a counterexample.

### DaemonLifecycle

*State.* The `pointer` and start `lock` files of a scope, the `record` file and
the listener (`bound`) of a port, and the processes by pid. A pid is used again,
so `isPidAlive` may speak of another process. `robbed` and `excused` are history
variables for the exceptions of the properties.

*Actions.* One per file operation, request or signal of `ensureDaemon`,
`runDaemonSession`, `stopDaemon` and the status command. `Shutdown` may strike
any process anywhere; a daemon that serves then removes its files, one process
step at a time, or dies at once.

*Properties.* `StartsAlone`, `OneDaemon`. Both name the ways in which the code
gives more away: a lock removed after its dead owner was replaced; a pointer
removed or replaced under a running daemon; a start lock given up before the
daemon was up; a pointer read between a daemon's first answer and its pointer.
Without any one of these exceptions TLC finds a counterexample.

### BrowserSessions

*State.* `sessions` by name, the session objects (which outlive their entry
while a call holds them), the `queue` under each name, `visibleName` and
`viewportActive`. `abandoned` and `strayed` are history variables: sessions
closed while a call held them, and sessions shown where `hideVisible` cannot
find them.

*Actions.* A queued operation runs up to its first wait for the outside
(`BeginEnsure`, `BeginAct`, `BeginShow`, `BeginHide`, `BeginTouch`), waits for a
restore (`GoOn`), and ends (`Finish`). `Close`, `Rename` and the viewport's
actions do not go through the queue; `PageGone` is a page that goes away by
itself. `Activations` is `ensureActive` with `makeRoom`.

*Properties.* `ViewsAccounted`, `ShownIsKnown`, `ViewStaysUnderOperation`.

## 3. Runs

| Run | Instance | States | Shows |
|---|---|---|---|
| engine | 2 programs, 3 calls (2 gated), 3 requests in order, MaxPause 3, Deno or QuickJS | 347,718 | all properties of ExecutionEngine and the refinement |
| parallel_pauses | the same on QuickJS | - | violation: `EveryPauseSurfaces` |
| storage | 2 transactions and a plain write, 2 statements each, either database | 9,511 | all properties of StorageTransactions |
| tokens | 2 lookups, a re-authentication, a removal, 1 executor, either database, MaxTokens 4 | 1,102,263 | all properties of ConnectionTokens |
| device_session | 2 desktops, 3 connections (2 of one desktop), 2 users, 1 program, both plans | 347,536 | all properties of DeviceSession |
| desktop_connection | 2 users, 3 socket objects | 4,612 | all properties of DesktopConnection |
| mcp_session | 2 accounts, 3 requests, Timeout 2, Heartbeat 1, MaxEvictions 2 | 426,644 | all properties of McpSession |
| mcp_connections | 2 calls, 2 scopes, a local and a remote source, 7 connections | 1,138,484 | the properties of McpConnections |
| vault_secrets | a user and an organisation, 2 values, 2 requests, 3 attempts | 2,867,406 | the properties of VaultSecrets |
| source_catalog | a user and an organisation, 2 requests that write, 1 call, 1 tool, each of 5 plugins, either database | 3,607,006 | the properties of SourceCatalog |
| daemon | 3 pids, 1 scope, 3 ports, 3 commands besides the spawned ones | 465,794 | the properties of DaemonLifecycle |
| browser_sessions | 2 names, 3 session objects (1 closed), 2 calls, room for 1 view | 683,025 | the properties of BrowserSessions |

*Why the bounds are enough.* Two calls of one program are what it takes to lose
a pause, three requests are an execute, a resume and a retried resume, three
pauses let one call ask twice while another asks. The dynamic worker is left out
of the run because it does nothing that QuickJS may not: that it does not wait
for calls in flight lets `Complete` end a program sooner, which `TimeOut` does
with the same outcome at any time. Two transactions and a plain
write give every pair of interleaved operations; two statements make "half way"
exist. Two lookups give a leader and a waiter, or two leaders on two executors;
the re-authentication and the removal each overlap both. Four token pairs are
the first, the re-authentication's and one refresh of each lookup. Three
connections are a desktop that reconnects next to a desktop that does not; two
users can take turns at one. Three socket objects are the current one, one that
is closing and one to open. Three requests of an MCP session are the one that
opens it and two that overlap, next to the alarm; two evictions are one during
some work and one during what recovers from it; with a timeout of two heartbeats
the alarm finds the session in use before it finds it idle. Two calls on one key
give the one that opens and the one that waits, the failing one and the one
whose new connection it drops; two calls hold at most four connections and the
cache two, so seven are never exhausted. Two requests give every pair of set and
remove; three attempts are the code's own number. Two writers of one source give
every pair of its operations over a shadowed and a shadowing scope, half way
through each other, beside a call; one tool is listed, is not, or changes its
need of approval. Three processes are a dead owner of a lock and the two that
take it from him, or two commands and a spawned daemon; three ports the default
one and one for each of two daemons beside it. Two names and three objects let
one session be closed and another made under its name while a call holds the
first; a limit of one makes every second view need room. The theorems of section
5 have no such bounds.

*Deadlock* is not checked: in every model clients owe nothing, so a state in
which all have finished, or nobody asks for anything, is a legal end. That work
under way does not get stuck is what the liveness properties say.

*Symmetry* is used by the runs without a liveness property: daemon (pids, and
the ports but the default one), browser_sessions (names, session objects,
calls), vault_secrets (values, requests) and source_catalog (users, writers,
callers, tools). No definition of these modules tells two of them apart but by
equality; a `CHOOSE` over them is on a set with one element, or, in `Dead`,
fills a field that is not read. Under a liveness property symmetry would be
unsound. The engine run, which has one, numbers its requests and explores with
the *constraint* `Sorted` the behaviours in which requests of one kind have
neighbouring numbers: resumes of a later pause after those of an earlier one,
all after the executes. A request's kind is fixed when it starts, nothing tells
two requests apart but by equality, and their start carries no fairness; so each
behaviour becomes a sorted one, whole, when its requests are renamed, and the
properties, which quantify over all requests, say the same of both. The
McpConnections runs use a *view*, which names a connection by what it was opened
for and who has it: a closed connection is like any other closed one, and the
choice of the next is immaterial. That of SourceCatalog leaves out what was
fetched for registrations of which no row and no request is left, and the `calm`
of requests that are over.

*Type invariants* are proved for all eleven modules. DaemonTypes.cfg,
BrowserTypes.cfg and CatalogTypes.cfg have TLC check three of them as well, on the
instances of the runs.

## 4. Fairness

| Module | Weak fairness of | Justified by |
|---|---|---|
| ExecutionEngine | ReturnCompleted / ReturnPaused, TakeResponse, Perform | the event loop runs every fiber that can run |
| | TimeOut | each runtime arms a deadline (DEFAULT_TIMEOUT_MS, 5 minutes) |
| StorageTransactions | Statement, End | a query is answered, and the body of a transaction goes on |
| ConnectionTokens | the steps of accessToken and of the writes | queries are answered; the OAuth helpers give the token request 20 seconds. The MCP plugin's refreshAuthorization has no deadline of its own and relies on the fetch's: should the platform's fetch hang for ever, so does every later lookup of the connection |
| DeviceSession | TimeOut | the durable object's timer, DEVICE_RPC_TIMEOUT_MS |
| DesktopConnection | StartConnecting, NoSession, OpenSocket, the end of a close | timers fire, the cookie store answers, a closing web socket gets closed |
| McpSession | Step(p): Closed, Built, BuildFails | a database client ends (`sql.end` with timeout 0, its failure caught), a runtime gets built or fails (`connect_timeout` 10) |
| | AlarmExpires / AlarmRearms | the platform runs an alarm that is due, and again if its handler was cut off |
| | Tick | time passes |

McpConnections, VaultSecrets, SourceCatalog, DaemonLifecycle and BrowserSessions
state safety only and assume no fairness. The counterexample configurations of
section 6 that are about liveness use the fairness of their module.

Nothing is assumed of clients, of programs (they may run until their deadline),
of users, or of the network: no connection must succeed and no message arrive.

## 5. Theorems

All are proved by TLAPS for every value of the constants that satisfies the
modules' assumptions (which state the shapes of the constants, no bounds on
their sizes).

**ExecutionEngineProofs.** `TypeCorrect`, `ResumeOnce`, `GateHolds`,
`SerialSurfaces`, `NothingAfterEnd`, `EngineImplementsProtocol`. None of the
properties is inductive. The invariant joins: `PausesOK` (the Map holds exactly
the issued pauses without an answer), `SignalledOnce` (no pause is signalled to two
requests), `RequestsOK` and `SignalsOK` (a signal holds a pause of the execution its request
races, and the current signal of an execution is that of such a request),
`CallsOK` (which questions a call has asked, by where its fiber is: it awaits at
most one of them and the others are answered), `GateOK` (a gated call past its
gate had its first question accepted) and `ResumesOK` (an answered pause has
exactly one resume that drove it). Two more are proved on top of it: `SerialOK`,
that a runtime which serves one call at a time has at most one in flight, and
that the current signal of its execution holds exactly the pause this call has
open; and `QuietOK`, that an ended execution of a runtime that interrupts its
calls has none in flight. The refinement maps a question to a pause, "told" to
the pauses returned to some client, and every step to a step of the protocol or
to a stutter: a question is told at most once (`SignalledOnce`) and answered at
most once, by whoever names it, told or not.

**DatabaseProofs, StorageTransactions.** `StorageTypeCorrect`, `Atomicity`, `Durability`,
`CleanFailure`. The invariant says how the holder, the transaction states and
the callers' states agree (`TxOK`), and where the rows of a transaction are
(`RowsOK`): pending while it is open, all its executed statements among them; on
disk, if at all, when it is over, and then all of them.

**DatabaseProofs, SourceCatalog.** `CatalogTypeCorrect`,
`ListedToolsAreThePlugins`, `CallsRunWhatIsListed`, `BindingsStayWithTheirSource`,
for any users, tools, requests that write and calls, for the five plugins and both
databases. None of the three properties is inductive: in the middle of a script no
table agrees with another. The argument has three layers.

- *Scripts.* A proof that followed 28 scripts by their positions would have a case
  for each. `Ordered` says instead, for an await, which others a script may still
  have before it (a BEGIN has a COMMIT, and every statement that makes the scope
  anew; what comes before `register` does not come after it; ...). Five lemmas show
  the scripts of the plugins to be in such an order, and the tail of a script in
  order is in order (`TailStep`); from there on only the *set* of awaits before a
  request (`Ahead`) matters. `HolderOK` reads off it who has the transaction.
- *Rows.* `Progress` is what the rest of a script needs to leave its scope whole: a
  weakest precondition, stated once for all scripts from the awaits before the
  request. Tables that a later statement replaces may hold anything, and the
  others hold already what they will hold. It is claimed of a writer whom nobody
  came between (`Unhit`), the holder of the transaction or a refresh of
  googleDiscovery, which has none (`Placed`). `OthersWhole` says that all other
  scopes are whole or marked by one of the named hazards; `SavedWhole` the same of
  the tables a rollback restores; `Undisturbed` that a transaction that has written
  nothing beside such a refresh still replaces all it finds; `FreshOK` that no row,
  saved row or request knows a registration that has yet to fetch, so that a fetch
  changes the meaning of none.
- *Readers.* `CallsOK`: a call beside which nobody wrote has read the rows of one
  registration, at a whole scope, and its gate is that registration's. `BoundOK`:
  a binding is of the registration whose source row is there, or the holder of the
  transaction still has the deletion of the scope's bindings before it; and the
  same of the saved tables.

TLC checked the whole invariant on the instance of the run before it was proved.

**ConnectionTokensProofs.** `TypeCorrect` and `OneRefreshAtATime` hold for any
number of executors. `RefreshTokenKept` and `NoReauthInVain` assume
`OneExecutor` (all operations run on one executor, as in the local app and in
one MCP session). `NoNeedlessReauth` is false without it, which
SharedRefreshToken.cfg shows; it excepts a pair that was lost and a refusal of
the client itself. The invariant: `Flight` ties the slots to the
leaders and the waiters to the leader of their executor; `Pairs` says that a
pair not yet stored is known to its operation alone; `Kept` that, as long as no
leader was cut off with a pair, the refresh token a leader is about to send is
honoured, and the stored one is too unless a leader holds the pair that replaced
it.

**DeviceSessionProofs.** `TypeCorrect`, `SentHome`, `OnlineWhileConnected`,
`NoneAwaitedOffline`, `ConnectedFound`. The invariant adds `SocketsOK` (a
connection the durable object has seen was opened by a session, and a device has
at most one open), `SentOK` and `SentOpened` (what is awaited, or known to a
desktop, was sent, on a connection that had been opened).

**LocalProofs, DesktopConnection.** `ConnectionTypeCorrect`,
`NeverTwoConnections`, `NeverGivesUp`. The invariant adds `AttemptAlone`: while an
attempt is between its look at the current socket and the opening of the next, no
socket is live.

**LocalProofs, BrowserSessions.** `BrowserTypeCorrect`, `ViewsAreAccounted`,
`WhatIsShownIsKnown` and the action property `ViewsStayUnderOperations`, for any
number of names, sessions and calls and any limit. A session object outlives its
entry in the map, and a call goes on with the object it has, so the invariant says
what both still agree on: the map and the objects on names (`Agreed`), and every
object that a call holds or that has a view on having been listed, or closed under
the call (`Kept`). `CallsOK` and `QueuesOK` say that queues and calls refer to each
other, and that only the head of a queue runs; `RoomKept` that no more views are
loaded than the limit. For the action property, `EvictedIsIdle` (a session with a
call in its queue is not evictable) and `StepTakes` (no queued operation takes
another view than an evictable one's) rest on `CallsOK`.

**LocalProofs, DaemonLifecycle.** `DaemonTypeCorrect`, `StartersAreAlone`,
`AtMostOneDaemon`, for any pids, scopes, ports and commands. Where no lock was
robbed and nothing excused happened: the start lock has the pid of the process
that thinks it holds it (`LockHeld`); a spawned daemon on its way is waited for by
the process that spawned it, which has the lock (`Awaited`), hence is one
(`Alone`); the pointer names the one that serves (`Announced`), and a process with
the lock has found it when it looked (`Resolved`), so it spawns no second.

**McpSessionProofs.** `TypeCorrect`, `NeverGoneUncleared`, `OwnerServed`,
`CoherentRuntime`, `AlarmAlwaysKept`, `NoEarlyExpiry`, for any number of requests
and evictions and any timeouts. The invariant: `MemoryOK` says that memory holds
what storage holds or nothing, so that losing it loses no fact; `OpeningOK` that
nothing happens beside the opening; `StoredOK` that the session's owner is in
storage until it is cleared, and `OwnerOK` which requests have passed the check
against it; `ActivityOK` that the recorded activity is no older than any
request, which is what the alarm's comparison relies on; `RuntimeOK`, as long as
no handlers overlapped, that the one handler at work on the runtime has seen no
transport set beside it and holds the one database client.

**McpConnectionsProofs.** `TypeCorrect`, `ElicitationIsOwn`, `RetryIsOnAnother`,
`CredentialsAreOwn`, for any number of calls, sources and scopes. The invariant
ties a key to what is under it: a connection in the cache was opened for a source
and scope of that key, a call's connection for those of its own key, and a
connection's handler belongs to the call that used it last; the connection of a
failed attempt is held by its call and is not in the cache's entry for its key,
because `Invalidate` dropped the entry and only unheld connections are opened.

**VaultSecretsProofs.** `TypeCorrect`, `RefusalIsEarned`, `PromisesAreKept`,
`ListedSecretsHaveValues`, for any users, values, requests and attempts. For the
second the invariant counts: a request has spent at most as many attempts as
there were changes by others since it began, and one more change is behind every
conflict it meets. It needs to know why a request's reading is out of date,
which is what `read` says. The other two rest on `InOrder`, stated for each
scope: when no request is at work the rows, the metadata and the vault are as
the last promise says (`Kept`), a request that is alone finds them as its own
steps left them (`Undisturbed`), and where no removal was torn, sets and
removals keep apart and what each set has done is there (`Whole`). That a step
in one scope leaves every other scope's part alone is a lemma of its own
(`OtherScope`).

*Model-checked only.* The liveness properties (`RequestsReturn`,
`ConnectionReleased`, `EveryInvokeEnds`, `EverySentIsAnswered`, `KeepsTrying`,
`EventuallyCleared`): proofs under fairness need ENABLED, which the prover does
not handle. No model has a recursive definition, so nothing needs induction over
data. The violations are TLC counterexamples.

## 6. What the code does not keep

Each is a configuration whose counterexample TLC prints. The first is a run of
PROJECT.json, which quotes the lines it is about; the others are kept next to the
models and run in the same way (section 9).

1. `EveryPauseSurfaces` (ParallelPauses.cfg) - two tool calls of one program
   that ask at once: the second completes a pause signal that is already
   completed, and its question is never reported (`engine.ts:604`).
2. `CallsOwnSource` (WrongSource.cfg) - the cache of MCP connections is keyed by
   the command or endpoint alone: a call runs on the server of another source
   that differs in its arguments (`invoke.ts:37`), although `plugin.ts:425` says
   "The ScopedCache's lookup key is the stringified stored source data identity."
3. `EveryRequestReturns` (RuntimeFailure.cfg) - `Effect.race` waits for the first
   success, so a typed failure of the runtime (here the dynamic worker's; that of
   QuickJS does the same) leaves executeWithPause waiting (`engine.ts:556`).
4. `RollsBack` (InterruptedTransaction.cfg) - an interrupted SQLite transaction is
   neither committed nor rolled back and stays open on the only connection
   (`adapter.ts:766`).
5. `TerminalReauth` (SharedRefreshToken.cfg) - two executors refresh with one
   rotating token, and the second tells the user to sign in although the stored
   token works (`executor.ts:1393`). A client that the server refuses for itself
   (`invalid_client`, `unauthorized_client`) is told the same, whatever its token
   (openapi `plugin.ts:1522`); the property does not count that.
6. `ReauthReplaces` (ReauthOverwritten.cfg) - a refresh that overlaps a
   re-authentication writes the old grant's tokens over the new ones
   (`executor.ts:1219`).
7. `ClearedForGood` (ClearedSessionRevived.cfg) - a session that is cleared while
   a request restores its runtime becomes live again, without a session-meta
   (`mcp-session.ts:326`).
8. `BystanderSurvives` (BystanderWiped.cfg) - a removal of the organisation's
   source by a user who has shadowed it: `unregister` finds the user's own source,
   takes it from the list and leaves the organisation's listed without its rows
   (`executor.ts:1578`; the comment on `deleteSourceById` wants that "a bystander
   scope's rows with a colliding `source_id` must survive").
9. `RefreshKeepsCredentials` (RefreshDropsCredentials.cfg) - the refresh of an
   openapi source whose headers already name bindings drops the bindings of every
   user and makes none anew (openapi `store.ts:504`). The release notes
   (`apps/cli/release-notes/next.md:63`) promise the rows for legacy inline
   secrets "instead of dropping credentials".
10. `GatedIsApproved` (UnapprovedRefresh.cfg) - a tool's row is replaced between
   the gate's reading and the plugin's: an operation that now requires approval
   runs without it (`executor.ts:2120`).

The passing runs state what holds *beside* these: `SerialPausesSurface` for the
runtime without parallel calls, `RequestsReturn` unless the program failed,
`FailedLeavesNothing` for transactions that were ended and `AcknowledgedStays`
without interruption of the caller itself, `NoNeedlessReauth` for one executor
with no pair lost and no refusal of the client itself, `Coherent` for a session whose handlers do not overlap,
`OwnCredentials` for command, endpoint and scope. In SourceCatalog,
DaemonLifecycle and BrowserSessions the exceptions are part of the properties.

## 7. Plan

Done, in this order: ExecutionEngine with ElicitationProtocol,
StorageTransactions (later with a COMMIT that fails), ConnectionTokens,
DeviceSession, DesktopConnection, McpSession, McpConnections, VaultSecrets,
DaemonLifecycle, BrowserSessions, SourceCatalog; then the proofs of `PromisesKept`
and `ListedHasValue`, and those of BrowserSessions, DaemonLifecycle and SourceCatalog.

Next, the most consequential first:

1. Two processes over one Postgres database in SourceCatalog.
2. **McpHost** (`packages/hosts/mcp/src/server.ts`), composed with the engine: the
   choice between inline and paused elicitation, made from capabilities that are
   known late; a paused execution can be resumed by the session that caused it.
3. In VaultSecrets: several providers and secrets owned by connections. In
   StorageTransactions: the transient retry, which needs keys of rows. In
   ConnectionTokens: connections without a refresh token.
4. That DesktopConnection implements the client side of DeviceSession.

## 8. Abstractions

- A program is the calls it makes, in any order; its text, arguments and results
  are not modelled, nor the discovery tools of the engine, which keep no state.
- `execute` with an inline elicitation handler is not modelled: the client
  answers inside the call, without the Map or the signals.
- A row is a pair of its operation and a statement number; queries, joins and
  scopes are left out. Statements outside a transaction commit by themselves.
- Tokens are numbers in the order of issue; their lifetime is `Expire`, which may
  happen at any time. Whether the server rotates is fixed in the initial state.
- A desktop's local run is two steps, handed over and answered; when the
  executor falls back after a 504 the program runs there *and* in the hosted
  runtime, which the code accepts and no property forbids.
- Each organization has its own durable object, so one is modelled; likewise each
  MCP session.
- The state the SDK's transport keeps in storage under a key of its own, and the
  streams that stay open after a GET was answered, are left out of McpSession,
  as is the short-lived database client that looks the organization up.
- `EventuallyCleared` starts when the opening of the session has ended: the
  session-meta is stored before the first alarm is set, and a loss of memory
  between the two leaves it in storage. `ExpiresOnlyWhenIdle` counts from the
  start of a request: one that runs for longer than the timeout is cut off by
  the alarm. A DELETE of a session that is not live leaves the database client
  of a restore that failed to the next restore or eviction.

- ScopedCache is modelled from its use: one lookup per key at a time, an entry
  that may leave at any time, a connection closed when its entry and its users
  have gone, a failed lookup kept as an entry. The plugin's close and callers
  that are interrupted are left out of McpConnections.
- VaultSecrets has one secret id, one provider that can write, and no secrets
  owned by connections. How often a missing key is waited for is left open;
  an object under a name of an older version is the object.
- SourceCatalog has one process with one connection, and one source: a namespace
  belongs to one plugin. Statements no other request can tell apart are one step
  (a register's delete and create, an upsert, the definitions of a source, which
  follow its tools in the same transaction). Left out: policies and the raw plugin's
  own question, legacy secrets inside a configuration, managed connections, the
  outer scope a configuration falls back to, the configuration file, static sources.
  Interruption and a COMMIT that fails are in StorageTransactions. A refresh may
  bring back a source that was removed while it fetched; `CatalogAgrees` holds of
  what it brings back. mcp's source row is not compared: its refresh keeps the row and
  its update may bring one back; nor is raw's, which has no hook to remove it.
- DaemonLifecycle is about one host. A file is written and read in one step, a
  daemon that serves answers within the two seconds of the probe, and the command
  restart is a stop followed by an ensure.
- In BrowserSessions, which sessions are pinned or were used in the last 30
  seconds is left open, so that makeRoom may take any unused session or none. The
  step between makeRoom and the making of the view is one of the event loop's
  microtasks and is not split. Sizes, titles, the file of the sessions, the names
  made for callers and closeAll, which runs when the app quits, are left out. The
  `finally` of a restore whose view has gone and been replaced, which may end the
  newer one's mark early, is not modelled.

## 9. Reproducing

    tlc -workers 2 -config ExecutionEngine.cfg MCExecutionEngine
    tlapm ExecutionEngineProofs.tla

and likewise for the other configurations (PROJECT.json, "runs") and proof
modules, and for the configurations of section 6:

    tlc -workers 2 -config SharedRefreshToken.cfg MCConnectionTokens

The longest runs, tokens and source_catalog, take about two minutes; DatabaseProofs
and LocalProofs take a few minutes each.
