---------------------------- MODULE SourceCatalog ----------------------------
(***************************************************************************)
(* The rows of one source (one namespace) of one plugin, over the scopes of *)
(* its users: the core's source and tool rows, and the plugin's own rows.   *)
(* The executor (packages/core/sdk/src/executor.ts) and the plugins         *)
(* (openapi, googleDiscovery, mcp, graphql, raw) write them in several      *)
(* statements on the one connection of the process.                         *)
(*                                                                         *)
(* An operation is the sequence of its awaits, a script; every await is a   *)
(* step.  A user's requests see the stack <<own scope, Org>>.               *)
(***************************************************************************)
EXTENDS Naturals, Sequences

CONSTANTS
  User,      \* the users, each the innermost scope of its own stack
  Org,       \* the outer scope they share
  Writer,    \* requests that change the catalog
  Caller,    \* requests that call a tool
  Tool,      \* names of tools
  First,     \* the registrations made before
  None

ASSUME NamesAssumption ==
  /\ Org \notin User
  /\ First \notin Writer /\ Writer \cap Caller = {}
  /\ None \notin User \cup {Org, First} \cup Writer \cup Caller \cup Tool

VARIABLES
  plugin,    \* the plugin that owns the source
  database,  \* "sqlite" or "postgres"
  core,      \* per scope the registration its source and tool rows are from
  config,    \* per scope: is there the plugin's source row?
  ops,       \* per scope and tool the registration the plugin's row is from
  bound,     \* openapi_source_binding: <<source scope, target scope>>
  spec,      \* per registration what it fetched
  holder,    \* who has the open transaction
  saved,     \* the tables when it began
  request,   \* the requests
  calm,      \* history: those beside whom nobody has written the rows
  torn       \* history: scopes a known hazard has hit (see CatalogAgrees)

tables == <<core, config, ops, bound>>
rows == <<core, config, ops>>
vars == <<plugin, database, core, config, ops, bound, spec, holder, saved,
          request, calm, torn>>

Scope == User \cup {Org}
Request == Writer \cup Caller
Registration == Writer \cup {First}
Plugins == {"openapi", "google", "mcp", "graphql", "raw"}

\* A specification names tools; some of them require approval.
Specs == {s \in [tools : SUBSET Tool, gated : SUBSET Tool] :
            s.gated \subseteq s.tools}

HasOps == plugin # "raw"
-----------------------------------------------------------------------------
(* The scripts of the plugins.  "begin" and "commit" are ctx.transaction.  *)

(* Mutant: the credentials bound to the source are left.                    *)
DropOpenapiKeepsBound == <<"dropOps", "dropConfig">>

\* removeSource of openapi's store, which also makes room for a new source.
DropOpenapi == <<"dropOps", "dropConfig", "dropBound">>

\* upsertSource of openapi's store.
UpsertOpenapi == DropOpenapi \o <<"putConfig", "putOps">>

AddOpenapi == <<"fetch", "begin">> \o UpsertOpenapi
                \o <<"register", "bind", "commit">>

AddGraphql == <<"begin", "fetch", "dropOps", "dropConfig", "putConfig",
                "putOps", "register", "commit">>

\* registerManifest of googleDiscovery, for a new source and for a refresh.
RegisterManifest == <<"dropOps", "unregister", "register", "putEach",
                      "putConfig">>

AddGoogle == <<"begin", "fetch">> \o RegisterManifest \o <<"commit">>

AddMcp == <<"fetch", "begin", "dropOps", "dropConfig", "putConfig", "putOps",
            "register", "commit">>

AddRaw == <<"begin", "dropConfig", "putConfig", "register", "commit">>

AddSource == [openapi |-> AddOpenapi, graphql |-> AddGraphql,
              google |-> AddGoogle, mcp |-> AddMcp, raw |-> AddRaw]

(* Mutant: the hook of graphql forgets the rows of the operations.         *)
CleanupForgetsOps == [
  openapi |-> DropOpenapi,
  graphql |-> <<"dropConfig">>,
  google  |-> <<"dropOps", "dropConfig">>,
  mcp     |-> <<"dropOps", "dropConfig">>,
  raw     |-> <<>>]

\* The plugin's own cleanup, the hook removeSource: raw has none.
Cleanup == [
  openapi |-> DropOpenapi,
  graphql |-> <<"dropOps", "dropConfig">>,
  google  |-> <<"dropOps", "dropConfig">>,
  mcp     |-> <<"dropOps", "dropConfig">>,
  raw     |-> <<>>]

\* The plugin's extension: removeSource(namespace, scope), removeSpec.
RemoveAt == [Cleanup EXCEPT !.raw = <<"dropConfig">>]

RefreshOpenapi == <<"find", "stored", "fetch", "begin">> \o UpsertOpenapi
                    \o <<"register", "commit">>

RefreshGoogle == <<"find", "stored", "fetch">> \o RegisterManifest

\* executor.sources.refresh looks the source up first.  A hook that is not
\* there, or does nothing, leaves it at that.
RefreshSource == [openapi |-> RefreshOpenapi, google |-> RefreshGoogle,
                  graphql |-> <<"find">>, mcp |-> <<"find">>, raw |-> <<"find">>]

\* mcp's own refreshSource(namespace, scope), which keeps the config row.
RefreshMcp == <<"stored", "fetch", "begin", "dropOps", "unregister", "putOps",
                "register", "commit">>

\* mcp's updateSource reads its source row and writes it anew.  That of the
\* others changes fields of the row only, and openapi's bindings as bindAt does.
UpdateMcp == <<"stored", "putConfig">>

\* tools.invoke: mcp answers resolveAnnotations from nothing, raw has none.
InvokeTool == [p \in Plugins |->
  <<"resolve">> \o (IF p \in {"mcp", "raw"} THEN <<>>
                    ELSE <<"annotate", "approve">>)
               \o (IF p = "raw" THEN <<"perform">>
                    ELSE <<"operation", "perform">>)]

Script(kind) ==
  CASE kind = "add"       -> AddSource[plugin]
    [] kind = "remove"    -> <<"find", "begin">> \o Cleanup[plugin]
                               \o <<"deleteCore", "commit">>
    [] kind = "removeAt"  -> <<"begin">> \o RemoveAt[plugin]
                               \o <<"unregister", "commit">>
    [] kind = "refresh"   -> RefreshSource[plugin]
    [] kind = "refreshAt" -> RefreshMcp
    [] kind = "update"    -> UpdateMcp
    [] kind = "bindAt"    -> <<"stored", "bind">>
    [] kind = "invoke"    -> InvokeTool[plugin]

Kinds == {"add", "remove", "removeAt", "refresh", "invoke"}
           \cup (IF plugin = "mcp" THEN {"refreshAt", "update"} ELSE {})
           \cup (IF plugin = "openapi" THEN {"bindAt"} ELSE {})

Idle == [kind |-> "none", user |-> None, at |-> None, target |-> None,
         tool |-> None, todo |-> <<>>, seen |-> None, left |-> {},
         missed |-> FALSE, gate |-> FALSE, approved |-> FALSE,
         ran |-> None, outcome |-> "none"]

Await == {"find", "stored", "fetch", "begin", "commit", "dropOps", "dropConfig",
          "dropBound", "putConfig", "putOps", "putEach", "register", "unregister",
          "deleteCore", "bind", "resolve", "annotate", "approve", "operation",
          "perform"}

RequestType == [
  kind     : {"none", "add", "remove", "removeAt", "refresh", "refreshAt",
              "update", "bindAt", "invoke"},
  user     : User \cup {None},
  at       : Scope \cup {None},        \* the scope it names or has found
  target   : Scope \cup {None},        \* the scope of a binding's credentials
  tool     : Tool \cup {None},
  todo     : Seq(Await),               \* the awaits it has before it
  seen     : Registration \cup {None}, \* the registration it has read
  left     : SUBSET Tool,              \* tools putBinding has yet to write
  missed   : BOOLEAN,                  \* history: unregister missed its scope
  gate     : BOOLEAN,                  \* its annotations require approval
  approved : BOOLEAN,
  ran      : Registration \cup {None}, \* whose operation it runs
  outcome  : {"none", "running", "performed", "over"}]

BindingType == [source : Scope, target : Scope, made : Registration,
                late : BOOLEAN]

TypeOK ==
  /\ plugin \in Plugins
  /\ database \in {"sqlite", "postgres"}
  /\ core \in [Scope -> Registration \cup {None}]
  /\ config \in [Scope -> Registration \cup {None}]
  /\ ops \in [Scope -> [Tool -> Registration \cup {None}]]
  /\ bound \subseteq BindingType
  /\ spec \in [Registration -> Specs]
  /\ holder \in Writer \cup {None}
  /\ request \in [Request -> RequestType]
  /\ calm \subseteq Request
  /\ torn \subseteq Scope

\* The rows a registration leaves for a tool.
OpOf(v, t) == IF v # None /\ HasOps /\ t \in spec[v].tools THEN v ELSE None

\* The source is installed at some scopes.
Init ==
  /\ plugin \in Plugins
  /\ database \in {"sqlite", "postgres"}
  /\ \E s \in Specs : spec = [v \in Registration |-> s]
  /\ core \in [Scope -> {First, None}]
  /\ config = core
  /\ ops = [s \in Scope |-> [t \in Tool |-> OpOf(core[s], t)]]
  /\ bound = {}
  /\ holder = None
  /\ saved = <<>>
  /\ request = [r \in Request |-> Idle]
  /\ calm = {}
  /\ torn = {}
-----------------------------------------------------------------------------
(* findInnermost over the stack of a user: the innermost scope of S.       *)
Innermost(u, S) == IF u \in S THEN u ELSE IF Org \in S THEN Org ELSE None

Registered == {s \in Scope : core[s] # None}

\* A query has the connection unless, on Postgres, a transaction has it.
Connected(r) == database = "sqlite" \/ holder \in {None, r}

\* Request r is at the await named `step`.
At(r, step) == request[r].todo # <<>> /\ Head(request[r].todo) = step
Queries(r, step) == At(r, step) /\ Connected(r)

\* A request that is over is forgotten.
Over == [Idle EXCEPT !.outcome = "over"]
Ends(r) == request' = [request EXCEPT ![r] = Over]

\* Request r goes on to its next await, with the record R made of it.
Goes(r, R) ==
  request' = [request EXCEPT ![r] =
                IF Len(R.todo) = 1 /\ R.outcome = "running" THEN Over
                ELSE [R EXCEPT !.todo = Tail(@)]]

\* googleDiscovery refreshes without a transaction.
Bare(r) == plugin = "google" /\ request[r].kind = "refresh"
Halfway == {request[r].at : r \in {q \in Request :
              /\ Bare(q)
              /\ request[q].outcome = "running"
              /\ Head(request[q].todo) \notin {"find", "stored", "fetch"}}}

\* A statement of a script on the catalog's rows, which disturbs the others.
Writes(r) ==
  /\ calm' = calm \cap {r}
  /\ UNCHANGED <<plugin, database, spec, holder, saved>>

Scars(r) == IF Bare(r) THEN torn \cup {request[r].at} ELSE torn
-----------------------------------------------------------------------------
(* Requests.                                                              *)

Ask(r, kind, u, s, target, t) ==
  /\ request[r].outcome = "none"
  /\ kind \in Kinds
  /\ request' = [request EXCEPT ![r] =
       [Idle EXCEPT !.kind = kind, !.user = u, !.at = s, !.target = target,
                    !.tool = t, !.todo = Script(kind), !.outcome = "running"]]
  /\ UNCHANGED <<plugin, database, tables, spec, holder, saved, calm, torn>>

\* add, removeSource and refresh of an extension and updateSource name a scope
\* of the caller's stack.
AskAt(r, u) ==
  \E kind \in {"add", "removeAt", "refreshAt", "update"}, s \in {u, Org} :
    Ask(r, kind, u, s, s, None)

\* sources.remove(id) and sources.refresh(id) do not.
AskFor(r, u) ==
  \E kind \in {"remove", "refresh"} : Ask(r, kind, u, None, None, None)

\* setSourceBinding, and openapi's updateSource for the secrets it names:
\* credentials no further out than the source.
AskBinding(r, u) ==
  \E s \in {u, Org} : \E target \in {u, s} : Ask(r, "bindAt", u, s, target, None)

AskInvoke(r, u) == \E t \in Tool : Ask(r, "invoke", u, None, None, t)

\* removeSource and refreshSource look the source up, before the transaction.
Find(r) ==
  LET R == request[r]
      s == Innermost(R.user, Registered)
  IN /\ Queries(r, "find")
     /\ IF s = None THEN Ends(r) ELSE Goes(r, [R EXCEPT !.at = s])
     /\ UNCHANGED <<plugin, database, tables, spec, holder, saved, calm, torn>>

\* The plugin reads its source row: without one there is nothing to do.
Stored(r) ==
  LET R == request[r]
  IN /\ Queries(r, "stored")
     /\ IF config[R.at] = None THEN Ends(r)
        ELSE Goes(r, [R EXCEPT !.seen = config[R.at]])
     /\ UNCHANGED <<plugin, database, tables, spec, holder, saved, calm, torn>>

\* The specification, manifest or schema as it is upstream at this time.
Fetch(r) ==
  /\ At(r, "fetch")
  /\ \E s \in Specs : spec' = [spec EXCEPT ![r] = s]
  /\ Goes(r, request[r])
  /\ calm' = calm \cup {r}
  /\ UNCHANGED <<plugin, database, tables, holder, saved, torn>>

\* A request fails: a fetch, a query, or BEGIN beside an open transaction.  Its
\* transaction is rolled back, with what other requests wrote into it.
Fail(r) ==
  /\ request[r].todo # <<>>
  /\ At(r, "fetch") \/ Connected(r)
  /\ Ends(r)
  /\ IF holder = r
     THEN /\ core' = saved[1] /\ config' = saved[2]
          /\ ops' = saved[3] /\ bound' = saved[4]
          /\ torn' = saved[5] \cup Halfway
          /\ holder' = None /\ saved' = <<>>
          /\ calm' = {}
     ELSE UNCHANGED <<tables, torn, holder, saved, calm>>
  /\ UNCHANGED <<plugin, database, spec>>

Begins(r) ==
  /\ At(r, "begin")
  /\ holder = None
  /\ holder' = r
  /\ saved' = <<core, config, ops, bound, torn>>
  /\ Goes(r, request[r])
  /\ calm' = calm \cup {r}
  /\ UNCHANGED <<plugin, database, tables, spec, torn>>

\* A transaction nobody wrote into leaves the scope whole, unless it has
\* not unregistered what it meant to.
Commits(r) ==
  LET R == request[r]
  IN /\ At(r, "commit")
     /\ holder' = None /\ saved' = <<>>
     /\ Goes(r, R)
     /\ torn' = IF r \in calm /\ ~(R.kind = "removeAt" /\ R.missed)
                THEN torn \ {R.at} ELSE torn
     /\ UNCHANGED <<plugin, database, tables, spec, calm>>
-----------------------------------------------------------------------------
(* The statements.                                                        *)

DropOps(r) ==
  LET s == request[r].at
  IN /\ Queries(r, "dropOps")
     /\ ops' = [ops EXCEPT ![s] = [t \in Tool |-> None]]
     /\ torn' = Scars(r)
     /\ Goes(r, request[r])
     /\ UNCHANGED <<core, config, bound>>
     /\ Writes(r)

DropConfig(r) ==
  /\ Queries(r, "dropConfig")
  /\ config' = [config EXCEPT ![request[r].at] = None]
  /\ Goes(r, request[r])
  /\ UNCHANGED <<core, ops, bound, torn>>
  /\ Writes(r)

\* The credentials of every user, whatever their scopes.
DropBound(r) ==
  /\ Queries(r, "dropBound")
  /\ bound' = {b \in bound : b.source # request[r].at}
  /\ Goes(r, request[r])
  /\ UNCHANGED <<plugin, database, rows, spec, holder, saved, calm, torn>>

\* An update writes back what it has read.
PutConfig(r) ==
  LET R == request[r]
      v == IF R.kind = "update" THEN R.seen ELSE r
      last == Len(R.todo) = 1
  IN /\ Queries(r, "putConfig")
     /\ config' = [config EXCEPT ![R.at] = v]
     /\ torn' = IF Bare(r) /\ r \in calm THEN torn \ {R.at} ELSE Scars(r)
     /\ Goes(r, R)
     /\ UNCHANGED <<core, ops, bound>>
     /\ Writes(r)

\* createMany, which a row that is there makes fail.
PutOps(r) ==
  LET s == request[r].at
  IN /\ Queries(r, "putOps")
     /\ \A t \in spec[r].tools : ops[s][t] = None
     /\ ops' = [ops EXCEPT ![s] =
                  [t \in Tool |-> IF t \in spec[r].tools THEN r ELSE @[t]]]
     /\ Goes(r, request[r])
     /\ UNCHANGED <<core, config, bound, torn>>
     /\ Writes(r)

\* putBinding, one tool after the other.
PutEach(r) ==
  LET R == request[r]
  IN /\ Queries(r, "putEach")
     /\ \/ /\ R.left = {}
           /\ Goes(r, R)
           /\ UNCHANGED ops
        \/ \E t \in R.left :
             /\ ops' = [ops EXCEPT ![R.at][t] = r]
             /\ request' = [request EXCEPT ![r].left = @ \ {t}]
     /\ torn' = Scars(r)
     /\ UNCHANGED <<core, config, bound>>
     /\ Writes(r)

\* core.sources.register: a transaction, or part of the caller's.
Register(r) ==
  /\ At(r, "register")
  /\ holder \in {None, r}
  /\ core' = [core EXCEPT ![request[r].at] = r]
  /\ Goes(r, [request[r] EXCEPT !.left = spec[r].tools])
  /\ torn' = Scars(r)
  /\ UNCHANGED <<config, ops, bound>>
  /\ Writes(r)

\* core.sources.unregister finds the scope by itself: the innermost one.
Unregister(r) ==
  LET R == request[r]
      s == Innermost(R.user, Registered)
  IN /\ At(r, "unregister")
     /\ holder \in {None, r}
     /\ core' = IF s = None THEN core ELSE [core EXCEPT ![s] = None]
     /\ torn' = IF s \in {None, R.at} THEN Scars(r) ELSE torn \cup {s, R.at}
     /\ Goes(r, [R EXCEPT !.missed = s \notin {None, R.at}])
     /\ UNCHANGED <<config, ops, bound>>
     /\ Writes(r)

\* googleDiscovery goes on when unregister fails; in a transaction of Postgres
\* every later statement would fail too.  A removal then leaves the core's rows.
UnregisterIgnored(r) ==
  LET R == request[r]
      missed == R.kind = "removeAt"
  IN /\ Queries(r, "unregister")
     /\ plugin = "google"
     /\ database = "sqlite" \/ holder # r
     /\ Goes(r, [R EXCEPT !.missed = missed])
     /\ torn' = IF missed THEN torn \cup {R.at} ELSE torn
     /\ UNCHANGED <<plugin, database, tables, spec, holder, saved, calm>>

\* deleteSourceById in removeSource.
DeleteCore(r) ==
  /\ Queries(r, "deleteCore")
  /\ core' = [core EXCEPT ![request[r].at] = None]
  /\ Goes(r, request[r])
  /\ UNCHANGED <<config, ops, bound, torn>>
  /\ Writes(r)

\* setSourceBinding replaces the row of its scopes; an added source brings one
\* when its headers or oauth2 name secrets.
Bind(r) ==
  LET R == request[r]
      v == IF R.kind = "add" THEN r ELSE R.seen
      b == [source |-> R.at, target |-> R.target, made |-> v,
            late |-> config[R.at] # v]
      same == {c \in bound : c.source = R.at /\ c.target = R.target}
  IN /\ Queries(r, "bind")
     /\ \/ bound' = (bound \ same) \cup {b}
        \/ R.kind = "add" /\ UNCHANGED bound
     /\ Goes(r, R)
     /\ UNCHANGED <<plugin, database, rows, spec, holder, saved, calm, torn>>
-----------------------------------------------------------------------------
(* A call of a tool: every read is a query of its own.                     *)

Reads(r) ==
  UNCHANGED <<plugin, database, tables, spec, holder, saved, torn>>

Resolve(r) ==
  LET R == request[r]
      s == Innermost(R.user, {x \in Registered : R.tool \in spec[core[x]].tools})
  IN /\ Queries(r, "resolve")
     /\ IF s = None THEN Ends(r)
        ELSE Goes(r, [R EXCEPT !.at = s, !.seen = core[s]])
     /\ calm' = IF holder = None /\ s \notin torn THEN calm \cup {r}
                                                   ELSE calm
     /\ Reads(r)

\* resolveAnnotations: a tool without a row of the plugin has no annotations.
Annotate(r) ==
  LET R == request[r]
      v == ops[R.at][R.tool]
  IN /\ Queries(r, "annotate")
     /\ Goes(r, [R EXCEPT !.gate = v # None /\ R.tool \in spec[v].gated])
     /\ UNCHANGED calm
     /\ Reads(r)

\* enforceApproval: the user answers, or need not be asked.
Approve(r) ==
  /\ At(r, "approve")
  /\ \/ Goes(r, [request[r] EXCEPT !.approved = request[r].gate])
     \/ request[r].gate /\ Ends(r)
  /\ UNCHANGED calm
  /\ Reads(r)

(* Mutant: the lookup is not pinned to the scope of the tool's row.         *)
LookUpAnywhere(r) ==
  LET R == request[r]
      s == Innermost(R.user, {x \in Scope : ops[x][R.tool] # None})
  IN /\ Queries(r, "operation")
     /\ IF s = None THEN Ends(r) ELSE Goes(r, [R EXCEPT !.ran = ops[s][R.tool]])
     /\ UNCHANGED calm
     /\ Reads(r)

\* getOperationByToolId, getBinding, at the scope of the tool's row.
LookUp(r) ==
  LET R == request[r]
      v == ops[R.at][R.tool]
  IN /\ Queries(r, "operation")
     /\ IF v = None THEN Ends(r) ELSE Goes(r, [R EXCEPT !.ran = v])
     /\ UNCHANGED calm
     /\ Reads(r)

\* The source row is read, and the request sent.
Perform(r) ==
  LET R == request[r]
  IN /\ Queries(r, "perform")
     /\ IF config[R.at] = None THEN Ends(r)
        ELSE Goes(r, [R EXCEPT !.outcome = "performed"])
     /\ UNCHANGED calm
     /\ Reads(r)
-----------------------------------------------------------------------------
Write(r) ==
  \/ \E u \in User : AskAt(r, u) \/ AskFor(r, u) \/ AskBinding(r, u)
  \/ Find(r) \/ Stored(r) \/ Fetch(r) \/ Fail(r) \/ Begins(r) \/ Commits(r)
  \/ DropOps(r) \/ DropConfig(r) \/ DropBound(r)
  \/ PutConfig(r) \/ PutOps(r) \/ PutEach(r)
  \/ Register(r) \/ Unregister(r) \/ UnregisterIgnored(r) \/ DeleteCore(r)
  \/ Bind(r)

Call(r) ==
  \/ \E u \in User : AskInvoke(r, u)
  \/ Resolve(r) \/ Annotate(r) \/ Approve(r) \/ LookUp(r) \/ Perform(r)

Next == (\E r \in Writer : Write(r)) \/ (\E r \in Caller : Call(r))

Spec == Init /\ [][Next]_vars
-----------------------------------------------------------------------------
\* The rows of scope s are those of one registration.  mcp refreshes and
\* updates its config row apart from the rest, and raw never removes it.
Whole(s) ==
  LET v == core[s]
  IN /\ \A t \in Tool : ops[s][t] = OpOf(v, t)
     /\ plugin \notin {"mcp", "raw"} => (config[s] = v)

(* Outside of a transaction, at every scope that no known hazard has hit,   *)
(* the tools the core lists are those of one registration, and the plugin's *)
(* rows are of the same one; a source that is not listed has none.  The     *)
(* hazards are an unregister that hits another scope than its caller means, *)
(* or whose failure is ignored by a removal, and a refresh without a        *)
(* transaction that failed or overlapped another.                           *)
CatalogAgrees == holder = None => \A s \in Scope \ torn : Whole(s)

(* A call during which nobody changed the rows runs the operation of the    *)
(* registration in whose list it found the tool, and was approved if this   *)
(* one requires it.                                                         *)
RunsWhatIsListed ==
  HasOps => \A r \in calm :
    LET R == request[r]
    IN R.outcome = "performed" =>
         /\ R.ran = R.seen
         /\ R.tool \in spec[R.ran].gated /\ plugin # "mcp" => R.approved

(* The credentials users bind to a source never pass to another             *)
(* registration under its name, unless they were bound to one that had      *)
(* already gone.                                                            *)
BoundToItsSource ==
  holder = None => \A b \in bound : b.late \/ b.made = config[b.source]
-----------------------------------------------------------------------------
(* Stated and not checked by the runs: the code does not promise these, and *)
(* the README gives the counterexample each has.                            *)

(* A source is taken from the list of a scope by requests for this scope    *)
(* only.  unregister takes the innermost one, whichever its caller means.   *)
BystanderSurvives ==
  [][\A s \in Scope : core[s] # None /\ core'[s] = None =>
       \E r \in Writer : request[r].at = s]_vars

(* The credentials users bind to a source outlive its refresh.  The refresh *)
(* of an openapi source removes and rewrites it, without its bindings.      *)
RefreshKeepsCredentials ==
  [][\A r \in Writer : request[r].kind = "refresh" /\ DropBound(r)
       => bound' = bound]_vars

(* No operation runs unapproved that requires it when it is run: not if the *)
(* tool's row is replaced between the gate and the lookup.                  *)
GatedIsApproved ==
  plugin # "mcp" => \A r \in Caller :
    LET R == request[r]
    IN R.outcome = "performed" /\ R.ran # None =>
         (R.tool \in spec[R.ran].gated => R.approved)
=============================================================================
