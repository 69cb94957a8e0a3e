---------------------------- MODULE ConnectionTokens ----------------------------
(***************************************************************************)
(* The life of one OAuth connection's tokens                               *)
(* (packages/core/sdk/src/executor.ts): accessToken(id), which a plugin    *)
(* calls before it invokes a tool and which refreshes tokens that expire;  *)
(* connections.create, with which the user signs in again under the same   *)
(* ids; and connections.remove.                                            *)
(*                                                                         *)
(* Concurrent accessToken calls of one executor share a refresh: the first *)
(* registers a Deferred in refreshInFlight and leads, the others await it. *)
(* The local app has one executor; the cloud app makes one per request and *)
(* per MCP session, over one database.                                     *)
(*                                                                         *)
(* The secret values live in a secret provider, outside the database, so   *)
(* no ROLLBACK takes them back.  The database holds the connection row; how*)
(* fibers share its connection is StorageTransactions.  Not modelled: the  *)
(* scope stack, and connections without a refresh token.                   *)
(***************************************************************************)
EXTENDS Naturals

CONSTANTS
  Invoke,      \* the accessToken calls
  Reauth,      \* the connections.create calls after the user signed in again
  Remove,      \* the connections.remove calls
  Executor,    \* the executors over one database
  RunsOn,      \* the executor of an operation
  Databases,   \* the databases an executor may be configured with
  MaxTokens,   \* bound: the token pairs the authorization server issues
  NoOp         \* not an operation

Op    == Invoke \cup Reauth \cup Remove
Token == 1 .. MaxTokens
None  == 0

ASSUME ConnectionAssumption ==
  /\ Invoke \cap Reauth = {} /\ Invoke \cap Remove = {} /\ Reauth \cap Remove = {}
  /\ RunsOn \in [Op -> Executor]
  /\ Databases \subseteq {"sqlite", "pg"}
  /\ MaxTokens \in Nat \ {0}
  /\ NoOp \notin Op

VARIABLES
  database,  \* the database, fixed by configuration
  rotates,   \* whether a refresh replaces the refresh token
  issued,    \* the token pairs issued so far
  grantOf,   \* the sign-in a token pair stems from, named by its first pair
  honoured,  \* the pairs whose refresh token the authorization server accepts
  row,       \* the committed connection row, by its expires_at
  access,    \* the access token in the secret provider
  refresh,   \* the refresh token in the secret provider
  grant,     \* the sign-in of the last connections.create that committed
  pc,        \* what an operation does next
  leader,    \* the operation whose Deferred an accessToken call registered or awaits
  used,      \* the refresh token a leader read
  got,       \* the token pair an operation was issued and is to store
  outcome,   \* what the caller of an operation has been told
  slot,      \* refreshInFlight of an executor
  tx,        \* the operation whose transaction is open on an executor's connection
  cut,       \* history: a leader was issued a pair it may not have stored
  clientRefused \* history: the calls for which the server refused the client itself

serverVars == <<rotates, issued, grantOf, honoured>>
storeVars  == <<row, access, refresh, grant>>
opVars     == <<pc, leader, used, got, outcome>>
historyVars == <<cut, clientRefused>>
vars == <<database, serverVars, storeVars, opVars, slot, tx, historyVars>>

--------------------------------------------------------------------------------

InBody(i) == pc[i] \in {"access", "refresh", "commit"}

(* A fiber goes on while its caller waits; the body of a Postgres          *)
(* transaction, which drizzle runs in a promise of its own, also after it. *)
Runs(i) == \/ outcome[i] = "none"
           \/ database = "pg" /\ (InBody(i) \/ pc[i] = "begin")

(* Whether a query of i gets the connection: a Postgres pool holds one, and *)
(* a transaction keeps it.                                                 *)
Connects(i) == database = "pg" => tx[RunsOn[i]] \in {i, NoOp}

(* The row a query of i outside a transaction sees.  The one connection of *)
(* SQLite shows what the open transaction did, and connections.create      *)
(* begins by deleting the row.                                             *)
RowSeen(i) ==
  IF database = "sqlite" /\ tx[RunsOn[i]] \in Reauth THEN "absent" ELSE row

Leads(i) == leader[i] = i /\ outcome[i] = "none"

Init ==
  /\ database \in Databases
  /\ rotates \in BOOLEAN
  /\ issued = 1
  /\ grantOf = [t \in Token |-> IF t = 1 THEN 1 ELSE None]
  /\ honoured = {1}
  /\ row \in {"fresh", "expired"}
  /\ access = 1
  /\ refresh = 1
  /\ grant = 1
  /\ pc = [i \in Op |-> "idle"]
  /\ leader = [i \in Op |-> NoOp]
  /\ used = [i \in Op |-> None]
  /\ got = [i \in Op |-> None]
  /\ outcome = [i \in Op |-> "none"]
  /\ slot = [x \in Executor |-> NoOp]
  /\ tx = [x \in Executor |-> NoOp]
  /\ cut = FALSE
  /\ clientRefused = {}

Goto(i, next) == pc' = [pc EXCEPT ![i] = next]

(* The operation is over for its caller.  A leader's onExit clears its slot *)
(* and completes its Deferred, without a yield between the two.            *)
Tell(i, result) ==
  /\ outcome' = [outcome EXCEPT ![i] = IF @ = "none" THEN result ELSE @]
  /\ slot' = [x \in Executor |-> IF slot[x] = i THEN NoOp ELSE slot[x]]

(* The fiber is over too.                                                  *)
End(i, result) ==
  /\ Goto(i, "over")
  /\ Tell(i, result)
  /\ used' = [used EXCEPT ![i] = None]
  /\ got' = [got EXCEPT ![i] = None]

(* A leader that ends with a pair it has not stored.                       *)
Cut(i) ==
  /\ cut' = (cut \/ (i \in Invoke /\ got[i] # None))
  /\ UNCHANGED clientRefused

--------------------------------------------------------------------------------
(* accessToken.                                                            *)

(* The connection row is read, and with it whether to refresh.             *)
ReadRow(i) ==
  /\ pc[i] = "idle"
  /\ Connects(i)
  /\ \/ /\ RowSeen(i) = "absent"
        /\ End(i, "notFound")
     \/ /\ RowSeen(i) = "fresh"
        /\ Goto(i, "peek")
        /\ UNCHANGED <<used, got, outcome, slot>>
     \/ /\ RowSeen(i) = "expired"
        /\ Goto(i, "gate")
        /\ UNCHANGED <<used, got, outcome, slot>>
  /\ UNCHANGED <<database, serverVars, storeVars, leader, tx, historyVars>>

(* The stored access token serves, unless it has vanished.                 *)
ReadAccess(i) ==
  /\ pc[i] = "peek" /\ Runs(i)
  /\ Connects(i)
  /\ \/ /\ access # None
        /\ End(i, "ok")
     \/ /\ access = None
        /\ Goto(i, "gate")
        /\ UNCHANGED <<used, got, outcome, slot>>
  /\ UNCHANGED <<database, serverVars, storeVars, leader, tx, historyVars>>

(* Mutant: the Deferred is registered without a look at the map.           *)
GateUnchecked(i) ==
  LET x == RunsOn[i]
  IN /\ pc[i] = "gate" /\ Runs(i)
     /\ slot' = [slot EXCEPT ![x] = i]
     /\ leader' = [leader EXCEPT ![i] = i]
     /\ Goto(i, "lead")
     /\ UNCHANGED <<database, serverVars, storeVars, used, got, outcome, tx, historyVars>>

(* The concurrency gate, check and registration under one permit.          *)
Gate(i) ==
  LET x == RunsOn[i]
  IN /\ pc[i] = "gate" /\ Runs(i)
     /\ \/ /\ slot[x] = NoOp
           /\ slot' = [slot EXCEPT ![x] = i]
           /\ leader' = [leader EXCEPT ![i] = i]
           /\ Goto(i, "lead")
        \/ /\ slot[x] # NoOp
           /\ leader' = [leader EXCEPT ![i] = slot[x]]
           /\ Goto(i, "wait")
           /\ UNCHANGED slot
     /\ UNCHANGED <<database, serverVars, storeVars, used, got, outcome, tx, historyVars>>

(* Mutant: the Deferred is completed when the refresh succeeds, not onExit.*)
WakeOnSuccess(i) ==
  /\ pc[i] = "wait" /\ Runs(i)
  /\ outcome[leader[i]] = "ok"
  /\ End(i, outcome[leader[i]])
  /\ UNCHANGED <<database, serverVars, storeVars, leader, tx, historyVars>>

(* A waiter takes its leader's exit, whatever it is.                       *)
Wake(i) ==
  /\ pc[i] = "wait" /\ Runs(i)
  /\ outcome[leader[i]] # "none"
  /\ End(i, outcome[leader[i]])
  /\ UNCHANGED <<database, serverVars, storeVars, leader, tx, historyVars>>

(* performRefresh: the leader reads the refresh token.                     *)
ReadRefresh(i) ==
  /\ pc[i] = "lead" /\ Runs(i)
  /\ Connects(i)
  /\ used' = [used EXCEPT ![i] = refresh]
  /\ Goto(i, "call")
  /\ UNCHANGED <<database, serverVars, storeVars, leader, got, outcome, slot, tx, historyVars>>

(* The authorization server issues a pair; a rotating one takes the old    *)
(* refresh token out of use.                                               *)
Issue(sign) ==
  LET t == issued + 1
  IN /\ issued < MaxTokens
     /\ issued' = t
     /\ grantOf' = [grantOf EXCEPT ![t] = IF sign = None THEN t ELSE grantOf[sign]]
     /\ honoured' = IF sign = None THEN honoured \cup {t}
                    ELSE IF rotates THEN (honoured \ {sign}) \cup {t}
                    ELSE honoured
     /\ UNCHANGED rotates

(* Mutant: the map slot is cleared when the provider has answered.         *)
RefreshedClearsSlot(i) ==
  /\ pc[i] = "call" /\ Runs(i)
  /\ used[i] \in honoured
  /\ Issue(used[i])
  /\ got' = [got EXCEPT ![i] = issued + 1]
  /\ Goto(i, "find")
  /\ slot' = [slot EXCEPT ![RunsOn[i]] = NoOp]
  /\ UNCHANGED <<database, storeVars, leader, used, outcome, tx, historyVars>>

(* The provider's refresh call succeeds.                                   *)
Refreshed(i) ==
  /\ pc[i] = "call" /\ Runs(i)
  /\ used[i] \in honoured
  /\ Issue(used[i])
  /\ got' = [got EXCEPT ![i] = issued + 1]
  /\ Goto(i, "find")
  /\ UNCHANGED <<database, storeVars, leader, used, outcome, slot, tx, historyVars>>

(* The server refuses: the refresh token, or there is none (invalid_grant), *)
(* or the client whatever its token (invalid_client, unauthorized_client). *)
(* The OpenAPI plugin marks all three reauthRequired, others do not.       *)
Refused(i) ==
  /\ pc[i] = "call" /\ Runs(i)
  /\ \/ /\ used[i] \notin honoured
        /\ UNCHANGED clientRefused
     \/ /\ used[i] # None
        /\ clientRefused' = clientRefused \cup {i}
  /\ \E result \in {"reauth", "failed"} : End(i, result)
  /\ UNCHANGED <<database, serverVars, storeVars, leader, tx, cut>>

(* The call fails in another way or times out, before the server has acted *)
(* or after.                                                               *)
Unanswered(i) ==
  /\ pc[i] = "call" /\ Runs(i)
  /\ End(i, "failed")
  /\ \/ UNCHANGED <<serverVars, historyVars>>
     \/ used[i] \in honoured /\ Issue(used[i]) /\ cut' = TRUE
        /\ UNCHANGED clientRefused
  /\ UNCHANGED <<database, storeVars, leader, tx>>

(* connectionsUpdateTokens looks the row up once more.                     *)
FindRow(i) ==
  /\ pc[i] = "find" /\ Runs(i)
  /\ Connects(i)
  /\ \/ /\ RowSeen(i) # "absent"
        /\ Goto(i, "begin")
        /\ UNCHANGED <<used, got, outcome, slot, historyVars>>
     \/ /\ RowSeen(i) = "absent"
        /\ End(i, "notFound")
        /\ Cut(i)
  /\ UNCHANGED <<database, serverVars, storeVars, leader, tx>>

--------------------------------------------------------------------------------
(* connections.create and connections.remove.                              *)

(* The user has signed in again, and the plugin stores the tokens.         *)
SignIn(i) ==
  /\ pc[i] = "idle"
  /\ Issue(None)
  /\ got' = [got EXCEPT ![i] = issued + 1]
  /\ Goto(i, "begin")
  /\ UNCHANGED <<database, storeVars, leader, used, outcome, slot, tx, historyVars>>

(* The user removes the connection.                                        *)
Disconnect(i) ==
  /\ pc[i] = "idle"
  /\ Connects(i)
  /\ \/ RowSeen(i) = "absent" /\ End(i, "ok")
     \/ /\ RowSeen(i) # "absent"
        /\ Goto(i, "begin")
        /\ UNCHANGED <<used, got, outcome, slot>>
  /\ UNCHANGED <<database, serverVars, storeVars, leader, tx, historyVars>>

--------------------------------------------------------------------------------
(* The transaction in which any of the three writes.                       *)

Begin(i) ==
  /\ pc[i] = "begin" /\ Runs(i)
  /\ tx[RunsOn[i]] = NoOp
  /\ tx' = [tx EXCEPT ![RunsOn[i]] = i]
  /\ Goto(i, "access")
  /\ UNCHANGED <<database, serverVars, storeVars, leader, used, got, outcome, slot, historyVars>>

(* SQLite refuses a BEGIN while another fiber's transaction is open.       *)
BeginRefused(i) ==
  /\ pc[i] = "begin" /\ Runs(i)
  /\ database = "sqlite"
  /\ tx[RunsOn[i]] # NoOp
  /\ End(i, "failed")
  /\ Cut(i)
  /\ UNCHANGED <<database, serverVars, storeVars, leader, tx>>

(* The access token is set, or deleted, in the secret provider.            *)
SetAccess(i) ==
  /\ pc[i] = "access" /\ Runs(i)
  /\ access' = IF i \in Remove THEN None ELSE got[i]
  /\ Goto(i, "refresh")
  /\ UNCHANGED <<database, serverVars, row, refresh, grant, leader, used, got,
                 outcome, slot, tx, historyVars>>

(* Mutant: a rotated refresh token is not written back.                    *)
SetRefreshKeeps(i) ==
  /\ pc[i] = "refresh" /\ Runs(i)
  /\ refresh' = IF i \in Remove THEN None
                ELSE IF i \in Reauth THEN got[i] ELSE refresh
  /\ Goto(i, "commit")
  /\ UNCHANGED <<database, serverVars, row, access, grant, leader, used, got,
                 outcome, slot, tx, historyVars>>

(* Then the refresh token; a refresh that got none keeps the stored one.   *)
SetRefresh(i) ==
  /\ pc[i] = "refresh" /\ Runs(i)
  /\ refresh' = IF i \in Remove THEN None
                ELSE IF i \in Reauth \/ rotates THEN got[i] ELSE refresh
  /\ Goto(i, "commit")
  /\ UNCHANGED <<database, serverVars, row, access, grant, leader, used, got,
                 outcome, slot, tx, historyVars>>

Close(i) == tx' = [tx EXCEPT ![RunsOn[i]] = NoOp]

(* The row is written and the transaction committed.  A refresh whose      *)
(* answer has no expires_in leaves the expiry of the row as it was.        *)
Commit(i) ==
  /\ pc[i] = "commit" /\ Runs(i)
  /\ i \in Invoke => row # "absent"
  /\ row' \in CASE i \in Invoke -> {"fresh", row}
                [] i \in Reauth -> {"fresh"}
                [] i \in Remove -> {"absent"}
  /\ grant' = IF i \in Reauth THEN got[i] ELSE grant
  /\ Close(i)
  /\ End(i, "ok")
  /\ UNCHANGED <<database, serverVars, access, refresh, leader, historyVars>>

(* A write fails, or a refresh finds no row to update: ROLLBACK.           *)
Rollback(i) ==
  /\ InBody(i) /\ Runs(i)
  /\ \/ End(i, "failed")
     \/ pc[i] = "commit" /\ i \in Invoke /\ row = "absent" /\ End(i, "notFound")
  /\ Cut(i)
  /\ Close(i)
  /\ UNCHANGED <<database, serverVars, storeVars, leader>>

--------------------------------------------------------------------------------

(* The caller of an operation goes away.  A leader's onExit still runs, so *)
(* its waiters are interrupted with it.  A SQLite transaction stays open,  *)
(* and a Postgres one goes on.                                             *)
Interrupt(i) ==
  /\ pc[i] # "idle" /\ outcome[i] = "none"
  /\ IF InBody(i) \/ (database = "pg" /\ pc[i] = "begin")
     THEN Tell(i, "interrupted") /\ UNCHANGED <<pc, used, got>>
     ELSE End(i, "interrupted")
  /\ Cut(i)
  /\ UNCHANGED <<database, serverVars, storeVars, leader, tx>>

(* The token comes within CONNECTION_REFRESH_SKEW_MS of its expiry.        *)
Expire ==
  /\ row = "fresh"
  /\ row' = "expired"
  /\ UNCHANGED <<database, serverVars, access, refresh, grant, opVars, slot, tx, historyVars>>

--------------------------------------------------------------------------------

AccessTokenStep(i) ==
  \/ ReadAccess(i) \/ Gate(i) \/ Wake(i) \/ ReadRefresh(i)
  \/ Refreshed(i) \/ Refused(i) \/ Unanswered(i) \/ FindRow(i)

WriteStep(i) ==
  \/ Begin(i) \/ BeginRefused(i) \/ SetAccess(i) \/ SetRefresh(i)
  \/ Commit(i) \/ Rollback(i)

Next == \/ \E i \in Invoke : ReadRow(i) \/ AccessTokenStep(i)
        \/ \E i \in Reauth : SignIn(i)
        \/ \E i \in Remove : Disconnect(i)
        \/ \E i \in Op : WriteStep(i) \/ Interrupt(i)
        \/ Expire

(* Queries are answered, and the authorization server answers, refuses or  *)
(* runs into the token request's timeout.                                  *)
Fairness == \A i \in Op : WF_vars(AccessTokenStep(i)) /\ WF_vars(WriteStep(i))

Spec == Init /\ [][Next]_vars

FairSpec == Spec /\ Fairness

--------------------------------------------------------------------------------
(* Properties.                                                             *)

PcValue == {"idle", "peek", "gate", "lead", "wait", "call", "find",
            "begin", "access", "refresh", "commit", "over"}

Outcome == {"none", "ok", "notFound", "reauth", "failed", "interrupted"}

(* Types of the variables.                                                 *)
TypeOK ==
  /\ database \in Databases
  /\ rotates \in BOOLEAN
  /\ issued \in Token
  /\ grantOf \in [Token -> Token \cup {None}]
  /\ honoured \subseteq Token
  /\ row \in {"absent", "fresh", "expired"}
  /\ access \in Token \cup {None}
  /\ refresh \in Token \cup {None}
  /\ grant \in Token
  /\ pc \in [Op -> PcValue]
  /\ leader \in [Op -> Invoke \cup {NoOp}]
  /\ used \in [Op -> Token \cup {None}]
  /\ got \in [Op -> Token \cup {None}]
  /\ outcome \in [Op -> Outcome]
  /\ slot \in [Executor -> Invoke \cup {NoOp}]
  /\ tx \in [Executor -> Op \cup {NoOp}]
  /\ cut \in BOOLEAN
  /\ clientRefused \subseteq Invoke

(* "Concurrent invokes on an expired token all share one refresh": on one  *)
(* executor at most one call leads, and whom a waiter awaits either is that *)
(* leader or has already left its exit for the waiter.                     *)
SingleFlight ==
  \A i, j \in Invoke :
    /\ RunsOn[i] = RunsOn[j] /\ Leads(i) /\ Leads(j) => i = j
    /\ pc[j] = "wait" /\ leader[j] = i /\ outcome[i] = "none" =>
         slot[RunsOn[j]] = i

(* While no refresh is between the server and the store, the stored refresh *)
(* token is one the server accepts, unless a leader failed with its pair   *)
(* or was cut: no order of refreshes, sign-ins and removals loses it.      *)
StoredIsHonoured ==
  (\A i \in Invoke : Leads(i) => got[i] = None)
    => refresh \in honoured \cup {None} \/ cut

(* A leader is told that the user must sign in again.                      *)
ToldToSignIn(i) ==
  leader[i] = i /\ outcome[i] = "none" /\ outcome'[i] = "reauth"

(* On one executor, an invoke is told that the user must sign in again     *)
(* only if the connection was being removed, a pair was lost before, or    *)
(* the server refuses the client itself: no race of refreshes, sign-ins    *)
(* and removals has its refresh token refused.                             *)
NoNeedlessReauth ==
  [][\A i \in Invoke :
       ToldToSignIn(i) => used[i] = None \/ cut \/ i \in clientRefused']_vars

(* Every accessToken call ends, and so does everyone who awaits it.        *)
EveryInvokeEnds ==
  \A i \in Invoke :
    (pc[i] # "idle" /\ outcome[i] = "none") ~> (outcome[i] # "none")

(* "invalid_grant is terminal - the stored refresh token can't recover":   *)
(* when an invoke that presented a refresh token is told to sign in again, *)
(* the server does not accept the token stored at that moment, or not the  *)
(* client.                                                                 *)
TerminalReauth ==
  [][\A i \in Invoke :
       ToldToSignIn(i) /\ used[i] # None =>
         refresh \notin honoured \/ i \in clientRefused']_vars

(* "so a re-auth replaces cleanly": once the user has been told that the   *)
(* new sign-in is stored, the tokens stored are of that sign-in.           *)
ReauthReplaces ==
  \A s \in Reauth : outcome[s] = "ok" =>
    \A t \in {access, refresh} \ {None} : grantOf[t] = grant
================================================================================
