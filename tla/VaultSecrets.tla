----------------------------- MODULE VaultSecrets -----------------------------
(***************************************************************************)
(* One secret of the cloud app, set and removed by several requests at a    *)
(* time: the secrets facade of the executor                                 *)
(* (packages/core/sdk/src/executor.ts), which keeps a row per scope, over    *)
(* the WorkOS Vault provider                                                *)
(* (packages/plugins/workos-vault/src/sdk/secret-store.ts), which keeps a    *)
(* metadata row and an object in the vault.  No transaction spans them:      *)
(* every statement and every request to the vault is a step, and any of them *)
(* may fail.                                                               *)
(***************************************************************************)
EXTENDS Integers, FiniteSets

CONSTANTS
  Users,        \* each has a scope of its own, inside the scope Org of all
  Org,
  Values,       \* values of the secret
  Calls,        \* requests that may be outstanding at the same time
  MaxAttempts,  \* MAX_WRITE_ATTEMPTS
  None

ASSUME VaultAssumption ==
  /\ Org \notin Users
  /\ MaxAttempts \in Nat \ {0}
  /\ None \notin Values
  /\ {"removed", "unknown"} \cap (Values \cup {None}) = {}

Scopes == Users \cup {Org}

VARIABLES
  row,      \* the scopes with a row in the table `secret`
  meta,     \* the scopes with a row in workos_vault_metadata
  object,   \* by scope, the value of the vault object
  call,     \* the requests
  changes,  \* history: changes of the object by others during a call (bounded)
  promise,  \* history: by scope, what the last undisturbed request promised
  torn      \* history: scopes where a set met a remove, or a remove stopped midway

vars == <<row, meta, object, call, changes, promise, torn>>

SetSteps == {"load", "write", "metaFind", "metaPut", "rowDelete", "rowCreate"}
RemoveSteps == {"metaCheck", "find", "drop", "metaDrop", "rowDrop"}

\* `read` is what became of the object the request has read, `found` whether it
\* found the row it is about to write, `alone` a history: no other request for
\* the scope was under way during this one.
CallType ==
  [pc : {"idle"} \cup SetSteps \cup RemoveSteps, scope : Scopes,
   value : Values \cup {None}, read : {"absent", "current", "stale", "gone"},
   tries : 1..MaxAttempts, found : BOOLEAN, alone : BOOLEAN]

TypeOK ==
  /\ row \subseteq Scopes
  /\ meta \subseteq Scopes
  /\ object \in [Scopes -> Values \cup {None}]
  /\ call \in [Calls -> CallType]
  /\ changes \in [Calls -> 0..MaxAttempts]
  /\ promise \in [Scopes -> Values \cup {"removed", "unknown"}]
  /\ torn \subseteq Scopes

Idle == [pc |-> "idle", scope |-> Org, value |-> None, read |-> "absent",
         tries |-> 1, found |-> FALSE, alone |-> FALSE]

Init ==
  /\ row = {} /\ meta = {}
  /\ object = [s \in Scopes |-> None]
  /\ call = [c \in Calls |-> Idle]
  /\ changes = [c \in Calls |-> 0]
  /\ promise = [s \in Scopes |-> "removed"]
  /\ torn = {}
-----------------------------------------------------------------------------
Busy(s) == {c \in Calls : call[c].pc # "idle" /\ call[c].scope = s}
Setting(c) == call[c].pc \in SetSteps
Removing(c) == call[c].pc \in RemoveSteps

\* A request begins; the ones under way for its scope are no longer alone.
Starts(c, r) ==
  /\ call[c].pc = "idle"
  /\ call' = [d \in Calls |->
       IF d = c THEN [r EXCEPT !.alone = (Busy(r.scope) = {})]
       ELSE IF d \in Busy(r.scope) THEN [call[d] EXCEPT !.alone = FALSE]
       ELSE call[d]]
  /\ changes' = [changes EXCEPT ![c] = 0]
  /\ promise' = [promise EXCEPT ![r.scope] = "unknown"]
  /\ torn' = IF \E d \in Busy(r.scope) :
                  Setting(d) # (r.pc \in SetSteps)
             THEN torn \cup {r.scope} ELSE torn
  /\ UNCHANGED <<row, meta, object>>

\* It ends well, or with an error.
Done(c) ==
  LET s == call[c].scope
  IN /\ call' = [call EXCEPT ![c] = Idle]
     /\ promise' = IF ~call[c].alone THEN promise
                   ELSE [promise EXCEPT ![s] = IF Setting(c) THEN call[c].value
                                                             ELSE "removed"]
     /\ torn' = IF call[c].alone THEN torn \ {s} ELSE torn
     /\ UNCHANGED changes

Error(c) ==
  /\ call' = [call EXCEPT ![c] = Idle]
  /\ torn' = IF call[c].pc \in {"metaDrop", "rowDrop"}
             THEN torn \cup {call[c].scope} ELSE torn
  /\ UNCHANGED <<changes, promise>>

Goes(c, pc) == /\ call' = [call EXCEPT ![c].pc = pc]
               /\ UNCHANGED <<changes, promise, torn>>

At(c, pc) == call[c].pc = pc

\* readObjectByName: an object that is not there is read as none.
Reads(c, next) ==
  LET s == call[c].scope
  IN /\ call' = [call EXCEPT ![c].pc = next,
                             ![c].read = IF object[s] = None THEN "absent" ELSE "current"]
     /\ UNCHANGED <<row, meta, object, changes, promise, torn>>

\* What a change of the object by call c does to the requests that have read it.
Changed(c, pc, outcome) ==
  LET s == call[c].scope
      others == Busy(s) \ {c}
  IN /\ call' = [d \in Calls |->
          IF d = c THEN [call[c] EXCEPT !.pc = pc]
          ELSE IF d \in others /\ call[d].read \in {"current", "stale"}
               THEN [call[d] EXCEPT !.read = outcome]
          ELSE call[d]]
     /\ changes' = [d \in Calls |->
          IF d \in others /\ changes[d] < MaxAttempts THEN changes[d] + 1
                                                      ELSE changes[d]]
     /\ UNCHANGED <<promise, torn>>
-----------------------------------------------------------------------------
(* secretsSet, for a scope of the caller's.                                *)

Set(c) ==
  \E s \in Scopes, v \in Values :
    Starts(c, [Idle EXCEPT !.pc = "load", !.scope = s, !.value = v])

\* upsertSecretValue, the write: creating takes the name, and fails with 409 when
\* it is taken; updating fails with 409 when the object has another version and
\* with 404 when it is gone.  After a 409 everything is done again, from the
\* reading on, while attempts remain.
WriteSucceeds(c) ==
  LET s == call[c].scope
  IN /\ At(c, "write")
     /\ \/ call[c].read = "absent" /\ object[s] = None
        \/ call[c].read = "current"
     /\ object' = [object EXCEPT ![s] = call[c].value]
     /\ Changed(c, "metaFind", "stale")
     /\ UNCHANGED <<row, meta>>

Conflicts(c) ==
  /\ At(c, "write")
  /\ \/ call[c].read = "absent" /\ object[call[c].scope] # None
     \/ call[c].read = "stale"

(* Mutant: the write alone is repeated, not the reading.                   *)
WriteAgainUnread(c) ==
  /\ Conflicts(c)
  /\ call[c].tries < MaxAttempts
  /\ call' = [call EXCEPT ![c].tries = @ + 1]
  /\ UNCHANGED <<row, meta, object, changes, promise, torn>>

WriteAgain(c) ==
  /\ Conflicts(c)
  /\ call[c].tries < MaxAttempts
  /\ call' = [call EXCEPT ![c].pc = "load", ![c].tries = @ + 1]
  /\ UNCHANGED <<row, meta, object, changes, promise, torn>>

GivesUp(c) ==
  /\ Conflicts(c)
  /\ call[c].tries = MaxAttempts
  /\ Error(c)
  /\ UNCHANGED <<row, meta, object>>

\* The key for the object is being made: the attempt is repeated after a while.
\* How often is left open.
KeyNotReady(c) ==
  /\ At(c, "write")
  /\ call[c].read = "absent"
  /\ Goes(c, "load")
  /\ UNCHANGED <<row, meta, object>>

\* store.upsert.
FindMetadata(c) ==
  /\ At(c, "metaFind")
  /\ call' = [call EXCEPT ![c].pc = "metaPut", ![c].found = call[c].scope \in meta]
  /\ UNCHANGED <<row, meta, object, changes, promise, torn>>

(* Mutant: metadata is only updated, never created.                        *)
PutMetadataUpdates(c) ==
  /\ At(c, "metaPut")
  /\ Goes(c, "rowDelete")
  /\ UNCHANGED <<row, meta, object>>

\* The update of a row that was there; it may not be any more.  A row that was
\* not there is created, unless another request has done so.
PutMetadata(c) ==
  /\ At(c, "metaPut")
  /\ IF call[c].found \/ call[c].scope \notin meta
     THEN Goes(c, "rowDelete") ELSE Error(c)
  /\ meta' = IF call[c].found THEN meta ELSE meta \cup {call[c].scope}
  /\ UNCHANGED <<row, object>>

(* Mutant: the rows of all scopes go.                                      *)
DeleteRows(c) ==
  /\ At(c, "rowDelete")
  /\ row' = {}
  /\ Goes(c, "rowCreate")
  /\ UNCHANGED <<meta, object>>

DeleteRow(c) ==
  /\ At(c, "rowDelete")
  /\ row' = row \ {call[c].scope}
  /\ Goes(c, "rowCreate")
  /\ UNCHANGED <<meta, object>>

CreateRow(c) ==
  /\ At(c, "rowCreate")
  /\ IF call[c].scope \notin row THEN Done(c) ELSE Error(c)
  /\ row' = row \cup {call[c].scope}
  /\ UNCHANGED <<meta, object>>
-----------------------------------------------------------------------------
(* secretsRemove, by a user: the user's own row if there is one, else that of *)
(* the organisation; without a row, what the vault has in the user's scope.   *)

Innermost(u) == IF u \in row \/ Org \notin row THEN u ELSE Org

Remove(c) ==
  \E u \in Users :
    Starts(c, [Idle EXCEPT !.pc = "metaCheck", !.scope = Innermost(u),
                           !.found = Innermost(u) \in row])

\* The provider's delete looks for the metadata first.
CheckMetadata(c) ==
  /\ At(c, "metaCheck")
  /\ Goes(c, IF call[c].scope \in meta THEN "find" ELSE "rowDrop")
  /\ UNCHANGED <<row, meta, object>>

\* deleteSecretValue: of an object that is not there, nothing is deleted.
NothingToDrop(c) ==
  /\ At(c, "drop") /\ call[c].read = "absent"
  /\ Goes(c, "metaDrop")
  /\ UNCHANGED <<row, meta, object>>

DropObject(c) ==
  /\ At(c, "drop") /\ call[c].read \in {"current", "stale"}
  /\ object' = [object EXCEPT ![call[c].scope] = None]
  /\ Changed(c, "metaDrop", "gone")
  /\ UNCHANGED <<row, meta>>

DropMetadata(c) ==
  /\ At(c, "metaDrop")
  /\ meta' = meta \ {call[c].scope}
  /\ Goes(c, "rowDrop")
  /\ UNCHANGED <<row, object>>

DropRow(c) ==
  /\ At(c, "rowDrop")
  /\ row' = IF call[c].found THEN row \ {call[c].scope} ELSE row
  /\ Done(c)
  /\ UNCHANGED <<meta, object>>
-----------------------------------------------------------------------------
Load(c) == At(c, "load") /\ Reads(c, "write")
Find(c) == At(c, "find") /\ Reads(c, "drop")

\* The database or the vault fails (404 for an object another request has
\* deleted included), or the request is dropped.
Fails(c) ==
  /\ call[c].pc # "idle"
  /\ Error(c)
  /\ UNCHANGED <<row, meta, object>>

Step(c) ==
  \/ Set(c) \/ Load(c) \/ WriteSucceeds(c) \/ WriteAgain(c) \/ GivesUp(c)
  \/ KeyNotReady(c) \/ FindMetadata(c) \/ PutMetadata(c) \/ DeleteRow(c) \/ CreateRow(c)
  \/ Remove(c) \/ CheckMetadata(c) \/ Find(c) \/ NothingToDrop(c) \/ DropObject(c)
  \/ DropMetadata(c) \/ DropRow(c) \/ Fails(c)

Next == \E c \in Calls : Step(c)

Spec == Init /\ [][Next]_vars
-----------------------------------------------------------------------------
(* Properties.                                                             *)

\* The provider's get, and resolveSecretValueFromRows for a user: the listed
\* value nearest to the user; if there is none, what the provider has in the
\* user's scope though no row says so.
VaultValue(s) == IF s \in meta THEN object[s] ELSE None
Listed(s) == IF s \in row THEN VaultValue(s) ELSE None
Resolve(u) == IF Listed(u) # None THEN Listed(u)
              ELSE IF Listed(Org) # None THEN Listed(Org)
              ELSE VaultValue(u)

\* A request that had its scope to itself and was answered well has done what it
\* says, whatever races and failures came before it, and stays so whatever
\* happens in other scopes: a user gets what was set in the user's scope; with
\* that removed, what was set for the organisation; with both removed, nothing.
PromisesKept ==
  \A u \in Users :
    /\ promise[u] \in Values => Resolve(u) = promise[u]
    /\ promise[u] = "removed" /\ promise[Org] \in Values => Resolve(u) = promise[Org]
    /\ promise[u] = "removed" /\ promise[Org] = "removed" => Resolve(u) = None

\* A row has its value, once no request is at work on its scope: only a remove
\* that overlapped a set, or stopped halfway, leaves a row that says "resolved"
\* of a secret without a value.
ListedHasValue ==
  \A s \in row \ torn : Busy(s) = {} => VaultValue(s) # None

\* A set is refused for conflicts only when other requests changed the object
\* at least once for each of its attempts.
RefusedAfterConflicts ==
  [][\A c \in Calls : GivesUp(c) => changes[c] = MaxAttempts]_vars
=============================================================================
