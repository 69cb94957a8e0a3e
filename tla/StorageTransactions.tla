-------------------------- MODULE StorageTransactions --------------------------
(***************************************************************************)
(* How the operations of one executor share its one database connection    *)
(* (packages/core/storage-drizzle/src/adapter.ts, behind the adapter       *)
(* router of packages/core/sdk/src/executor.ts).  The SQLite adapter of    *)
(* the local app has one connection and emits raw BEGIN, COMMIT and        *)
(* ROLLBACK on it; the Postgres adapter of the cloud app has a pool of one *)
(* and lets drizzle's transaction() hold that connection.                  *)
(*                                                                         *)
(* An operation is a fiber that writes rows by one statement after         *)
(* another, with an await in each, either inside adapter.transaction or    *)
(* outside.  A transaction opened inside a transaction is part of the      *)
(* outer one: the router finds the active handle in the fiber and opens    *)
(* nothing.  A query that was sent before its fiber is interrupted counts  *)
(* as executed before the interrupt.                                       *)
(***************************************************************************)
EXTENDS Naturals

CONSTANTS
  Operation,      \* the operations of the executor
  Transactional,  \* those that run inside adapter.transaction
  Steps,          \* the statements of an operation
  Providers,      \* the databases an executor may be configured with
  NoOperation     \* not an operation

ASSUME StorageAssumption ==
  /\ Transactional \subseteq Operation
  /\ Steps \in Nat \ {0}
  /\ Providers \subseteq {"sqlite", "pg"}
  /\ NoOperation \notin Operation

VARIABLES
  provider,   \* the database, fixed by configuration
  state,      \* what the caller of each operation has seen of it
  tx,         \* the transaction of an operation
  done,       \* the statements an operation has executed
  txHolder,   \* the operation whose transaction is open on the connection
  committed,  \* the rows on disk
  pending     \* the rows written since the open transaction began

storageVars == <<provider, state, tx, done, txHolder, committed, pending>>

Row     == Operation \X (1 .. Steps)
Rows(o) == {o} \X (1 .. Steps)

(* What a query on the connection sees.                                    *)
Visible == committed \cup pending

(* Mutant: an interrupt also stops the body of a Postgres transaction.     *)
RunsForCaller(o) == state[o] = "running"

(* Whether the fiber of an operation goes on: its caller waits for it, or  *)
(* it is the promise of a Postgres transaction, which drizzle runs apart   *)
(* from the fiber that asked for it.                                       *)
Runs(o) == \/ state[o] = "running"
           \/ provider = "pg" /\ tx[o] \in {"waiting", "open"}

StorageInit ==
  /\ provider \in Providers
  /\ state = [o \in Operation |-> "idle"]
  /\ tx = [o \in Operation |-> "none"]
  /\ done = [o \in Operation |-> 0]
  /\ txHolder = NoOperation
  /\ committed = {}
  /\ pending = {}

--------------------------------------------------------------------------------

(* An operation starts; a transactional one asks for a transaction.        *)
Start(o) ==
  /\ state[o] = "idle"
  /\ state' = [state EXCEPT ![o] = "running"]
  /\ tx' = [tx EXCEPT ![o] = IF o \in Transactional THEN "waiting" ELSE "none"]
  /\ UNCHANGED <<provider, done, txHolder, committed, pending>>

(* Mutant: a BEGIN inside an open transaction is taken for a savepoint.    *)
BeginNested(o) ==
  /\ tx[o] = "waiting"
  /\ Runs(o)
  /\ tx' = [tx EXCEPT ![o] = "open"]
  /\ txHolder' = o
  /\ UNCHANGED <<provider, state, done, committed, pending>>

(* BEGIN, once the connection is free.                                     *)
Begin(o) ==
  /\ tx[o] = "waiting"
  /\ Runs(o)
  /\ txHolder = NoOperation
  /\ tx' = [tx EXCEPT ![o] = "open"]
  /\ txHolder' = o
  /\ UNCHANGED <<provider, state, done, committed, pending>>

(* On SQLite a BEGIN while another fiber's transaction is open fails:      *)
(* "cannot start a transaction within a transaction".  On Postgres the     *)
(* pool makes it wait.                                                     *)
BeginRefused(o) ==
  /\ provider = "sqlite"
  /\ tx[o] = "waiting"
  /\ Runs(o)
  /\ txHolder # NoOperation
  /\ tx' = [tx EXCEPT ![o] = "over"]
  /\ state' = [state EXCEPT ![o] = "failed"]
  /\ UNCHANGED <<provider, done, txHolder, committed, pending>>

(* Mutant: a Postgres query outside the transaction runs on its connection.*)
StatementUnpooled(o) ==
  /\ Runs(o)
  /\ tx[o] \in {"none", "open"}
  /\ done[o] < Steps
  /\ done' = [done EXCEPT ![o] = @ + 1]
  /\ LET row == <<o, done[o] + 1>>
     IN IF txHolder = NoOperation
        THEN committed' = committed \cup {row} /\ UNCHANGED pending
        ELSE pending' = pending \cup {row} /\ UNCHANGED committed
  /\ UNCHANGED <<provider, state, tx, txHolder>>

(* A statement.  It commits by itself when no transaction is open on the   *)
(* connection.  On SQLite a statement of any fiber joins the transaction   *)
(* that is open; on Postgres it waits for the connection.                  *)
Statement(o) ==
  /\ Runs(o)
  /\ tx[o] \in {"none", "open"}
  /\ done[o] < Steps
  /\ provider = "pg" => txHolder \in {o, NoOperation}
  /\ done' = [done EXCEPT ![o] = @ + 1]
  /\ LET row == <<o, done[o] + 1>>
     IN IF txHolder = NoOperation
        THEN committed' = committed \cup {row} /\ UNCHANGED pending
        ELSE pending' = pending \cup {row} /\ UNCHANGED committed
  /\ UNCHANGED <<provider, state, tx, txHolder>>

(* The transaction of o is over and its caller, if it still waits, told.   *)
Conclude(o, outcome) ==
  /\ tx[o] = "open"
  /\ Runs(o)
  /\ tx' = [tx EXCEPT ![o] = "over"]
  /\ state' = [state EXCEPT ![o] = IF @ = "running" THEN outcome ELSE @]
  /\ txHolder' = NoOperation
  /\ pending' = {}
  /\ UNCHANGED <<provider, done>>

(* COMMIT, with whatever the connection has written since BEGIN.  Over a   *)
(* network the answer to it may be lost, and the caller told of a failure. *)
Commit(o, outcome) ==
  /\ outcome = "ok" \/ provider = "pg"
  /\ done[o] = Steps
  /\ committed' = committed \cup pending
  /\ Conclude(o, outcome)

(* Mutant: the transaction is closed and not rolled back.                  *)
RollbackKeeps(o) ==
  /\ committed' = committed \cup pending
  /\ Conclude(o, "failed")

(* The body fails, in a statement or between two: ROLLBACK.                *)
Rollback(o) ==
  /\ UNCHANGED committed
  /\ Conclude(o, "failed")

(* The COMMIT of a SQLite transaction fails (the file is busy): it comes    *)
(* after the catchAll that rolls back, and the transaction stays open, as  *)
(* that of an interrupted operation does.                                  *)
CommitFails(o) ==
  /\ provider = "sqlite"
  /\ tx[o] = "open"
  /\ Runs(o)
  /\ done[o] = Steps
  /\ state' = [state EXCEPT ![o] = "failed"]
  /\ UNCHANGED <<provider, tx, done, txHolder, committed, pending>>

End(o) == Rollback(o) \/ \E outcome \in {"ok", "failed"} : Commit(o, outcome)

(* An operation outside a transaction ends, or fails half way.             *)
EndPlain(o) ==
  /\ o \notin Transactional
  /\ state[o] = "running"
  /\ \/ done[o] = Steps /\ state' = [state EXCEPT ![o] = "ok"]
     \/ state' = [state EXCEPT ![o] = "failed"]
  /\ UNCHANGED <<provider, tx, done, txHolder, committed, pending>>

(* The fiber is interrupted, or dies of a defect.  The SQLite path rolls   *)
(* back in catchAll, which sees neither; the Postgres path runs the body   *)
(* in a promise of its own, which the interrupt does not reach.            *)
Interrupt(o) ==
  /\ state[o] = "running"
  /\ state' = [state EXCEPT ![o] = "interrupted"]
  /\ UNCHANGED <<provider, tx, done, txHolder, committed, pending>>

(* The process ends, or the scope that owns the connection closes: the     *)
(* database drops the open transaction.                                    *)
Close ==
  /\ state' = [o \in Operation |-> IF state[o] = "running" THEN "interrupted" ELSE state[o]]
  /\ tx' = [o \in Operation |-> IF tx[o] = "none" THEN "none" ELSE "over"]
  /\ txHolder' = NoOperation
  /\ pending' = {}
  /\ UNCHANGED <<provider, done, committed>>

--------------------------------------------------------------------------------

Step(o) == \/ Start(o) \/ Begin(o) \/ BeginRefused(o)
           \/ Statement(o) \/ End(o) \/ CommitFails(o) \/ EndPlain(o)
           \/ Interrupt(o)

StorageNext == Close \/ \E o \in Operation : Step(o)

(* A query is answered, and the body of a transaction goes on to its end.  *)
StorageFairness ==
  \A o \in Operation : WF_storageVars(Statement(o)) /\ WF_storageVars(End(o))

StorageSpec == StorageInit /\ [][StorageNext]_storageVars

StorageFairSpec == StorageSpec /\ StorageFairness

--------------------------------------------------------------------------------
(* Properties.                                                             *)

(* Types of the variables.                                                 *)
StorageTypeOK ==
  /\ provider \in Providers
  /\ state \in [Operation -> {"idle", "running", "ok", "failed", "interrupted"}]
  /\ tx \in [Operation -> {"none", "waiting", "open", "over"}]
  /\ done \in [Operation -> 0 .. Steps]
  /\ txHolder \in Operation \cup {NoOperation}
  /\ committed \subseteq Row
  /\ pending \subseteq Row

(* "So a standalone register() call is atomic": at every moment the disk   *)
(* holds all rows of a transaction or none, whatever other fibers write on *)
(* the connection, and wherever the transaction is cut.                    *)
AllOrNothing ==
  \A o \in Transactional :
    committed \cap Rows(o) = {} \/ Rows(o) \subseteq committed

(* A transaction whose caller was told it succeeded stays, whatever fails  *)
(* or is cut later; on Postgres so does every other operation.             *)
AcknowledgedStays ==
  \A o \in Operation :
    state[o] = "ok" /\ (o \in Transactional \/ provider = "pg") =>
      Rows(o) \subseteq committed

(* A SQLite transaction whose caller was told it failed leaves no row that *)
(* a query could see, unless it was its COMMIT that failed; and whatever   *)
(* failed, nothing of it is on disk then or after a restart.               *)
FailedLeavesNothing ==
  \A o \in Transactional :
    state[o] = "failed" /\ provider = "sqlite" =>
      /\ tx[o] = "over" => Visible \cap Rows(o) = {}
      /\ committed \cap Rows(o) = {}

(* On Postgres the connection is given back, also when the caller of the   *)
(* transaction is gone.                                                    *)
ConnectionReleased ==
  (provider = "pg" /\ txHolder # NoOperation) ~> (txHolder = NoOperation)

(* "transaction rolls back on failure": once a SQLite transaction has      *)
(* ended for its caller without success, a query sees what it saw before.  *)
RollsBack ==
  \A o \in Transactional :
    state[o] \in {"failed", "interrupted"} /\ provider = "sqlite" =>
      Visible \cap Rows(o) = {}
================================================================================
