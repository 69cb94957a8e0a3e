---------------------------- MODULE DatabaseProofs ----------------------------
(***************************************************************************)
(* Proofs about the two modules of the local database.                     *)
(*                                                                         *)
(* StorageTransactions: a transaction is whole on disk or absent, what was *)
(* acknowledged stays and what failed leaves nothing, for any number of    *)
(* operations and statements and for both databases.                       *)
(*                                                                         *)
(* SourceCatalog: the rows of a source agree, calls run what is listed and *)
(* credentials stay with their source, for any users, tools, writers and   *)
(* callers, for all plugins and both databases.                            *)
(***************************************************************************)
EXTENDS SourceCatalog, StorageTransactions, TLAPS

-----------------------------------------------------------------------------
(* The connection.                                                          *)

(* Some row, and every row, of operation o is among those written.          *)
Has(written, o) == \E i \in 1 .. Steps : <<o, i>> \in written
HasAll(written, o) == \A i \in 1 .. Steps : <<o, i>> \in written

(* One transaction is open, the holder's, and an operation executes its    *)
(* statements in it.                                                       *)
TxOK ==
  \A o \in Operation :
    /\ o \notin Transactional => tx[o] = "none"
    /\ o \in Transactional => (tx[o] = "none" <=> state[o] = "idle")
    /\ tx[o] = "open" <=> txHolder = o
    /\ tx[o] = "waiting" \/ state[o] = "idle" => done[o] = 0
    /\ o \in Transactional /\ state[o] = "ok" => tx[o] = "over"
    /\ o \in Transactional /\ state[o] = "failed" =>
         tx[o] = "over" \/ (tx[o] = "open" /\ provider = "sqlite")
    /\ o \notin Transactional /\ state[o] = "ok" => done[o] = Steps

(* The rows of a transaction are pending while it is open, and on disk, if *)
(* at all, when it is over.                                                *)
RowsOK ==
  /\ txHolder = NoOperation => pending = {}
  /\ \A o \in Transactional :
       /\ Has(pending, o) => txHolder = o
       /\ Has(committed, o) => tx[o] = "over" /\ HasAll(committed, o)
       /\ state[o] = "ok" => HasAll(committed, o)
       /\ state[o] = "failed" /\ provider = "sqlite" => ~Has(committed, o)
       /\ txHolder = o => \A i \in 1 .. Steps : i <= done[o] => <<o, i>> \in pending
  /\ provider = "pg" =>
       \A o \in Operation \ Transactional :
         \A i \in 1 .. Steps : i <= done[o] => <<o, i>> \in committed

(* The inductive invariant.                                                 *)
StorageInv == StorageTypeOK /\ TxOK /\ RowsOK

-----------------------------------------------------------------------------

(* It holds at first, when no row is written.                               *)
LEMMA StorageInitInv == StorageInit => StorageInv
BY StorageAssumption DEF StorageInit, StorageInv, StorageTypeOK, TxOK, RowsOK, Has, HasAll, Row

(* The type and transaction parts do not depend on the rows.               *)
LEMMA StorageNextTypeOK ==
  ASSUME StorageTypeOK, [StorageNext]_storageVars
  PROVE  StorageTypeOK'
<1> USE StorageAssumption DEF StorageTypeOK
<1>1. CASE UNCHANGED storageVars
  BY <1>1 DEF storageVars
<1>2. CASE Close
  BY <1>2 DEF Close
<1>3. ASSUME NEW o \in Operation, Start(o) PROVE StorageTypeOK'
  BY <1>3 DEF Start
<1>4. ASSUME NEW o \in Operation, Begin(o) \/ BeginRefused(o) PROVE StorageTypeOK'
  BY <1>4 DEF Begin, BeginRefused
<1>5. ASSUME NEW o \in Operation, Statement(o) PROVE StorageTypeOK'
  <2>1. done[o] + 1 \in 1 .. Steps
    BY <1>5 DEF Statement
  <2>2. <<o, done[o] + 1>> \in Row
    BY <2>1 DEF Row
  <2>3. committed' \subseteq Row /\ pending' \subseteq Row
    BY <1>5, <2>2 DEF Statement
  <2>4. done' = [done EXCEPT ![o] = @ + 1] /\ UNCHANGED <<provider, state, tx, txHolder>>
    BY <1>5 DEF Statement
  <2> QED BY <2>1, <2>3, <2>4
<1>6. ASSUME NEW o \in Operation, End(o) PROVE StorageTypeOK'
  BY <1>6 DEF End, Commit, Rollback, Conclude
<1>7. ASSUME NEW o \in Operation, EndPlain(o) \/ Interrupt(o) PROVE StorageTypeOK'
  BY <1>7 DEF EndPlain, Interrupt
<1>8. ASSUME NEW o \in Operation, CommitFails(o) PROVE StorageTypeOK'
  BY <1>8 DEF CommitFails
<1> QED BY <1>1, <1>2, <1>3, <1>4, <1>5, <1>6, <1>7, <1>8 DEF StorageNext, Step

(* Who has the connection, and what its caller knows of it.                 *)
LEMMA NextTxOK ==
  ASSUME StorageTypeOK, TxOK, [StorageNext]_storageVars
  PROVE  TxOK'
<1> USE StorageAssumption DEF StorageTypeOK, TxOK
<1>1. CASE UNCHANGED storageVars
  BY <1>1 DEF storageVars
<1>2. CASE Close
  BY <1>2 DEF Close
<1>3. ASSUME NEW o \in Operation, Start(o) PROVE TxOK'
  BY <1>3 DEF Start
<1>4. ASSUME NEW o \in Operation, Begin(o) \/ BeginRefused(o) PROVE TxOK'
  BY <1>4 DEF Begin, BeginRefused
<1>5. ASSUME NEW o \in Operation, Statement(o) PROVE TxOK'
  <2>1. /\ done' = [done EXCEPT ![o] = @ + 1]
        /\ tx[o] \in {"none", "open"}
        /\ state[o] = "running" \/ tx[o] = "open"
        /\ done[o] < Steps
        /\ UNCHANGED <<provider, state, tx, txHolder>>
    BY <1>5 DEF Statement, Runs
  <2>2. state[o] # "idle"
    BY <2>1
  <2> QED BY <2>1, <2>2
<1>6. ASSUME NEW o \in Operation, End(o) PROVE TxOK'
  <2>1. /\ tx[o] = "open"
        /\ tx' = [tx EXCEPT ![o] = "over"]
        /\ txHolder' = NoOperation
        /\ UNCHANGED done
        /\ \E outcome \in {"ok", "failed"} :
             state' = [state EXCEPT ![o] = IF @ = "running" THEN outcome ELSE @]
    BY <1>6 DEF End, Commit, Rollback, Conclude
  <2>2. txHolder = o /\ o \in Transactional
    BY <2>1
  <2> QED BY <2>1, <2>2
<1>7. ASSUME NEW o \in Operation, EndPlain(o) \/ Interrupt(o) PROVE TxOK'
  BY <1>7 DEF EndPlain, Interrupt
<1>8. ASSUME NEW o \in Operation, CommitFails(o) PROVE TxOK'
  BY <1>8 DEF CommitFails
<1> QED BY <1>1, <1>2, <1>3, <1>4, <1>5, <1>6, <1>7, <1>8 DEF StorageNext, Step

(* Where the rows of an operation are.                                      *)
LEMMA NextRowsOK ==
  ASSUME StorageTypeOK, TxOK, RowsOK, [StorageNext]_storageVars
  PROVE  RowsOK'
<1> USE StorageAssumption DEF StorageTypeOK
<1>1. CASE UNCHANGED storageVars
  BY <1>1 DEF storageVars, RowsOK, Has, HasAll
<1>2. CASE Close
  <2>1. /\ txHolder' = NoOperation /\ pending' = {}
        /\ UNCHANGED <<provider, done, committed>>
        /\ \A o \in Operation : state'[o] \in {state[o], "interrupted"}
        /\ \A o \in Operation : tx[o] = "over" => tx'[o] = "over"
    BY <1>2 DEF Close
  <2> QED BY <2>1 DEF RowsOK, Has, HasAll
<1>3. ASSUME NEW o \in Operation, Start(o) PROVE RowsOK'
  <2>1. /\ state' = [state EXCEPT ![o] = "running"]
        /\ \A p \in Operation : tx[p] = "over" => p = o \/ tx'[p] = "over"
        /\ state[o] = "idle"
        /\ UNCHANGED <<provider, done, txHolder, committed, pending>>
    BY <1>3 DEF Start
  <2>2. o \in Transactional => tx[o] # "over"
    BY <2>1 DEF TxOK
  <2> QED BY <2>1, <2>2 DEF RowsOK, Has, HasAll
<1>4. ASSUME NEW o \in Operation, Begin(o) PROVE RowsOK'
  <2>1. /\ tx[o] = "waiting"
        /\ txHolder = NoOperation
        /\ tx' = [tx EXCEPT ![o] = "open"]
        /\ txHolder' = o
        /\ UNCHANGED <<provider, state, done, committed, pending>>
    BY <1>4 DEF Begin
  <2>2. done[o] = 0 /\ pending = {}
    BY <2>1 DEF TxOK, RowsOK
  <2> QED BY <2>1, <2>2 DEF RowsOK, Has, HasAll
<1>5. ASSUME NEW o \in Operation, BeginRefused(o) PROVE RowsOK'
  <2>1. /\ tx[o] = "waiting"
        /\ tx' = [tx EXCEPT ![o] = "over"]
        /\ state' = [state EXCEPT ![o] = "failed"]
        /\ UNCHANGED <<provider, txHolder, done, committed, pending>>
    BY <1>5 DEF BeginRefused
  <2> QED BY <2>1 DEF RowsOK, Has, HasAll
<1>6. ASSUME NEW o \in Operation, Statement(o) PROVE RowsOK'
  <2> DEFINE i == done[o] + 1
             row == <<o, i>>
  <2>1. /\ done' = [done EXCEPT ![o] = i]
        /\ tx[o] \in {"none", "open"}
        /\ state[o] = "running" \/ tx[o] = "open"
        /\ provider = "pg" => txHolder \in {o, NoOperation}
        /\ i \in 1 .. Steps
        /\ UNCHANGED <<provider, state, tx, txHolder>>
    BY <1>6 DEF Statement, Runs
  <2>2. /\ txHolder = NoOperation => committed' = committed \cup {row} /\ pending' = pending
        /\ txHolder # NoOperation => pending' = pending \cup {row} /\ committed' = committed
    BY <1>6 DEF Statement
  <2>3. o \in Transactional => txHolder = o /\ tx[o] = "open"
    BY <2>1 DEF TxOK
  <2>4. o \notin Transactional => txHolder # o
    BY <2>1 DEF TxOK
  <2>5. \A j \in 1 .. Steps : j <= i => j <= done[o] \/ j = i
    BY <2>1
  <2> HIDE DEF i
  <2>6. ASSUME NEW p \in Transactional
        PROVE  /\ Has(pending', p) => txHolder = p
               /\ Has(committed', p) <=> Has(committed, p)
               /\ HasAll(committed, p) => HasAll(committed', p)
               /\ txHolder = p => \A j \in 1 .. Steps : j <= done'[p] => <<p, j>> \in pending'
    <3>1. CASE p = o
      BY <3>1, <2>1, <2>2, <2>3, <2>5 DEF RowsOK, Has, HasAll
    <3>2. CASE p # o
      BY <3>2, <2>1, <2>2 DEF RowsOK, Has, HasAll
    <3> QED BY <3>1, <3>2
  <2>7. ASSUME NEW p \in Operation \ Transactional, provider = "pg",
               NEW j \in 1 .. Steps, j <= done'[p]
        PROVE  <<p, j>> \in committed'
    BY <2>1, <2>2, <2>4, <2>5, <2>7 DEF RowsOK
  <2>8. txHolder = NoOperation => pending' = {}
    BY <2>2 DEF RowsOK
  <2> QED BY <2>1, <2>6, <2>7, <2>8 DEF RowsOK
<1>7. ASSUME NEW o \in Operation, End(o) PROVE RowsOK'
  <2>1. /\ tx[o] = "open"
        /\ tx' = [tx EXCEPT ![o] = "over"]
        /\ txHolder' = NoOperation
        /\ pending' = {}
        /\ UNCHANGED <<provider, done>>
    BY <1>7 DEF End, Commit, Rollback, Conclude
  <2>2. txHolder = o /\ o \in Transactional /\ ~Has(committed, o) /\ state[o] \notin {"ok", "failed"}
    <3>1. Runs(o)
      BY <1>7 DEF End, Commit, Rollback, Conclude
    <3> QED BY <2>1, <3>1 DEF TxOK, RowsOK, Runs
  <2>3. \/ /\ committed' = committed
           /\ state' = [state EXCEPT ![o] = IF @ = "running" THEN "failed" ELSE @]
        \/ /\ committed' = committed \cup pending
           /\ done[o] = Steps
           /\ \E outcome \in {"ok", "failed"} :
                /\ outcome = "ok" \/ provider = "pg"
                /\ state' = [state EXCEPT ![o] = IF @ = "running" THEN outcome ELSE @]
    BY <1>7 DEF End, Commit, Rollback, Conclude
  <2>4. CASE committed' = committed
             /\ state' = [state EXCEPT ![o] = IF @ = "running" THEN "failed" ELSE @]
    BY <2>1, <2>2, <2>4 DEF RowsOK, Has, HasAll
  <2>5. ASSUME committed' = committed \cup pending, done[o] = Steps,
               NEW outcome \in {"ok", "failed"}, outcome = "ok" \/ provider = "pg",
               state' = [state EXCEPT ![o] = IF @ = "running" THEN outcome ELSE @]
        PROVE  RowsOK'
    <3>1. HasAll(committed', o)
      BY <2>2, <2>5 DEF RowsOK, HasAll
    <3>2. ASSUME NEW p \in Transactional, p # o
          PROVE  /\ Has(committed', p) <=> Has(committed, p)
                 /\ HasAll(committed, p) => HasAll(committed', p)
      BY <2>2, <2>5, <3>2 DEF RowsOK, Has, HasAll
    <3>3. ~Has(pending', o) /\ \A p \in Transactional : ~Has(pending', p)
      BY <2>1 DEF Has
    <3>4. provider = "sqlite" /\ state'[o] = "failed" => FALSE
      BY <2>2, <2>5
    <3>5. ASSUME NEW p \in Transactional
          PROVE  /\ Has(pending', p) => txHolder' = p
                 /\ Has(committed', p) => tx'[p] = "over" /\ HasAll(committed', p)
                 /\ state'[p] = "ok" => HasAll(committed', p)
                 /\ state'[p] = "failed" /\ provider' = "sqlite" => ~Has(committed', p)
                 /\ txHolder' # p
      <4>1. CASE p = o
        BY <4>1, <2>1, <2>2, <3>1, <3>3, <3>4
      <4>2. CASE p # o
        BY <4>2, <2>1, <2>5, <3>2, <3>3 DEF RowsOK
      <4> QED BY <4>1, <4>2
    <3>6. provider' = "pg" =>
            \A p \in Operation \ Transactional :
              \A i \in 1 .. Steps : i <= done'[p] => <<p, i>> \in committed'
      BY <2>1, <2>5 DEF RowsOK
    <3> QED BY <2>1, <3>5, <3>6 DEF RowsOK
  <2> QED BY <2>3, <2>4, <2>5
<1>8. ASSUME NEW o \in Operation, EndPlain(o) \/ Interrupt(o) PROVE RowsOK'
  <2>1. /\ \A p \in Transactional : state'[p] \in {state[p], "interrupted"}
        /\ UNCHANGED <<provider, tx, done, txHolder, committed, pending>>
    BY <1>8 DEF EndPlain, Interrupt
  <2> QED BY <2>1 DEF RowsOK, Has, HasAll
<1>9. ASSUME NEW o \in Operation, CommitFails(o) PROVE RowsOK'
  <2>1. /\ provider = "sqlite" /\ tx[o] = "open"
        /\ state' = [state EXCEPT ![o] = "failed"]
        /\ UNCHANGED <<provider, tx, done, txHolder, committed, pending>>
    BY <1>9 DEF CommitFails
  <2>2. o \in Transactional => ~Has(committed, o)
    BY <2>1 DEF RowsOK
  <2> QED BY <2>1, <2>2 DEF RowsOK, Has, HasAll
<1> QED BY <1>1, <1>2, <1>3, <1>4, <1>5, <1>6, <1>7, <1>8, <1>9 DEF StorageNext, Step

(* Every step keeps the invariant.                                          *)
LEMMA StorageNextInv == StorageInv /\ [StorageNext]_storageVars => StorageInv'
BY StorageNextTypeOK, NextTxOK, NextRowsOK DEF StorageInv

(* The bookkeeping of the one connection holds in every reachable state.   *)
THEOREM StorageInvariance == StorageSpec => []StorageInv
BY StorageInitInv, StorageNextInv, PTL DEF StorageSpec

(* The variables of the connection keep their types.                       *)
THEOREM StorageTypeCorrect == StorageSpec => []StorageTypeOK
<1>1. StorageInv => StorageTypeOK
  BY DEF StorageInv
<1> QED BY <1>1, StorageInvariance, PTL

(* A transaction is on disk as a whole or not at all, for any number of    *)
(* operations interleaved with it, on either database.                     *)
THEOREM Atomicity == StorageSpec => []AllOrNothing
<1>1. StorageInv => AllOrNothing
  <2> SUFFICES ASSUME StorageInv, NEW o \in Transactional
               PROVE  committed \cap Rows(o) = {} \/ Rows(o) \subseteq committed
    BY DEF AllOrNothing
  <2>1. CASE Has(committed, o)
    <3>1. HasAll(committed, o)
      BY <2>1 DEF StorageInv, RowsOK
    <3> QED BY <3>1 DEF Rows, HasAll
  <2>2. CASE ~Has(committed, o)
    BY <2>2 DEF Rows, Has
  <2> QED BY <2>1, <2>2
<1> QED BY <1>1, StorageInvariance, PTL

(* What a caller was told is committed is: no rollback, interrupt or crash *)
(* of another operation undoes an acknowledged transaction, or on Postgres *)
(* any acknowledged operation.                                             *)
THEOREM Durability == StorageSpec => []AcknowledgedStays
<1>1. StorageInv => AcknowledgedStays
  <2> SUFFICES ASSUME StorageInv, NEW o \in Operation, state[o] = "ok",
                      o \in Transactional \/ provider = "pg"
               PROVE  HasAll(committed, o)
    BY DEF AcknowledgedStays, Rows, HasAll
  <2>1. CASE o \in Transactional
    BY <2>1 DEF StorageInv, RowsOK
  <2>2. CASE o \notin Transactional
    BY <2>2, StorageAssumption DEF StorageInv, TxOK, RowsOK, HasAll
  <2> QED BY <2>1, <2>2
<1> QED BY <1>1, StorageInvariance, PTL

(* A SQLite transaction that was reported failed left nothing behind.      *)
THEOREM CleanFailure == StorageSpec => []FailedLeavesNothing
<1>1. StorageInv => FailedLeavesNothing
  <2> SUFFICES ASSUME StorageInv, NEW o \in Transactional, state[o] = "failed",
                      provider = "sqlite"
               PROVE  ~Has(committed, o) /\ (tx[o] = "over" => ~Has(pending, o))
    BY DEF FailedLeavesNothing, Visible, Rows, Has
  <2>1. ~Has(committed, o)
    BY DEF StorageInv, RowsOK
  <2>2. tx[o] = "over" => txHolder # o
    BY StorageAssumption DEF StorageInv, TxOK
  <2> QED BY <2>1, <2>2 DEF StorageInv, RowsOK
<1> QED BY <1>1, StorageInvariance, PTL

-----------------------------------------------------------------------------
(* The catalog. What the scripts have before them, await by await: all that *)
(* the proofs need of them, so that a script is never followed by its       *)
(* positions.                                                               *)

(* The statements on the rows of a scope.                                   *)
RowWords == {"dropOps", "dropConfig", "putConfig", "putOps", "putEach",
             "register", "unregister", "deleteCore"}
(* The awaits of a call of a tool.                                          *)
CallWords == {"resolve", "annotate", "approve", "operation", "perform"}

(* A script with the awaits W before it leaves nothing of the rows of its  *)
(* scope as it is.                                                         *)
Untouched(p, W) ==
  /\ "dropOps" \in W
  /\ p # "mcp" => "putConfig" \in W \/ "dropConfig" \in W
  /\ "putEach" \in W \/ "putConfig" \in W => "register" \in W

(* Is there a statement on the rows of the core among the awaits W?         *)
Lists(W) == "register" \in W \/ "unregister" \in W \/ "deleteCore" \in W

(* What the script of a request of kind k has before it, W, when its next  *)
(* await is w.                                                             *)
Ordered(p, k, w, W) ==
  /\ w # "find" => "find" \notin W
  /\ w # "resolve" => "resolve" \notin W
  /\ w \notin {"find", "stored"} => "stored" \notin W
  /\ w \in CallWords <=> k = "invoke"
  /\ p = "google" /\ k = "refresh" =>
       "commit" \notin W /\ w \notin {"dropConfig", "putOps", "deleteCore"}
  /\ w \in RowWords =>
       /\ "begin" \notin W /\ "fetch" \notin W
       /\ \/ "commit" \in W
          \/ p = "google" /\ k = "refresh"
          \/ p = "mcp" /\ k = "update" /\ w = "putConfig"
  /\ w \in {"find", "stored"} =>
       /\ "commit" \in W => "begin" \in W
       /\ p = "google" /\ k = "refresh" => "fetch" \in W
  /\ w = "fetch" => "register" \in W /\ (p # "raw" => Untouched(p, W))
  /\ w = "begin" => "commit" \in W /\ (p # "raw" => Untouched(p, W))
  /\ w = "begin" /\ p = "openapi" /\ "putConfig" \in W => "dropConfig" \in W
  /\ w = "commit" => \A x \in W : x = "commit"
  /\ w = "dropOps" =>
       /\ "putEach" \in W => "register" \in W
       /\ \/ "putOps" \in W \/ "putEach" \in W
          \/ "register" \notin W /\ Lists(W)
  /\ w = "dropConfig" =>
       /\ "putConfig" \in W \/ ("register" \notin W /\ Lists(W))
       /\ p = "openapi" => "dropBound" \in W
  /\ w = "putOps" =>
       /\ p # "raw" /\ "register" \in W
       /\ "dropOps" \notin W /\ "putEach" \notin W
  /\ w = "putEach" =>
       /\ p # "raw" /\ ~Lists(W)
       /\ "dropOps" \notin W /\ "putOps" \notin W
  /\ w = "putConfig" =>
       /\ k # "update" =>
            "dropConfig" \notin W /\ ("register" \in W \/ ~Lists(W))
       /\ k = "update" => p = "mcp"
       /\ p = "google" =>
            /\ "dropOps" \notin W /\ "putEach" \notin W /\ "putOps" \notin W
            /\ "register" \notin W
       /\ p = "openapi" => "dropBound" \notin W
  /\ w = "register" => "unregister" \notin W /\ "deleteCore" \notin W
  /\ w = "unregister" =>
       /\ "deleteCore" \notin W
       /\ k # "removeAt" => "register" \in W
       /\ "register" \notin W => "putEach" \notin W /\ "putConfig" \notin W
  /\ w = "deleteCore" =>
       /\ "register" \notin W /\ "unregister" \notin W
       /\ "putEach" \notin W /\ "putConfig" \notin W
  /\ w \in {"bind", "dropBound"} => p = "openapi"
  /\ w = "bind" => k \in {"add", "bindAt"} /\ "dropBound" \notin W
  /\ w = "resolve" /\ p # "raw" =>
       "operation" \in W /\ (p # "mcp" => "annotate" \in W)
  /\ w = "annotate" => "approve" \in W
  /\ w = "approve" => "annotate" \notin W
  /\ w = "perform" => \A x \in W : x = "perform"

(* The awaits of a script from the i-th on.                                *)
From(S, i) == {S[j] : j \in i .. Len(S)}
Words(S) == From(S, 1)

(* S is the rest of a script of a request of kind k, of plugin p: every     *)
(* await has before it what Ordered says, and comes once.                   *)
Scripted(p, k, S) ==
  \A i \in 1 .. Len(S) :
    Ordered(p, k, S[i], From(S, i)) /\ S[i] \notin From(S, i + 1)

(* What a script has before it when the request is made.                    *)
Entry(p, k, W) ==
  /\ W # {}
  /\ "commit" \in W => "begin" \in W
  /\ k \in {"remove", "refresh"} => "find" \in W
  /\ k = "invoke" => "resolve" \in W
  /\ k \in {"bindAt", "update"} => "stored" \in W
  /\ p = "google" /\ k = "refresh" => "fetch" \in W

(* The scripts requests are made with.                                      *)
Fits(p, k, S) ==
  S \in Seq(Await) /\ Scripted(p, k, S) /\ Entry(p, k, Words(S))

(* The awaits a request has before it, and whether it goes on.              *)
Ahead(r) == Words(request[r].todo)
Active(r) == request[r].outcome = "running"

(* The tables as they were when the open transaction began.                *)
SavedTypes ==
  holder # None =>
    /\ saved[1] \in [Scope -> Registration \cup {None}]
    /\ saved[2] \in [Scope -> Registration \cup {None}]
    /\ saved[3] \in [Scope -> [Tool -> Registration \cup {None}]]
    /\ saved[4] \subseteq BindingType
    /\ saved[5] \subseteq Scope

(* A request that goes on has a script before it, knows its scope once it   *)
(* has looked for it, and comes with what its kind needs.                   *)
ActiveOK(r) ==
  LET R == request[r]
      W == Words(R.todo)
  IN /\ R.todo # <<>>
     /\ R.user \in User
     /\ Scripted(plugin, R.kind, R.todo)
     /\ r \in Caller <=> R.kind = "invoke"
     /\ "find" \notin W /\ "resolve" \notin W => R.at \in {R.user, Org}
     /\ R.kind \in {"add", "bindAt"} => R.target \in Scope
     /\ R.kind = "invoke" => R.tool \in Tool
     /\ R.kind = "bindAt" /\ "stored" \notin W => R.seen \in Registration
     /\ R.kind = "update" /\ "stored" \notin W => R.seen \in Registration
     /\ "unregister" \in W => ~R.missed

\* Only a call performs anything.
DoneOK(r) ==
  /\ request[r].todo = <<>>
  /\ request[r].outcome = "performed" => r \in Caller

(* All requests.                                                            *)
Scripts ==
  \A r \in Request : /\ Active(r) => ActiveOK(r)
                     /\ ~Active(r) => DoneOK(r)

(* The transaction is open from a BEGIN of its holder to its COMMIT.        *)
HolderOK ==
  \A r \in Writer :
    holder = r <=> Active(r) /\ "commit" \in Ahead(r) /\ "begin" \notin Ahead(r)

(* A request that has yet to fetch its specification.                       *)
NotYet(r) ==
  request[r].outcome = "none" \/ (Active(r) /\ "fetch" \in Ahead(r))

(* Nothing is of registration r, on disk or in a request.                   *)
Absent(r) ==
  /\ \A s \in Scope : /\ core[s] # r /\ config[s] # r
                      /\ \A t \in Tool : ops[s][t] # r
  /\ \A q \in Request : request[q].seen # r
  /\ holder # None =>
       \A s \in Scope : /\ saved[1][s] # r /\ saved[2][s] # r
                        /\ \A t \in Tool : saved[3][s][t] # r

(* No row is of a registration whose specification is not known: what a     *)
(* fetch changes of spec is nothing any row rests on.                       *)
FreshOK == \A r \in Writer : NotYet(r) => Absent(r)

(* The plugin raw has no rows for tools.                                    *)
RawOK ==
  plugin = "raw" =>
    /\ \A s \in Scope, t \in Tool : ops[s][t] = None
    /\ holder # None => \A s \in Scope, t \in Tool : saved[3][s][t] = None

(* What a rollback brings back: every scope was whole when the transaction  *)
(* began, or was marked already.                                            *)
SavedWhole ==
  holder # None /\ plugin # "raw" => \A s \in Scope : s \in saved[5] \/
    /\ \A t \in Tool : saved[3][s][t] = OpOf(saved[1][s], t)
    /\ plugin # "mcp" => saved[2][s] = saved[1][s]

(* A binding is of the registration whose source row is there. While the    *)
(* holder has yet to delete the bindings of its scope those may be of the   *)
(* one it replaces; it then puts no source row before it has deleted them.  *)
BoundOK ==
  /\ plugin # "openapi" => bound = {} /\ (holder # None => saved[4] = {})
  /\ \A b \in bound :
       \/ b.late \/ b.made = config[b.source]
       \/ /\ holder # None /\ b.source = request[holder].at
          /\ "dropBound" \in Ahead(holder)
  /\ holder # None => \A b \in saved[4] : b.late \/ b.made = saved[2][b.source]
  /\ /\ plugin = "openapi" /\ holder # None
     /\ "putConfig" \in Ahead(holder) /\ "dropConfig" \notin Ahead(holder)
     => config[request[holder].at] = None

(* The heart of CatalogAgrees: all scopes are whole but those a known       *)
(* hazard has hit and the one whose rows the holder is writing.             *)
OthersWhole ==
  plugin # "raw" => \A s \in Scope :
    s \in torn \/ (holder # None /\ request[holder].at = s) \/ Whole(s)

(* The registration scope request[r].at will be listed from when r is done. *)
Coming(r) ==
  IF "register" \in Ahead(r) THEN r
  ELSE IF Lists(Ahead(r)) THEN None ELSE core[request[r].at]

(* What the rest of a script needs to leave its scope whole, read off the   *)
(* awaits before it (a weakest precondition): the tables that no later      *)
(* statement replaces hold already what they will hold in the end.          *)
Progress(r) ==
  LET s == request[r].at
      W == Ahead(r)
  IN /\ \/ "dropOps" \in W
        \/ \A t \in Tool : ops[s][t] =
             IF "putOps" \in W \/ ("putEach" \in W /\ "register" \in W) THEN None
             ELSE IF "putEach" \in W
             THEN IF t \in spec[r].tools \ request[r].left THEN r ELSE None
             ELSE OpOf(Coming(r), t)
     /\ plugin # "mcp" =>
          "putConfig" \in W \/ "dropConfig" \in W \/ config[s] = Coming(r)
     /\ "register" \notin W =>
          /\ "putEach" \in W \/ "putConfig" \in W => core[s] = r
          /\ "putEach" \in W => request[r].left \subseteq spec[r].tools

(* Who is writing the rows of its scope: the holder, or a refresh of        *)
(* googleDiscovery, which has no transaction.                               *)
Placed(r) == Active(r) /\ (holder = r \/ (Bare(r) /\ "fetch" \notin Ahead(r)))
(* Nobody has come between, and its scope is not marked.                    *)
Unhit(r) == \/ r \in calm /\ ~(request[r].kind = "removeAt" /\ request[r].missed)
            \/ holder = r /\ request[r].at \notin torn

(* A writer whom nobody came between is on its way to a whole scope.        *)
ProgressOK ==
  plugin # "raw" => \A r \in Writer : Placed(r) /\ Unhit(r) => Progress(r)

(* Beside a refresh without a transaction that nobody has disturbed after   *)
(* it registered, the holder has written nothing yet and leaves nothing of  *)
(* the rows it finds.                                                       *)
Undisturbed ==
  plugin # "raw" => \A r \in Writer :
    /\ r \in calm /\ Active(r) /\ Bare(r)
    /\ "fetch" \notin Ahead(r) /\ "register" \notin Ahead(r)
    /\ holder \notin {None, r}
    => Untouched(plugin, Ahead(holder))

(* A call beside which nobody has written the rows: what it has read is     *)
(* still so, of one registration, and what the gate decided is what this    *)
(* registration requires.                                                   *)
CallOK(c) ==
  LET R == request[c]
      W == Words(R.todo)
  IN /\ R.outcome = "none" \/ (Active(c) /\ "resolve" \in W) => c \notin calm
     /\ c \in calm /\ Active(c) =>
          /\ core[R.at] = R.seen /\ R.seen \in Registration
          /\ R.tool \in Tool /\ R.tool \in spec[R.seen].tools
          /\ Whole(R.at)
          /\ plugin # "mcp" /\ "annotate" \notin W =>
               R.gate = (R.tool \in spec[R.seen].gated)
          /\ plugin # "mcp" /\ "annotate" \notin W /\ "approve" \notin W =>
               R.approved = (R.tool \in spec[R.seen].gated)
          /\ "operation" \notin W => R.ran = R.seen
     /\ c \in calm /\ R.outcome = "performed" =>
          /\ R.ran = R.seen /\ R.seen \in Registration
          /\ plugin # "mcp" => R.approved = (R.tool \in spec[R.seen].gated)

(* All calls, of the plugins that have rows for tools.                      *)
CallsOK == HasOps => \A c \in Caller : CallOK(c)

-----------------------------------------------------------------------------
(* The scripts are in order, and stay so.                                   *)

(* The scripts of each plugin are in order. Those of openapi.               *)
LEMMA OpenapiScripts ==
  ASSUME plugin = "openapi", NEW kind \in Kinds
  PROVE  Fits("openapi", kind, Script(kind))
<1>1. CASE kind = "add"
  <2> DEFINE S == Script(kind)
  <2>1. /\ S \in Seq(Await)
        /\ Len(S) = 10 /\ S[1] = "fetch" /\ S[2] = "begin"
        /\ S[3] = "dropOps" /\ S[4] = "dropConfig" /\ S[5] = "dropBound"
        /\ S[6] = "putConfig" /\ S[7] = "putOps" /\ S[8] = "register"
        /\ S[9] = "bind" /\ S[10] = "commit"
    BY <1>1 DEF Script, AddSource, AddOpenapi, UpsertOpenapi, DropOpenapi,
                Await
  <2> HIDE DEF S
  <2>2. Scripted("openapi", "add", S)
    BY SMTT(20), <2>1 DEF Scripted, Ordered, From, CallWords, RowWords, Untouched,
                Lists
  <2>3. Entry("openapi", "add", Words(S))
    BY <2>1 DEF Entry, Words, From
  <2> QED BY <1>1, <2>1, <2>2, <2>3 DEF S, Fits
<1>2. CASE kind = "remove"
  <2> DEFINE S == Script(kind)
  <2>1. /\ S \in Seq(Await)
        /\ Len(S) = 7 /\ S[1] = "find" /\ S[2] = "begin"
        /\ S[3] = "dropOps" /\ S[4] = "dropConfig" /\ S[5] = "dropBound"
        /\ S[6] = "deleteCore" /\ S[7] = "commit"
    BY <1>2 DEF Script, Cleanup, DropOpenapi, Await
  <2> HIDE DEF S
  <2>2. Scripted("openapi", "remove", S)
    BY <2>1 DEF Scripted, Ordered, From, CallWords, RowWords, Untouched,
                Lists
  <2>3. Entry("openapi", "remove", Words(S))
    BY <2>1 DEF Entry, Words, From
  <2> QED BY <1>2, <2>1, <2>2, <2>3 DEF S, Fits
<1>3. CASE kind = "removeAt"
  <2> DEFINE S == Script(kind)
  <2>1. /\ S \in Seq(Await)
        /\ Len(S) = 6 /\ S[1] = "begin" /\ S[2] = "dropOps"
        /\ S[3] = "dropConfig" /\ S[4] = "dropBound"
        /\ S[5] = "unregister" /\ S[6] = "commit"
    BY <1>3 DEF Script, RemoveAt, Cleanup, DropOpenapi, Await
  <2> HIDE DEF S
  <2>2. Scripted("openapi", "removeAt", S)
    BY <2>1 DEF Scripted, Ordered, From, CallWords, RowWords, Untouched,
                Lists
  <2>3. Entry("openapi", "removeAt", Words(S))
    BY <2>1 DEF Entry, Words, From
  <2> QED BY <1>3, <2>1, <2>2, <2>3 DEF S, Fits
<1>4. CASE kind = "refresh"
  <2> DEFINE S == Script(kind)
  <2>1. /\ S \in Seq(Await)
        /\ Len(S) = 11 /\ S[1] = "find" /\ S[2] = "stored"
        /\ S[3] = "fetch" /\ S[4] = "begin" /\ S[5] = "dropOps"
        /\ S[6] = "dropConfig" /\ S[7] = "dropBound"
        /\ S[8] = "putConfig" /\ S[9] = "putOps" /\ S[10] = "register"
        /\ S[11] = "commit"
    BY <1>4 DEF Script, RefreshSource, RefreshOpenapi, UpsertOpenapi,
                DropOpenapi, Await
  <2> HIDE DEF S
  <2>2. Scripted("openapi", "refresh", S)
    BY SMTT(20), <2>1 DEF Scripted, Ordered, From, CallWords, RowWords, Untouched,
                Lists
  <2>3. Entry("openapi", "refresh", Words(S))
    BY <2>1 DEF Entry, Words, From
  <2> QED BY <1>4, <2>1, <2>2, <2>3 DEF S, Fits
<1>5. CASE kind = "bindAt"
  <2> DEFINE S == Script(kind)
  <2>1. /\ S \in Seq(Await)
        /\ Len(S) = 2 /\ S[1] = "stored" /\ S[2] = "bind"
    BY <1>5 DEF Script, Await
  <2> HIDE DEF S
  <2>2. Scripted("openapi", "bindAt", S)
    BY <2>1 DEF Scripted, Ordered, From, CallWords, RowWords, Untouched,
                Lists
  <2>3. Entry("openapi", "bindAt", Words(S))
    BY <2>1 DEF Entry, Words, From
  <2> QED BY <1>5, <2>1, <2>2, <2>3 DEF S, Fits
<1>6. CASE kind = "invoke"
  <2> DEFINE S == Script(kind)
  <2>1. /\ S \in Seq(Await)
        /\ Len(S) = 5 /\ S[1] = "resolve" /\ S[2] = "annotate"
        /\ S[3] = "approve" /\ S[4] = "operation" /\ S[5] = "perform"
    BY <1>6 DEF Script, InvokeTool, Plugins, Await
  <2> HIDE DEF S
  <2>2. Scripted("openapi", "invoke", S)
    BY <2>1 DEF Scripted, Ordered, From, CallWords, RowWords, Untouched,
                Lists
  <2>3. Entry("openapi", "invoke", Words(S))
    BY <2>1 DEF Entry, Words, From
  <2> QED BY <1>6, <2>1, <2>2, <2>3 DEF S, Fits
<1> QED BY <1>1, <1>2, <1>3, <1>4, <1>5, <1>6 DEF Kinds

(* Those of googleDiscovery.                                                *)
LEMMA GoogleScripts ==
  ASSUME plugin = "google", NEW kind \in Kinds
  PROVE  Fits("google", kind, Script(kind))
<1>1. CASE kind = "add"
  <2> DEFINE S == Script(kind)
  <2>1. /\ S \in Seq(Await)
        /\ Len(S) = 8 /\ S[1] = "begin" /\ S[2] = "fetch"
        /\ S[3] = "dropOps" /\ S[4] = "unregister" /\ S[5] = "register"
        /\ S[6] = "putEach" /\ S[7] = "putConfig" /\ S[8] = "commit"
    BY <1>1 DEF Script, AddSource, AddGoogle, RegisterManifest, Await
  <2> HIDE DEF S
  <2>2. Scripted("google", "add", S)
    BY SMTT(20), <2>1 DEF Scripted, Ordered, From, CallWords, RowWords, Untouched,
                Lists
  <2>3. Entry("google", "add", Words(S))
    BY <2>1 DEF Entry, Words, From
  <2> QED BY <1>1, <2>1, <2>2, <2>3 DEF S, Fits
<1>2. CASE kind = "remove"
  <2> DEFINE S == Script(kind)
  <2>1. /\ S \in Seq(Await)
        /\ Len(S) = 6 /\ S[1] = "find" /\ S[2] = "begin"
        /\ S[3] = "dropOps" /\ S[4] = "dropConfig" /\ S[5] = "deleteCore"
        /\ S[6] = "commit"
    BY <1>2 DEF Script, Cleanup, Await
  <2> HIDE DEF S
  <2>2. Scripted("google", "remove", S)
    BY <2>1 DEF Scripted, Ordered, From, CallWords, RowWords, Untouched,
                Lists
  <2>3. Entry("google", "remove", Words(S))
    BY <2>1 DEF Entry, Words, From
  <2> QED BY <1>2, <2>1, <2>2, <2>3 DEF S, Fits
<1>3. CASE kind = "removeAt"
  <2> DEFINE S == Script(kind)
  <2>1. /\ S \in Seq(Await)
        /\ Len(S) = 5 /\ S[1] = "begin" /\ S[2] = "dropOps"
        /\ S[3] = "dropConfig" /\ S[4] = "unregister" /\ S[5] = "commit"
    BY <1>3 DEF Script, RemoveAt, Cleanup, Await
  <2> HIDE DEF S
  <2>2. Scripted("google", "removeAt", S)
    BY <2>1 DEF Scripted, Ordered, From, CallWords, RowWords, Untouched,
                Lists
  <2>3. Entry("google", "removeAt", Words(S))
    BY <2>1 DEF Entry, Words, From
  <2> QED BY <1>3, <2>1, <2>2, <2>3 DEF S, Fits
<1>4. CASE kind = "refresh"
  <2> DEFINE S == Script(kind)
  <2>1. /\ S \in Seq(Await)
        /\ Len(S) = 8 /\ S[1] = "find" /\ S[2] = "stored"
        /\ S[3] = "fetch" /\ S[4] = "dropOps" /\ S[5] = "unregister"
        /\ S[6] = "register" /\ S[7] = "putEach" /\ S[8] = "putConfig"
    BY <1>4 DEF Script, RefreshSource, RefreshGoogle, RegisterManifest, Await
  <2> HIDE DEF S
  <2>2. Scripted("google", "refresh", S)
    BY <2>1 DEF Scripted, Ordered, From, CallWords, RowWords, Untouched,
                Lists
  <2>3. Entry("google", "refresh", Words(S))
    BY <2>1 DEF Entry, Words, From
  <2> QED BY <1>4, <2>1, <2>2, <2>3 DEF S, Fits
<1>5. CASE kind = "invoke"
  <2> DEFINE S == Script(kind)
  <2>1. /\ S \in Seq(Await)
        /\ Len(S) = 5 /\ S[1] = "resolve" /\ S[2] = "annotate"
        /\ S[3] = "approve" /\ S[4] = "operation" /\ S[5] = "perform"
    BY <1>5 DEF Script, InvokeTool, Plugins, Await
  <2> HIDE DEF S
  <2>2. Scripted("google", "invoke", S)
    BY <2>1 DEF Scripted, Ordered, From, CallWords, RowWords, Untouched,
                Lists
  <2>3. Entry("google", "invoke", Words(S))
    BY <2>1 DEF Entry, Words, From
  <2> QED BY <1>5, <2>1, <2>2, <2>3 DEF S, Fits
<1> QED BY <1>1, <1>2, <1>3, <1>4, <1>5 DEF Kinds

(* Those of mcp.                                                            *)
LEMMA McpScripts ==
  ASSUME plugin = "mcp", NEW kind \in Kinds
  PROVE  Fits("mcp", kind, Script(kind))
<1>1. CASE kind = "add"
  <2> DEFINE S == Script(kind)
  <2>1. /\ S \in Seq(Await)
        /\ Len(S) = 8 /\ S[1] = "fetch" /\ S[2] = "begin"
        /\ S[3] = "dropOps" /\ S[4] = "dropConfig" /\ S[5] = "putConfig"
        /\ S[6] = "putOps" /\ S[7] = "register" /\ S[8] = "commit"
    BY <1>1 DEF Script, AddSource, AddMcp, Await
  <2> HIDE DEF S
  <2>2. Scripted("mcp", "add", S)
    BY <2>1 DEF Scripted, Ordered, From, CallWords, RowWords, Untouched,
                Lists
  <2>3. Entry("mcp", "add", Words(S))
    BY <2>1 DEF Entry, Words, From
  <2> QED BY <1>1, <2>1, <2>2, <2>3 DEF S, Fits
<1>2. CASE kind = "remove"
  <2> DEFINE S == Script(kind)
  <2>1. /\ S \in Seq(Await)
        /\ Len(S) = 6 /\ S[1] = "find" /\ S[2] = "begin"
        /\ S[3] = "dropOps" /\ S[4] = "dropConfig" /\ S[5] = "deleteCore"
        /\ S[6] = "commit"
    BY <1>2 DEF Script, Cleanup, Await
  <2> HIDE DEF S
  <2>2. Scripted("mcp", "remove", S)
    BY <2>1 DEF Scripted, Ordered, From, CallWords, RowWords, Untouched,
                Lists
  <2>3. Entry("mcp", "remove", Words(S))
    BY <2>1 DEF Entry, Words, From
  <2> QED BY <1>2, <2>1, <2>2, <2>3 DEF S, Fits
<1>3. CASE kind = "removeAt"
  <2> DEFINE S == Script(kind)
  <2>1. /\ S \in Seq(Await)
        /\ Len(S) = 5 /\ S[1] = "begin" /\ S[2] = "dropOps"
        /\ S[3] = "dropConfig" /\ S[4] = "unregister" /\ S[5] = "commit"
    BY <1>3 DEF Script, RemoveAt, Cleanup, Await
  <2> HIDE DEF S
  <2>2. Scripted("mcp", "removeAt", S)
    BY <2>1 DEF Scripted, Ordered, From, CallWords, RowWords, Untouched,
                Lists
  <2>3. Entry("mcp", "removeAt", Words(S))
    BY <2>1 DEF Entry, Words, From
  <2> QED BY <1>3, <2>1, <2>2, <2>3 DEF S, Fits
<1>4. CASE kind = "refresh"
  <2> DEFINE S == Script(kind)
  <2>1. /\ S \in Seq(Await)
        /\ Len(S) = 1 /\ S[1] = "find"
    BY <1>4 DEF Script, RefreshSource, Await
  <2> HIDE DEF S
  <2>2. Scripted("mcp", "refresh", S)
    BY <2>1 DEF Scripted, Ordered, From, CallWords, RowWords, Untouched,
                Lists
  <2>3. Entry("mcp", "refresh", Words(S))
    BY <2>1 DEF Entry, Words, From
  <2> QED BY <1>4, <2>1, <2>2, <2>3 DEF S, Fits
<1>5. CASE kind = "refreshAt"
  <2> DEFINE S == Script(kind)
  <2>1. /\ S \in Seq(Await)
        /\ Len(S) = 8 /\ S[1] = "stored" /\ S[2] = "fetch"
        /\ S[3] = "begin" /\ S[4] = "dropOps" /\ S[5] = "unregister"
        /\ S[6] = "putOps" /\ S[7] = "register" /\ S[8] = "commit"
    BY <1>5 DEF Script, RefreshMcp, Await
  <2> HIDE DEF S
  <2>2. Scripted("mcp", "refreshAt", S)
    BY <2>1 DEF Scripted, Ordered, From, CallWords, RowWords, Untouched,
                Lists
  <2>3. Entry("mcp", "refreshAt", Words(S))
    BY <2>1 DEF Entry, Words, From
  <2> QED BY <1>5, <2>1, <2>2, <2>3 DEF S, Fits
<1>6. CASE kind = "update"
  <2> DEFINE S == Script(kind)
  <2>1. /\ S \in Seq(Await)
        /\ Len(S) = 2 /\ S[1] = "stored" /\ S[2] = "putConfig"
    BY <1>6 DEF Script, UpdateMcp, Await
  <2> HIDE DEF S
  <2>2. Scripted("mcp", "update", S)
    BY <2>1 DEF Scripted, Ordered, From, CallWords, RowWords, Untouched,
                Lists
  <2>3. Entry("mcp", "update", Words(S))
    BY <2>1 DEF Entry, Words, From
  <2> QED BY <1>6, <2>1, <2>2, <2>3 DEF S, Fits
<1>7. CASE kind = "invoke"
  <2> DEFINE S == Script(kind)
  <2>1. /\ S \in Seq(Await)
        /\ Len(S) = 3 /\ S[1] = "resolve" /\ S[2] = "operation"
        /\ S[3] = "perform"
    BY <1>7 DEF Script, InvokeTool, Plugins, Await
  <2> HIDE DEF S
  <2>2. Scripted("mcp", "invoke", S)
    BY <2>1 DEF Scripted, Ordered, From, CallWords, RowWords, Untouched,
                Lists
  <2>3. Entry("mcp", "invoke", Words(S))
    BY <2>1 DEF Entry, Words, From
  <2> QED BY <1>7, <2>1, <2>2, <2>3 DEF S, Fits
<1> QED BY <1>1, <1>2, <1>3, <1>4, <1>5, <1>6, <1>7 DEF Kinds

(* Those of graphql.                                                        *)
LEMMA GraphqlScripts ==
  ASSUME plugin = "graphql", NEW kind \in Kinds
  PROVE  Fits("graphql", kind, Script(kind))
<1>1. CASE kind = "add"
  <2> DEFINE S == Script(kind)
  <2>1. /\ S \in Seq(Await)
        /\ Len(S) = 8 /\ S[1] = "begin" /\ S[2] = "fetch"
        /\ S[3] = "dropOps" /\ S[4] = "dropConfig" /\ S[5] = "putConfig"
        /\ S[6] = "putOps" /\ S[7] = "register" /\ S[8] = "commit"
    BY <1>1 DEF Script, AddSource, AddGraphql, Await
  <2> HIDE DEF S
  <2>2. Scripted("graphql", "add", S)
    BY <2>1 DEF Scripted, Ordered, From, CallWords, RowWords, Untouched,
                Lists
  <2>3. Entry("graphql", "add", Words(S))
    BY <2>1 DEF Entry, Words, From
  <2> QED BY <1>1, <2>1, <2>2, <2>3 DEF S, Fits
<1>2. CASE kind = "remove"
  <2> DEFINE S == Script(kind)
  <2>1. /\ S \in Seq(Await)
        /\ Len(S) = 6 /\ S[1] = "find" /\ S[2] = "begin"
        /\ S[3] = "dropOps" /\ S[4] = "dropConfig" /\ S[5] = "deleteCore"
        /\ S[6] = "commit"
    BY <1>2 DEF Script, Cleanup, Await
  <2> HIDE DEF S
  <2>2. Scripted("graphql", "remove", S)
    BY <2>1 DEF Scripted, Ordered, From, CallWords, RowWords, Untouched,
                Lists
  <2>3. Entry("graphql", "remove", Words(S))
    BY <2>1 DEF Entry, Words, From
  <2> QED BY <1>2, <2>1, <2>2, <2>3 DEF S, Fits
<1>3. CASE kind = "removeAt"
  <2> DEFINE S == Script(kind)
  <2>1. /\ S \in Seq(Await)
        /\ Len(S) = 5 /\ S[1] = "begin" /\ S[2] = "dropOps"
        /\ S[3] = "dropConfig" /\ S[4] = "unregister" /\ S[5] = "commit"
    BY <1>3 DEF Script, RemoveAt, Cleanup, Await
  <2> HIDE DEF S
  <2>2. Scripted("graphql", "removeAt", S)
    BY <2>1 DEF Scripted, Ordered, From, CallWords, RowWords, Untouched,
                Lists
  <2>3. Entry("graphql", "removeAt", Words(S))
    BY <2>1 DEF Entry, Words, From
  <2> QED BY <1>3, <2>1, <2>2, <2>3 DEF S, Fits
<1>4. CASE kind = "refresh"
  <2> DEFINE S == Script(kind)
  <2>1. /\ S \in Seq(Await)
        /\ Len(S) = 1 /\ S[1] = "find"
    BY <1>4 DEF Script, RefreshSource, Await
  <2> HIDE DEF S
  <2>2. Scripted("graphql", "refresh", S)
    BY <2>1 DEF Scripted, Ordered, From, CallWords, RowWords, Untouched,
                Lists
  <2>3. Entry("graphql", "refresh", Words(S))
    BY <2>1 DEF Entry, Words, From
  <2> QED BY <1>4, <2>1, <2>2, <2>3 DEF S, Fits
<1>5. CASE kind = "invoke"
  <2> DEFINE S == Script(kind)
  <2>1. /\ S \in Seq(Await)
        /\ Len(S) = 5 /\ S[1] = "resolve" /\ S[2] = "annotate"
        /\ S[3] = "approve" /\ S[4] = "operation" /\ S[5] = "perform"
    BY <1>5 DEF Script, InvokeTool, Plugins, Await
  <2> HIDE DEF S
  <2>2. Scripted("graphql", "invoke", S)
    BY <2>1 DEF Scripted, Ordered, From, CallWords, RowWords, Untouched,
                Lists
  <2>3. Entry("graphql", "invoke", Words(S))
    BY <2>1 DEF Entry, Words, From
  <2> QED BY <1>5, <2>1, <2>2, <2>3 DEF S, Fits
<1> QED BY <1>1, <1>2, <1>3, <1>4, <1>5 DEF Kinds

(* Those of raw.                                                            *)
LEMMA RawScripts ==
  ASSUME plugin = "raw", NEW kind \in Kinds
  PROVE  Fits("raw", kind, Script(kind))
<1>1. CASE kind = "add"
  <2> DEFINE S == Script(kind)
  <2>1. /\ S \in Seq(Await)
        /\ Len(S) = 5 /\ S[1] = "begin" /\ S[2] = "dropConfig"
        /\ S[3] = "putConfig" /\ S[4] = "register" /\ S[5] = "commit"
    BY <1>1 DEF Script, AddSource, AddRaw, Await
  <2> HIDE DEF S
  <2>2. Scripted("raw", "add", S)
    BY <2>1 DEF Scripted, Ordered, From, CallWords, RowWords, Untouched,
                Lists
  <2>3. Entry("raw", "add", Words(S))
    BY <2>1 DEF Entry, Words, From
  <2> QED BY <1>1, <2>1, <2>2, <2>3 DEF S, Fits
<1>2. CASE kind = "remove"
  <2> DEFINE S == Script(kind)
  <2>1. /\ S \in Seq(Await)
        /\ Len(S) = 4 /\ S[1] = "find" /\ S[2] = "begin"
        /\ S[3] = "deleteCore" /\ S[4] = "commit"
    BY <1>2 DEF Script, Cleanup, Await
  <2> HIDE DEF S
  <2>2. Scripted("raw", "remove", S)
    BY <2>1 DEF Scripted, Ordered, From, CallWords, RowWords, Untouched,
                Lists
  <2>3. Entry("raw", "remove", Words(S))
    BY <2>1 DEF Entry, Words, From
  <2> QED BY <1>2, <2>1, <2>2, <2>3 DEF S, Fits
<1>3. CASE kind = "removeAt"
  <2> DEFINE S == Script(kind)
  <2>1. /\ S \in Seq(Await)
        /\ Len(S) = 4 /\ S[1] = "begin" /\ S[2] = "dropConfig"
        /\ S[3] = "unregister" /\ S[4] = "commit"
    BY <1>3 DEF Script, RemoveAt, Cleanup, Await
  <2> HIDE DEF S
  <2>2. Scripted("raw", "removeAt", S)
    BY <2>1 DEF Scripted, Ordered, From, CallWords, RowWords, Untouched,
                Lists
  <2>3. Entry("raw", "removeAt", Words(S))
    BY <2>1 DEF Entry, Words, From
  <2> QED BY <1>3, <2>1, <2>2, <2>3 DEF S, Fits
<1>4. CASE kind = "refresh"
  <2> DEFINE S == Script(kind)
  <2>1. /\ S \in Seq(Await)
        /\ Len(S) = 1 /\ S[1] = "find"
    BY <1>4 DEF Script, RefreshSource, Await
  <2> HIDE DEF S
  <2>2. Scripted("raw", "refresh", S)
    BY <2>1 DEF Scripted, Ordered, From, CallWords, RowWords, Untouched,
                Lists
  <2>3. Entry("raw", "refresh", Words(S))
    BY <2>1 DEF Entry, Words, From
  <2> QED BY <1>4, <2>1, <2>2, <2>3 DEF S, Fits
<1>5. CASE kind = "invoke"
  <2> DEFINE S == Script(kind)
  <2>1. /\ S \in Seq(Await)
        /\ Len(S) = 2 /\ S[1] = "resolve" /\ S[2] = "perform"
    BY <1>5 DEF Script, InvokeTool, Plugins, Await
  <2> HIDE DEF S
  <2>2. Scripted("raw", "invoke", S)
    BY <2>1 DEF Scripted, Ordered, From, CallWords, RowWords, Untouched,
                Lists
  <2>3. Entry("raw", "invoke", Words(S))
    BY <2>1 DEF Entry, Words, From
  <2> QED BY <1>5, <2>1, <2>2, <2>3 DEF S, Fits
<1> QED BY <1>1, <1>2, <1>3, <1>4, <1>5 DEF Kinds

(* A request goes on to its next await, or is over.                        *)
LEMMA TailStep ==
  ASSUME NEW p, NEW k, NEW S \in Seq(Await), S # <<>>, Scripted(p, k, S)
  PROVE  /\ Tail(S) \in Seq(Await)
         /\ Scripted(p, k, Tail(S))
         /\ Words(Tail(S)) = Words(S) \ {Head(S)}
         /\ Head(S) \in Words(S)
         /\ Ordered(p, k, Head(S), Words(S))
         /\ Tail(S) = <<>> <=> Words(S) = {Head(S)}
         /\ Len(S) = 1 <=> Words(S) = {Head(S)}
<1> DEFINE T == Tail(S)
<1>1. T \in Seq(Await) /\ Len(S) \in Nat /\ Len(S) >= 1 /\ Len(T) = Len(S) - 1
  OBVIOUS
<1>2. \A i \in 1 .. Len(T) : T[i] = S[i + 1]
  BY <1>1
<1> HIDE DEF T
<1>a. Len(S) = 1 <=> T = <<>>
  <2>1. T = <<>> => Len(T) = 0
    OBVIOUS
  <2>2. T # <<>> => Len(T) # 0
    BY <1>1
  <2> QED BY <1>1, <2>1, <2>2
<1>3. \A i \in 1 .. Len(S) : From(T, i) = From(S, i + 1)
  <2> SUFFICES ASSUME NEW i \in 1 .. Len(S) PROVE From(T, i) = From(S, i + 1)
    OBVIOUS
  <2>1. ASSUME NEW x \in From(T, i) PROVE x \in From(S, i + 1)
    <3>1. PICK j \in i .. Len(T) : x = T[j]
      BY <2>1 DEF From
    <3>2. j + 1 \in (i + 1) .. Len(S) /\ x = S[j + 1]
      BY <1>1, <1>2, <3>1
    <3> QED BY <3>2 DEF From
  <2>2. ASSUME NEW x \in From(S, i + 1) PROVE x \in From(T, i)
    <3>1. PICK j \in (i + 1) .. Len(S) : x = S[j]
      BY <2>2 DEF From
    <3>2. j - 1 \in i .. Len(T) /\ x = T[j - 1]
      BY <1>1, <1>2, <3>1
    <3> QED BY <3>2 DEF From
  <2> QED BY <2>1, <2>2
<1>4. Scripted(p, k, T)
  <2> SUFFICES ASSUME NEW i \in 1 .. Len(T)
               PROVE Ordered(p, k, T[i], From(T, i)) /\ T[i] \notin From(T, i + 1)
    BY DEF Scripted
  <2>1. i + 1 \in 1 .. Len(S) /\ i \in 1 .. Len(S) /\ T[i] = S[i + 1]
    BY <1>1, <1>2
  <2>2. /\ Ordered(p, k, S[i + 1], From(S, i + 1))
        /\ S[i + 1] \notin From(S, (i + 1) + 1)
    BY <2>1 DEF Scripted
  <2> QED BY <1>3, <2>1, <2>2
<1>5. From(T, 1) = From(S, 2)
  BY <1>1, <1>3
<1>6. Words(S) = {Head(S)} \cup From(S, 2)
  <2>1. Head(S) = S[1] /\ 1 .. Len(S) = {1} \cup 2 .. Len(S)
    BY <1>1
  <2> QED BY <2>1 DEF Words, From
<1>7. Head(S) \notin From(S, 2) /\ Ordered(p, k, Head(S), Words(S))
  BY <1>1 DEF Scripted, Words
<1>8. Words(T) = Words(S) \ {Head(S)}
  BY <1>5, <1>6, <1>7 DEF Words
<1>9. T = <<>> <=> Words(T) = {}
  <2>1. CASE Len(T) = 0
    <3>1. T = <<>> /\ 1 .. Len(T) = {}
      BY <1>1, <2>1
    <3> QED BY <3>1 DEF Words, From
  <2>2. CASE Len(T) # 0
    <3>1. T[1] \in Words(T)
      BY <1>1, <2>2 DEF Words, From
    <3>2. T # <<>>
      BY <2>2
    <3> QED BY <3>1, <3>2
  <2> QED BY <2>1, <2>2
<1> QED BY <1>1, <1>4, <1>6, <1>7, <1>8, <1>9, <1>a DEF T

(* Request r passes the await w, and becomes R if another is before it.    *)
Moves(r, w, R) ==
  LET new == request'[r]
      old == request[r]
  IN /\ request' \in [Request -> RequestType]
     /\ \A q \in Request : q # r => request'[q] = request[q]
     /\ Ahead(r)' = Ahead(r) \ {w}
     /\ \/ Ahead(r) = {w} /\ new = Over
        \/ /\ Active(r)' /\ new.todo # <<>>
           /\ Scripted(plugin, old.kind, new.todo)
           /\ new.kind = old.kind /\ new.user = old.user
           /\ new.target = old.target /\ new.tool = old.tool
           /\ new.at = R.at /\ new.seen = R.seen /\ new.left = R.left
           /\ new.missed = R.missed /\ new.gate = R.gate
           /\ new.approved = R.approved /\ new.ran = R.ran

\* What an await leaves of a request.
Follows(r, w, R) ==
  LET old == request[r]
  IN /\ R \in RequestType /\ R.todo = old.todo /\ R.outcome = "running"
     /\ R.kind = old.kind /\ R.user = old.user
     /\ R.target = old.target /\ R.tool = old.tool
     /\ IF w \in {"find", "resolve"} THEN R.at \in {old.user, Org}
        ELSE R.at = old.at
     /\ R.seen = old.seen \/ R.seen \in Registration
     /\ w = "stored" => R.seen \in Registration
     /\ w = "unregister" \/ R.missed = old.missed

\* What is known of a request at its next await.
LEMMA AtStep ==
  ASSUME TypeOK, Scripts, NEW r \in Request, NEW w, At(r, w)
  PROVE  /\ Active(r) /\ ActiveOK(r) /\ w \in Ahead(r)
         /\ Ordered(plugin, request[r].kind, w, Ahead(r))
<1>1. Active(r) /\ ActiveOK(r)
  BY DEF At, Scripts, DoneOK
<1>2. request[r] \in RequestType
  BY DEF TypeOK
<1>3. request[r].todo \in Seq(Await)
  BY <1>2 DEF RequestType
<1>4. request[r].todo # <<>> /\ Scripted(plugin, request[r].kind, request[r].todo)
  BY <1>1 DEF ActiveOK
<1>5. /\ Head(request[r].todo) \in Words(request[r].todo)
      /\ Ordered(plugin, request[r].kind, Head(request[r].todo),
                 Words(request[r].todo))
  BY <1>3, <1>4, TailStep
<1> QED BY <1>1, <1>5 DEF At, Ahead

(* A request that is over is of the type and has no await before it.        *)
LEMMA OverType == Over \in RequestType /\ Over.todo = <<>> /\ Words(<<>>) = {}
<1>1. <<>> \in Seq(Await)
  OBVIOUS
<1>2. Over \in RequestType /\ Over.todo = <<>>
  BY <1>1 DEF Over, Idle, RequestType
<1>3. 1 .. Len(<<>>) = {}
  OBVIOUS
<1> QED BY <1>2, <1>3 DEF Words, From

(* Goes, in terms of the awaits before the request.                         *)
LEMMA GoesStep ==
  ASSUME TypeOK, Scripts, NEW r \in Request, NEW w, At(r, w),
         NEW R, Follows(r, w, R), Goes(r, R)
  PROVE  Moves(r, w, R)
<1> DEFINE old == request[r]
           S == request[r].todo
<1>1. old \in RequestType /\ S \in Seq(Await) /\ request \in [Request -> RequestType]
  BY DEF TypeOK, RequestType
<1>2. S # <<>> /\ Scripted(plugin, old.kind, S) /\ Active(r)
  BY AtStep DEF ActiveOK
<1>3. /\ Tail(S) \in Seq(Await) /\ Scripted(plugin, old.kind, Tail(S))
      /\ Words(Tail(S)) = Words(S) \ {w} /\ w \in Words(S)
      /\ Len(S) = 1 <=> Words(S) = {w}
      /\ Tail(S) = <<>> <=> Words(S) = {w}
  BY <1>1, <1>2, TailStep DEF At
<1>4. R \in RequestType /\ R.todo = S /\ R.outcome = "running"
  BY DEF Follows
<1>5. CASE Words(S) = {w}
  <2>1. request' = [request EXCEPT ![r] = Over]
    BY <1>3, <1>4, <1>5 DEF Goes
  <2>2. request' \in [Request -> RequestType] /\ request'[r] = Over
        /\ \A q \in Request : q # r => request'[q] = request[q]
    BY <2>1, <1>1, OverType
  <2>3. Ahead(r)' = {}
    BY <2>2, OverType DEF Ahead
  <2>4. Ahead(r) = {w} /\ Ahead(r)' = Ahead(r) \ {w}
    BY <1>5, <2>3 DEF Ahead
  <2> QED BY <2>2, <2>4 DEF Moves
<1>6. CASE Words(S) # {w}
  <2> DEFINE N == [R EXCEPT !.todo = Tail(@)]
  <2>1. request' = [request EXCEPT ![r] = N]
    BY <1>3, <1>4, <1>6 DEF Goes
  <2>2. /\ N \in RequestType /\ N.todo = Tail(S) /\ N.outcome = "running"
        /\ N.kind = R.kind /\ N.user = R.user /\ N.target = R.target
        /\ N.tool = R.tool /\ N.at = R.at /\ N.seen = R.seen
        /\ N.left = R.left /\ N.missed = R.missed /\ N.gate = R.gate
        /\ N.approved = R.approved /\ N.ran = R.ran
    BY <1>3, <1>4 DEF RequestType
  <2> HIDE DEF N
  <2>3. request' \in [Request -> RequestType] /\ request'[r] = N
        /\ \A q \in Request : q # r => request'[q] = request[q]
    BY <2>1, <2>2, <1>1
  <2>4. Ahead(r)' = Ahead(r) \ {w}
    BY <2>2, <2>3, <1>3 DEF Ahead
  <2>5. Active(r)' /\ N.todo # <<>> /\ Scripted(plugin, old.kind, N.todo)
    BY <2>2, <2>3, <1>3, <1>6 DEF Active
  <2> QED BY <2>2, <2>3, <2>4, <2>5 DEF Moves, Follows
<1> QED BY <1>5, <1>6

\* The request's part of the invariant.
LEMMA MovesScripts ==
  ASSUME TypeOK, Scripts, plugin' = plugin, NEW r \in Request, Active(r),
         NEW w, NEW R, Follows(r, w, R), Moves(r, w, R)
  PROVE  Scripts'
<1>1. ASSUME NEW q \in Request, q # r
      PROVE  /\ Active(q)' => ActiveOK(q)'
             /\ ~Active(q)' => DoneOK(q)'
  <2>1. request'[q] = request[q]
    BY <1>1 DEF Moves
  <2>2. /\ Active(q) => ActiveOK(q)
        /\ ~Active(q) => DoneOK(q)
    BY <1>1 DEF Scripts
  <2> QED BY <2>1, <2>2 DEF Active, ActiveOK, DoneOK
<1>2. /\ Active(r)' => ActiveOK(r)'
      /\ ~Active(r)' => DoneOK(r)'
  <2>1. ActiveOK(r)
    BY DEF Scripts
  <2>2. CASE request'[r] = Over
    <3>1. Over.outcome = "over" /\ Over.todo = <<>>
      BY DEF Over, Idle
    <3> QED BY <2>2, <3>1 DEF Active, DoneOK
  <2>3. CASE Active(r)' /\ request'[r] # Over
    <3> DEFINE old == request[r]
               new == request'[r]
               W == Words(old.todo)
    <3>1. /\ new.todo # <<>> /\ Scripted(plugin, old.kind, new.todo)
          /\ new.kind = old.kind /\ new.user = old.user /\ new.target = old.target
          /\ new.tool = old.tool
          /\ new.at = R.at /\ new.seen = R.seen /\ new.missed = R.missed
          /\ Words(new.todo) = W \ {w}
      BY <2>3 DEF Moves, Ahead
    <3>2. /\ old.user \in User
          /\ r \in Caller <=> old.kind = "invoke"
          /\ "find" \notin W /\ "resolve" \notin W => old.at \in {old.user, Org}
          /\ old.kind \in {"add", "bindAt"} => old.target \in Scope
          /\ old.kind = "invoke" => old.tool \in Tool
          /\ old.kind \in {"update", "bindAt"} /\ "stored" \notin W =>
               old.seen \in Registration
          /\ "unregister" \in W => ~old.missed
      BY <2>1 DEF ActiveOK
    <3>3. /\ IF w \in {"find", "resolve"} THEN R.at \in {old.user, Org}
             ELSE R.at = old.at
          /\ R.seen = old.seen \/ R.seen \in Registration
          /\ w = "stored" => R.seen \in Registration
          /\ w = "unregister" \/ R.missed = old.missed
      BY DEF Follows
    <3> HIDE DEF old, new, W
    <3>4. "find" \notin W \ {w} /\ "resolve" \notin W \ {w} => R.at \in {old.user, Org}
      BY <3>2, <3>3
    <3>5. /\ old.kind \in {"update", "bindAt"} /\ "stored" \notin W \ {w} =>
               R.seen \in Registration
          /\ "unregister" \in W \ {w} => ~R.missed
      BY <3>2, <3>3
    <3>6. /\ new.user \in User
          /\ r \in Caller <=> new.kind = "invoke"
          /\ "find" \notin Words(new.todo) /\ "resolve" \notin Words(new.todo) =>
               new.at \in {new.user, Org}
          /\ new.kind \in {"add", "bindAt"} => new.target \in Scope
          /\ new.kind = "invoke" => new.tool \in Tool
          /\ new.kind = "bindAt" /\ "stored" \notin Words(new.todo) =>
               new.seen \in Registration
          /\ new.kind = "update" /\ "stored" \notin Words(new.todo) =>
               new.seen \in Registration
          /\ "unregister" \in Words(new.todo) => ~new.missed
      BY <3>1, <3>2, <3>4, <3>5
    <3> QED BY <2>3, <3>1, <3>6 DEF ActiveOK, old, new
  <2> QED BY <2>2, <2>3 DEF Moves
<1> QED BY <1>1, <1>2 DEF Scripts

(* A request that is over.                                                 *)
Overs(r) ==
  /\ request' \in [Request -> RequestType] /\ request'[r] = Over
  /\ \A q \in Request : q # r => request'[q] = request[q]
  /\ Ahead(r)' = {} /\ ~Active(r)' /\ request'[r].outcome = "over"
  /\ request'[r].seen = None

(* Ends, likewise.                                                          *)
LEMMA EndsStep ==
  ASSUME TypeOK, NEW r \in Request, Ends(r)
  PROVE  Overs(r)
<1>1. request' \in [Request -> RequestType] /\ request'[r] = Over
      /\ \A q \in Request : q # r => request'[q] = request[q]
  BY OverType DEF Ends, TypeOK
<1>2. Over.outcome = "over" /\ Over.seen = None
  BY DEF Over, Idle
<1> QED BY <1>1, <1>2, OverType DEF Overs, Ahead, Active

(* The requests' part of the invariant when one is over.                    *)
LEMMA OversScripts ==
  ASSUME TypeOK, Scripts, plugin' = plugin, NEW r \in Request, Overs(r)
  PROVE  Scripts'
<1>1. ASSUME NEW q \in Request, q # r
      PROVE  /\ Active(q)' => ActiveOK(q)'
             /\ ~Active(q)' => DoneOK(q)'
  <2>1. request'[q] = request[q]
    BY <1>1 DEF Overs
  <2>2. /\ Active(q) => ActiveOK(q)
        /\ ~Active(q) => DoneOK(q)
    BY <1>1 DEF Scripts
  <2> QED BY <2>1, <2>2 DEF Active, ActiveOK, DoneOK
<1>2. ~Active(r)' /\ DoneOK(r)'
  BY OverType DEF Overs, DoneOK
<1> QED BY <1>1, <1>2 DEF Scripts

-----------------------------------------------------------------------------
(* Types, scripts and the transaction.                                      *)

(* The part of the invariant about types, scripts and the transaction.      *)
Basics == TypeOK /\ SavedTypes /\ Scripts /\ HolderOK

(* A request that only passes an await is as it was.                        *)
LEMMA SameFollows ==
  ASSUME TypeOK, NEW r \in Request, Active(r), NEW w,
         w \notin {"find", "resolve", "stored"}
  PROVE  Follows(r, w, request[r])
<1>1. request[r] \in RequestType
  BY DEF TypeOK
<1> QED BY <1>1 DEF Follows, Active

\* The scope a request names or has found.
LEMMA AtScope ==
  ASSUME TypeOK, Scripts, NEW r \in Request, NEW w, At(r, w),
         w \notin {"find", "resolve"}
  PROVE  request[r].at \in Scope /\ request[r].at \in {request[r].user, Org}
<1>1. ActiveOK(r) /\ Ordered(plugin, request[r].kind, w, Ahead(r))
  BY AtStep
<1>2. "find" \notin Ahead(r) /\ "resolve" \notin Ahead(r)
  BY <1>1 DEF Ordered
<1> QED BY <1>1, <1>2 DEF ActiveOK, Ahead, Scope

(* The holder stays one when a request passes any await but its BEGIN and   *)
(* COMMIT.                                                                  *)
LEMMA HolderMoves ==
  ASSUME HolderOK, holder' = holder, NEW r \in Request, Active(r), NEW w,
         w \notin {"begin", "commit"}, NEW R, Moves(r, w, R)
  PROVE  HolderOK'
<1>1. ASSUME NEW q \in Writer
      PROVE  holder' = q <=> (Active(q) /\ "commit" \in Ahead(q) /\ "begin" \notin Ahead(q))'
  <2>1. holder = q <=> Active(q) /\ "commit" \in Ahead(q) /\ "begin" \notin Ahead(q)
    BY DEF HolderOK
  <2>2. CASE q # r
    <3>1. request'[q] = request[q]
      BY <2>2 DEF Moves, Request
    <3> QED BY <2>1, <3>1 DEF Active, Ahead
  <2>3. CASE q = r /\ Active(r)'
    <3>1. Ahead(r)' = Ahead(r) \ {w}
      BY DEF Moves
    <3> QED BY <2>1, <2>3, <3>1
  <2>4. CASE q = r /\ ~Active(r)'
    <3>1. Ahead(r) = {w}
      BY <2>4 DEF Moves
    <3> QED BY <2>1, <2>4, <3>1
  <2> QED BY <2>2, <2>3, <2>4
<1> QED BY <1>1 DEF HolderOK

(* And when a request is over that holds nothing.                           *)
LEMMA HolderOvers ==
  ASSUME HolderOK, holder' = holder, NEW r \in Request, holder # r, Overs(r)
  PROVE  HolderOK'
<1>1. ASSUME NEW q \in Writer
      PROVE  holder' = q <=> (Active(q) /\ "commit" \in Ahead(q) /\ "begin" \notin Ahead(q))'
  <2>1. holder = q <=> Active(q) /\ "commit" \in Ahead(q) /\ "begin" \notin Ahead(q)
    BY DEF HolderOK
  <2>2. CASE q # r
    <3>1. request'[q] = request[q]
      BY <2>2 DEF Overs, Request
    <3> QED BY <2>1, <3>1 DEF Active, Ahead
  <2> QED BY <2>2 DEF Overs
<1> QED BY <1>1 DEF HolderOK

\* A statement on the rows: what every one of them leaves alone.
LEMMA WriteBasics ==
  ASSUME Basics, NEW r \in Writer, NEW w, w \notin {"begin", "commit"},
         NEW R, Active(r), Follows(r, w, R), Moves(r, w, R), Writes(r),
         core' \in [Scope -> Registration \cup {None}],
         config' \in [Scope -> Registration \cup {None}],
         ops' \in [Scope -> [Tool -> Registration \cup {None}]],
         bound' = bound, torn' \subseteq Scope
  PROVE  Basics'
<1>1. TypeOK'
  <2>1. request' \in [Request -> RequestType]
    BY DEF Moves
  <2> QED BY <2>1 DEF Basics, TypeOK, Writes
<1>2. SavedTypes'
  BY DEF Basics, SavedTypes, Writes
<1>3. Scripts' /\ HolderOK'
  BY MovesScripts, HolderMoves DEF Basics, Writes, Request
<1> QED BY <1>1, <1>2, <1>3 DEF Basics

\* A step that leaves the rows alone.
LEMMA QuietBasics ==
  ASSUME Basics, NEW r \in Request, NEW w, w \notin {"begin", "commit"},
         NEW R, Active(r),
         \/ Follows(r, w, R) /\ Moves(r, w, R)
         \/ Overs(r) /\ holder # r,
         UNCHANGED <<plugin, database, core, config, ops, holder, saved>>,
         spec' \in [Registration -> Specs],
         bound' \subseteq BindingType, torn' \subseteq Scope, calm' \subseteq Request
  PROVE  Basics'
<1>1. TypeOK'
  <2>1. request' \in [Request -> RequestType]
    BY DEF Moves, Overs
  <2> QED BY <2>1 DEF Basics, TypeOK
<1>2. SavedTypes'
  BY DEF Basics, SavedTypes
<1>3. Scripts' /\ HolderOK'
  BY MovesScripts, HolderMoves, OversScripts, HolderOvers DEF Basics
<1> QED BY <1>1, <1>2, <1>3 DEF Basics

(* The scopes marked by a refresh without a transaction.                    *)
LEMMA ScarsType ==
  ASSUME TypeOK, NEW r \in Request, request[r].at \in Scope
  PROVE  Scars(r) \subseteq Scope
BY DEF Scars, TypeOK

(* Basics after each statement.                                             *)
LEMMA DropOpsBasics ==
  ASSUME Basics, NEW r \in Writer, DropOps(r)
  PROVE  Moves(r, "dropOps", request[r]) /\ Basics'
<1>1. At(r, "dropOps") /\ r \in Request
  BY DEF DropOps, Queries, Request
<1>2. Active(r) /\ request[r].at \in Scope /\ Follows(r, "dropOps", request[r])
  BY <1>1, AtStep, AtScope, SameFollows DEF Basics
<1>3. Moves(r, "dropOps", request[r])
  BY <1>1, <1>2, GoesStep DEF Basics, DropOps
<1>4. ops' \in [Scope -> [Tool -> Registration \cup {None}]]
  BY <1>2 DEF DropOps, Basics, TypeOK
<1>5. torn' \subseteq Scope
  BY <1>1, <1>2, ScarsType DEF DropOps, Basics
<1> QED BY <1>1, <1>2, <1>3, <1>4, <1>5, WriteBasics DEF DropOps, Basics, TypeOK

LEMMA DropConfigBasics ==
  ASSUME Basics, NEW r \in Writer, DropConfig(r)
  PROVE  Moves(r, "dropConfig", request[r]) /\ Basics'
<1>1. At(r, "dropConfig") /\ r \in Request
  BY DEF DropConfig, Queries, Request
<1>2. Active(r) /\ request[r].at \in Scope /\ Follows(r, "dropConfig", request[r])
  BY <1>1, AtStep, AtScope, SameFollows DEF Basics
<1>3. Moves(r, "dropConfig", request[r])
  BY <1>1, <1>2, GoesStep DEF Basics, DropConfig
<1>4. config' \in [Scope -> Registration \cup {None}]
  BY <1>2 DEF DropConfig, Basics, TypeOK
<1> QED BY <1>1, <1>2, <1>3, <1>4, WriteBasics DEF DropConfig, Basics, TypeOK

LEMMA PutConfigBasics ==
  ASSUME Basics, NEW r \in Writer, PutConfig(r)
  PROVE  Moves(r, "putConfig", request[r]) /\ Basics'
<1>1. At(r, "putConfig") /\ r \in Request /\ r \in Registration
  BY DEF PutConfig, Queries, Request, Registration
<1>2. /\ Active(r) /\ request[r].at \in Scope
      /\ Follows(r, "putConfig", request[r]) /\ request[r] \in RequestType
  BY <1>1, AtStep, AtScope, SameFollows DEF Basics, TypeOK
<1>3. Moves(r, "putConfig", request[r])
  BY <1>1, <1>2, GoesStep DEF Basics, PutConfig
<1>4. config' \in [Scope -> Registration \cup {None}]
  <2>1. request[r].seen \in Registration \cup {None}
    BY <1>2 DEF RequestType
  <2> QED BY <1>1, <1>2, <2>1 DEF PutConfig, Basics, TypeOK
<1>5. torn' \subseteq Scope
  BY <1>1, <1>2, ScarsType DEF PutConfig, Basics, TypeOK
<1> QED BY <1>1, <1>2, <1>3, <1>4, <1>5, WriteBasics DEF PutConfig, Basics, TypeOK

LEMMA PutOpsBasics ==
  ASSUME Basics, NEW r \in Writer, PutOps(r)
  PROVE  Moves(r, "putOps", request[r]) /\ Basics'
<1>1. At(r, "putOps") /\ r \in Request /\ r \in Registration
  BY DEF PutOps, Queries, Request, Registration
<1>2. Active(r) /\ request[r].at \in Scope /\ Follows(r, "putOps", request[r])
  BY <1>1, AtStep, AtScope, SameFollows DEF Basics
<1>3. Moves(r, "putOps", request[r])
  BY <1>1, <1>2, GoesStep DEF Basics, PutOps
<1>4. ops' \in [Scope -> [Tool -> Registration \cup {None}]]
  BY <1>1, <1>2 DEF PutOps, Basics, TypeOK
<1> QED BY <1>1, <1>2, <1>3, <1>4, WriteBasics DEF PutOps, Basics, TypeOK

\* A binding written by itself passes no await.
LEMMA PutEachBasics ==
  ASSUME Basics, NEW r \in Writer, PutEach(r)
  PROVE  /\ \/ /\ request[r].left = {} /\ UNCHANGED ops
               /\ Moves(r, "putEach", request[r])
            \/ \E t \in request[r].left :
                 /\ ops' = [ops EXCEPT ![request[r].at][t] = r]
                 /\ Moves(r, "none", [request[r] EXCEPT !.left = @ \ {t}])
         /\ Basics'
<1>1. At(r, "putEach") /\ r \in Request /\ r \in Registration
  BY DEF PutEach, Queries, Request, Registration
<1>2. Active(r) /\ request[r].at \in Scope /\ request[r] \in RequestType
  BY <1>1, AtStep, AtScope DEF Basics, TypeOK
<1>3. torn' \subseteq Scope
  BY <1>1, <1>2, ScarsType DEF PutEach, Basics
<1>4. CASE request[r].left = {} /\ Goes(r, request[r]) /\ UNCHANGED ops
  <2>1. Follows(r, "putEach", request[r])
    BY <1>1, <1>2, SameFollows DEF Basics
  <2>2. Moves(r, "putEach", request[r])
    BY <1>1, <1>2, <1>4, <2>1, GoesStep DEF Basics
  <2>3. Basics'
    BY <1>1, <1>2, <1>3, <1>4, <2>1, <2>2, WriteBasics DEF PutEach, Basics, TypeOK
  <2> QED BY <1>4, <2>2, <2>3
<1>5. ASSUME NEW t \in request[r].left,
             ops' = [ops EXCEPT ![request[r].at][t] = r],
             request' = [request EXCEPT ![r].left = @ \ {t}]
      PROVE  Moves(r, "none", [request[r] EXCEPT !.left = @ \ {t}]) /\ Basics'
  <2> DEFINE N == [request[r] EXCEPT !.left = @ \ {t}]
  <2>1. /\ N \in RequestType /\ N.todo = request[r].todo
        /\ N.outcome = request[r].outcome
        /\ N.kind = request[r].kind /\ N.user = request[r].user
        /\ N.target = request[r].target /\ N.tool = request[r].tool
        /\ N.at = request[r].at /\ N.seen = request[r].seen
        /\ N.missed = request[r].missed /\ t \in Tool
    BY <1>2 DEF RequestType
  <2>2. request' \in [Request -> RequestType] /\ request'[r] = N
        /\ \A q \in Request : q # r => request'[q] = request[q]
    BY <1>1, <1>5, <2>1 DEF Basics, TypeOK
  <2> HIDE DEF N
  <2>3. Ahead(r)' = Ahead(r) /\ Active(r)'
    BY <1>2, <2>1, <2>2 DEF Ahead, Active
  <2>4. "none" \notin Ahead(r)
    <3>1. request[r].todo \in Seq(Await)
      BY <1>2 DEF RequestType
    <3>2. \A i \in 1 .. Len(request[r].todo) : request[r].todo[i] \in Await
      BY <3>1
    <3> QED BY <3>2 DEF Ahead, Words, From, Await
  <2>5. /\ request[r].todo # <<>>
        /\ Scripted(plugin, request[r].kind, request[r].todo)
    BY <1>1, AtStep DEF ActiveOK, Basics
  <2>6. Moves(r, "none", N)
    BY <2>1, <2>2, <2>3, <2>4, <2>5 DEF Moves
  <2>7. Follows(r, "none", N)
    BY <1>2, <2>1 DEF Follows, Active
  <2>8. ops' \in [Scope -> [Tool -> Registration \cup {None}]]
    BY <1>1, <1>2, <1>5, <2>1 DEF Basics, TypeOK
  <2>9. Basics'
    BY <1>1, <1>2, <1>3, <2>6, <2>7, <2>8, WriteBasics DEF PutEach, Basics, TypeOK
  <2> QED BY <2>6, <2>9 DEF N
<1> QED BY <1>4, <1>5 DEF PutEach

(* Basics after the statements on the rows of the core.                     *)
LEMMA RegisterBasics ==
  ASSUME Basics, NEW r \in Writer, Register(r)
  PROVE  /\ Moves(r, "register", [request[r] EXCEPT !.left = spec[r].tools])
         /\ Basics'
<1> DEFINE N == [request[r] EXCEPT !.left = spec[r].tools]
<1>1. At(r, "register") /\ r \in Request /\ r \in Registration
  BY DEF Register, Request, Registration
<1>2. Active(r) /\ request[r].at \in Scope /\ request[r] \in RequestType
  BY <1>1, AtStep, AtScope DEF Basics, TypeOK
<1>3. spec[r].tools \subseteq Tool
  BY <1>1 DEF Basics, TypeOK, Specs
<1>4. Follows(r, "register", N)
  BY <1>2, <1>3 DEF Follows, Active, RequestType
<1>5. Goes(r, N)
  BY DEF Register
<1> HIDE DEF N
<1>6. Moves(r, "register", N)
  BY <1>1, <1>4, <1>5, GoesStep DEF Basics
<1>7. core' \in [Scope -> Registration \cup {None}]
  BY <1>1, <1>2 DEF Register, Basics, TypeOK
<1>8. torn' \subseteq Scope
  BY <1>1, <1>2, ScarsType DEF Register, Basics
<1>9. Basics'
  BY <1>1, <1>2, <1>4, <1>6, <1>7, <1>8, WriteBasics DEF Register, Basics, TypeOK
<1> QED BY <1>6, <1>9 DEF N

\* What unregister finds is the innermost scope that lists the source.
LEMMA InnermostScope ==
  ASSUME NEW u \in User, NEW S, S \subseteq Scope
  PROVE  /\ Innermost(u, S) \in {None, u, Org}
         /\ Innermost(u, S) # None => Innermost(u, S) \in S /\ Innermost(u, S) \in Scope
         /\ Innermost(u, S) = None => u \notin S /\ Org \notin S
BY NamesAssumption DEF Innermost, Scope

(* unregister takes the innermost scope, whichever its caller means.        *)
LEMMA UnregisterBasics ==
  ASSUME Basics, NEW r \in Writer, Unregister(r)
  PROVE  LET s == Innermost(request[r].user, Registered) IN
         /\ Moves(r, "unregister",
              [request[r] EXCEPT !.missed = s \notin {None, request[r].at}])
         /\ Basics'
<1> DEFINE s == Innermost(request[r].user, Registered)
           N == [request[r] EXCEPT !.missed = s \notin {None, request[r].at}]
<1>1. At(r, "unregister") /\ r \in Request
  BY DEF Unregister, Request
<1>2. /\ Active(r) /\ request[r].at \in Scope /\ request[r] \in RequestType
      /\ request[r].user \in User
  BY <1>1, AtStep, AtScope DEF Basics, TypeOK, ActiveOK
<1>3. s # None => s \in Scope
  BY <1>2, InnermostScope DEF Registered
<1>a. (s \notin {None, request[r].at}) \in BOOLEAN
  OBVIOUS
<1>5. Goes(r, N)
  BY DEF Unregister
<1>7. core' = IF s = None THEN core ELSE [core EXCEPT ![s] = None]
  BY DEF Unregister
<1>8. torn' = IF s \in {None, request[r].at} THEN Scars(r)
              ELSE torn \cup {s, request[r].at}
  BY DEF Unregister
<1> HIDE DEF s
<1>4. Follows(r, "unregister", N)
  BY <1>2, <1>a DEF Follows, Active, RequestType
<1> HIDE DEF N
<1>6. Moves(r, "unregister", N)
  BY <1>1, <1>4, <1>5, GoesStep DEF Basics
<1>9. core' \in [Scope -> Registration \cup {None}]
  BY <1>3, <1>7 DEF Basics, TypeOK
<1>10. Scars(r) \subseteq Scope /\ torn \subseteq Scope
  BY <1>1, <1>2, ScarsType DEF Basics, TypeOK
<1>11. torn' \subseteq Scope
  BY <1>2, <1>3, <1>8, <1>10
<1>12. Basics'
  BY <1>1, <1>2, <1>4, <1>6, <1>9, <1>11, WriteBasics DEF Unregister, Basics, TypeOK
<1> QED BY <1>6, <1>12 DEF N, s

LEMMA DeleteCoreBasics ==
  ASSUME Basics, NEW r \in Writer, DeleteCore(r)
  PROVE  Moves(r, "deleteCore", request[r]) /\ Basics'
<1>1. At(r, "deleteCore") /\ r \in Request
  BY DEF DeleteCore, Queries, Request
<1>2. Active(r) /\ request[r].at \in Scope /\ Follows(r, "deleteCore", request[r])
  BY <1>1, AtStep, AtScope, SameFollows DEF Basics
<1>3. Moves(r, "deleteCore", request[r])
  BY <1>1, <1>2, GoesStep DEF Basics, DeleteCore
<1>4. core' \in [Scope -> Registration \cup {None}]
  BY <1>2 DEF DeleteCore, Basics, TypeOK
<1> QED BY <1>1, <1>2, <1>3, <1>4, WriteBasics DEF DeleteCore, Basics, TypeOK

(* Basics after the steps that leave the rows alone.                        *)
LEMMA UnregisterIgnoredBasics ==
  ASSUME Basics, NEW r \in Writer, UnregisterIgnored(r)
  PROVE  /\ Moves(r, "unregister",
              [request[r] EXCEPT !.missed = (request[r].kind = "removeAt")])
         /\ Basics'
<1> DEFINE N == [request[r] EXCEPT !.missed = (request[r].kind = "removeAt")]
<1>1. At(r, "unregister") /\ r \in Request
  BY DEF UnregisterIgnored, Queries, Request
<1>2. Active(r) /\ request[r].at \in Scope /\ request[r] \in RequestType
  BY <1>1, AtStep, AtScope DEF Basics, TypeOK
<1>3. Goes(r, N)
  BY DEF UnregisterIgnored
<1>4. Follows(r, "unregister", N)
  <2> DEFINE m == request[r].kind = "removeAt"
  <2>1. m \in BOOLEAN
    OBVIOUS
  <2> HIDE DEF m
  <2>2. Follows(r, "unregister", [request[r] EXCEPT !.missed = m])
    BY <1>2, <2>1 DEF Follows, Active, RequestType
  <2> QED BY <2>2 DEF m
<1> HIDE DEF N
<1>5. Moves(r, "unregister", N)
  BY <1>1, <1>3, <1>4, GoesStep DEF Basics
<1>6. torn' \subseteq Scope
  BY <1>2 DEF UnregisterIgnored, Basics, TypeOK
<1>7. Basics'
  BY <1>1, <1>2, <1>4, <1>5, <1>6, QuietBasics
     DEF UnregisterIgnored, Basics, TypeOK, tables
<1> QED BY <1>5, <1>7 DEF N

LEMMA DropBoundBasics ==
  ASSUME Basics, NEW r \in Writer, DropBound(r)
  PROVE  Moves(r, "dropBound", request[r]) /\ Basics'
<1>1. At(r, "dropBound") /\ r \in Request
  BY DEF DropBound, Queries, Request
<1>2. Active(r) /\ Follows(r, "dropBound", request[r])
  BY <1>1, AtStep, SameFollows DEF Basics
<1>3. Moves(r, "dropBound", request[r])
  BY <1>1, <1>2, GoesStep DEF Basics, DropBound
<1>4. bound' \subseteq BindingType
  BY DEF DropBound, Basics, TypeOK
<1> QED BY <1>1, <1>2, <1>3, <1>4, QuietBasics DEF DropBound, Basics, TypeOK, rows

LEMMA BindBasics ==
  ASSUME Basics, NEW r \in Writer, Bind(r)
  PROVE  Moves(r, "bind", request[r]) /\ Basics'
<1>1. At(r, "bind") /\ r \in Request /\ r \in Registration
  BY DEF Bind, Queries, Request, Registration
<1>2. Active(r) /\ Follows(r, "bind", request[r]) /\ request[r].at \in Scope
  BY <1>1, AtStep, AtScope, SameFollows DEF Basics
<1>3. Moves(r, "bind", request[r])
  BY <1>1, <1>2, GoesStep DEF Basics, Bind
<1>4. /\ request[r].target \in Scope
      /\ (IF request[r].kind = "add" THEN r ELSE request[r].seen) \in Registration
  <2>1. /\ ActiveOK(r) /\ request[r].kind \in {"add", "bindAt"}
        /\ "stored" \notin Ahead(r)
    BY <1>1, AtStep DEF Basics, Ordered
  <2> QED BY <1>1, <2>1 DEF ActiveOK, Ahead
<1>5. bound' \subseteq BindingType
  <2> DEFINE v == IF request[r].kind = "add" THEN r ELSE request[r].seen
             b == [source |-> request[r].at, target |-> request[r].target,
                   made |-> v, late |-> config[request[r].at] # v]
             same == {c \in bound : c.source = request[r].at
                                    /\ c.target = request[r].target}
  <2>1. bound' = (bound \ same) \cup {b} \/ bound' = bound
    BY DEF Bind
  <2>2. b \in BindingType
    BY <1>2, <1>4 DEF BindingType
  <2> HIDE DEF b
  <2> QED BY <2>1, <2>2 DEF Basics, TypeOK
<1> QED BY <1>1, <1>2, <1>3, <1>5, QuietBasics DEF Bind, Basics, TypeOK, rows

\* A request whose script has reached a look-up or a read has no transaction.
LEMMA NoHolder ==
  ASSUME Basics, NEW r \in Request, NEW w, At(r, w),
         w \in {"find", "stored"} \/ r \in Caller
  PROVE  holder # r
<1>1. w \in {"find", "stored"} => ("commit" \in Ahead(r) => "begin" \in Ahead(r))
  BY AtStep DEF Basics, Ordered
<1>2. r \in Writer => (holder = r => "commit" \in Ahead(r) /\ "begin" \notin Ahead(r))
  BY DEF Basics, HolderOK
<1>3. holder = r => r \in Writer
  BY NamesAssumption DEF Basics, TypeOK, Request
<1> QED BY <1>1, <1>2, <1>3, NamesAssumption

LEMMA FindBasics ==
  ASSUME Basics, NEW r \in Writer, Find(r)
  PROVE  LET s == Innermost(request[r].user, Registered) IN
         /\ \/ s # None /\ Moves(r, "find", [request[r] EXCEPT !.at = s])
            \/ Overs(r)
         /\ holder # r
         /\ Basics'
<1> DEFINE s == Innermost(request[r].user, Registered)
           N == [request[r] EXCEPT !.at = s]
<1>1. At(r, "find") /\ r \in Request
  BY DEF Find, Queries, Request
<1>2. /\ Active(r) /\ request[r] \in RequestType /\ holder # r
      /\ request[r].user \in User
  BY <1>1, AtStep, NoHolder DEF Basics, TypeOK, ActiveOK
<1>3. s \in {None, request[r].user, Org} /\ (s # None => s \in Scope)
  BY <1>2, InnermostScope DEF Registered
<1>4. IF s = None THEN Ends(r) ELSE Goes(r, N)
  BY DEF Find
<1> HIDE DEF s
<1>5. CASE s = None
  <2>1. Overs(r)
    BY <1>1, <1>4, <1>5, EndsStep DEF Basics
  <2>2. Basics'
    BY <1>1, <1>2, <2>1, QuietBasics DEF Find, Basics, TypeOK, tables
  <2> QED BY <1>2, <2>1, <2>2 DEF s
<1>6. CASE s # None
  <2>1. Follows(r, "find", N)
    BY <1>2, <1>3, <1>6 DEF Follows, Active, RequestType
  <2> HIDE DEF N
  <2>2. Moves(r, "find", N)
    BY <1>1, <1>4, <1>6, <2>1, GoesStep DEF Basics
  <2>3. Basics'
    BY <1>1, <1>2, <2>1, <2>2, QuietBasics DEF Find, Basics, TypeOK, tables
  <2> QED BY <1>2, <1>6, <2>2, <2>3 DEF s, N
<1> QED BY <1>5, <1>6

LEMMA StoredBasics ==
  ASSUME Basics, NEW r \in Writer, Stored(r)
  PROVE  LET v == config[request[r].at] IN
         /\ request[r].at \in Scope
         /\ \/ v # None /\ Moves(r, "stored", [request[r] EXCEPT !.seen = v])
            \/ Overs(r)
         /\ holder # r
         /\ Basics'
<1> DEFINE v == config[request[r].at]
           N == [request[r] EXCEPT !.seen = v]
<1>1. At(r, "stored") /\ r \in Request
  BY DEF Stored, Queries, Request
<1>2. /\ Active(r) /\ request[r] \in RequestType /\ holder # r
      /\ request[r].at \in Scope
  BY <1>1, AtStep, AtScope, NoHolder DEF Basics, TypeOK
<1>3. v \in Registration \cup {None}
  BY <1>2 DEF Basics, TypeOK
<1>4. IF v = None THEN Ends(r) ELSE Goes(r, N)
  BY DEF Stored
<1> HIDE DEF v
<1>5. CASE v = None
  <2>1. Overs(r)
    BY <1>1, <1>4, <1>5, EndsStep DEF Basics
  <2>2. Basics'
    BY <1>1, <1>2, <2>1, QuietBasics DEF Stored, Basics, TypeOK, tables
  <2> QED BY <1>2, <2>1, <2>2 DEF v
<1>6. CASE v # None
  <2>1. Follows(r, "stored", N)
    BY <1>2, <1>3, <1>6 DEF Follows, Active, RequestType
  <2> HIDE DEF N
  <2>2. Moves(r, "stored", N)
    BY <1>1, <1>4, <1>6, <2>1, GoesStep DEF Basics
  <2>3. Basics'
    BY <1>1, <1>2, <2>1, <2>2, QuietBasics DEF Stored, Basics, TypeOK, tables
  <2> QED BY <1>2, <1>6, <2>2, <2>3 DEF v, N
<1> QED BY <1>5, <1>6

(* A fetch changes the specification of its registration only.              *)
LEMMA FetchBasics ==
  ASSUME Basics, NEW r \in Writer, Fetch(r)
  PROVE  /\ Moves(r, "fetch", request[r])
         /\ \A v \in Registration : v # r => spec'[v] = spec[v]
         /\ Basics'
<1>1. At(r, "fetch") /\ r \in Request /\ r \in Registration
  BY DEF Fetch, Request, Registration
<1>2. Active(r) /\ Follows(r, "fetch", request[r])
  BY <1>1, AtStep, SameFollows DEF Basics
<1>3. Moves(r, "fetch", request[r])
  BY <1>1, <1>2, GoesStep DEF Basics, Fetch
<1>4. /\ spec' \in [Registration -> Specs]
      /\ \A v \in Registration : v # r => spec'[v] = spec[v]
  BY <1>1 DEF Fetch, Basics, TypeOK
<1>5. calm' \subseteq Request
  BY <1>1 DEF Fetch, Basics, TypeOK
<1> QED BY <1>1, <1>2, <1>3, <1>4, <1>5, QuietBasics
        DEF Fetch, Basics, TypeOK, tables

(* Basics after BEGIN and COMMIT.                                           *)
LEMMA BeginsBasics ==
  ASSUME Basics, NEW r \in Writer, Begins(r)
  PROVE  Moves(r, "begin", request[r]) /\ Basics'
<1>1. At(r, "begin") /\ r \in Request
  BY DEF Begins, Request
<1>2. /\ Active(r) /\ Follows(r, "begin", request[r])
      /\ "commit" \in Ahead(r) /\ "begin" \in Ahead(r)
  BY <1>1, AtStep, SameFollows DEF Basics, Ordered
<1>3. Moves(r, "begin", request[r])
  BY <1>1, <1>2, GoesStep DEF Basics, Begins
<1>4. TypeOK'
  <2>1. request' \in [Request -> RequestType]
    BY <1>3 DEF Moves
  <2> QED BY <1>1, <2>1 DEF Begins, Basics, TypeOK, tables
<1>5. SavedTypes'
  <2>1. /\ saved'[1] = core /\ saved'[2] = config /\ saved'[3] = ops
        /\ saved'[4] = bound /\ saved'[5] = torn
    BY DEF Begins
  <2> QED BY <2>1 DEF Basics, TypeOK, SavedTypes
<1>6. Scripts'
  BY <1>1, <1>2, <1>3, MovesScripts DEF Begins, Basics
<1>7. HolderOK'
  <2> SUFFICES ASSUME NEW q \in Writer
               PROVE holder' = q <=> (Active(q) /\ "commit" \in Ahead(q)
                                      /\ "begin" \notin Ahead(q))'
    BY DEF HolderOK
  <2>1. CASE q # r
    <3>1. request'[q] = request[q]
      BY <1>3, <2>1 DEF Moves, Request
    <3>2. holder # q /\ holder' # q
      BY <2>1, NamesAssumption DEF Begins, Request
    <3> QED BY <3>1, <3>2 DEF Active, Ahead, Basics, HolderOK
  <2>2. CASE q = r
    <3>1. Ahead(r)' = Ahead(r) \ {"begin"} /\ Active(r)'
      BY <1>2, <1>3 DEF Moves
    <3>2. holder' = r
      BY DEF Begins
    <3> QED BY <1>2, <2>2, <3>1, <3>2
  <2> QED BY <2>1, <2>2
<1> QED BY <1>3, <1>4, <1>5, <1>6, <1>7 DEF Basics

LEMMA CommitsBasics ==
  ASSUME Basics, NEW r \in Writer, Commits(r)
  PROVE  Overs(r) /\ holder = r /\ Ahead(r) = {"commit"} /\ Active(r) /\ Basics'
<1>1. At(r, "commit") /\ r \in Request
  BY DEF Commits, Request
<1>2. /\ Active(r) /\ Follows(r, "commit", request[r])
      /\ Ahead(r) = {"commit"} /\ request[r].at \in Scope
  BY <1>1, AtStep, AtScope, SameFollows DEF Basics, Ordered
<1>3. holder = r
  BY <1>2 DEF Basics, HolderOK
<1>4. Moves(r, "commit", request[r])
  BY <1>1, <1>2, GoesStep DEF Basics, Commits
<1>5. request'[r] = Over
  <2>1. \/ request'[r] = Over
        \/ Active(r)' /\ request'[r].todo # <<>> /\ Ahead(r)' = {}
    BY <1>2, <1>4 DEF Moves
  <2>2. ~(request'[r].todo # <<>> /\ Ahead(r)' = {} /\ Active(r)')
    <3>1. Scripts'
      BY <1>1, <1>2, <1>4, MovesScripts DEF Commits, Basics
    <3>2. request' \in [Request -> RequestType]
      BY <1>4 DEF Moves
    <3>3. ASSUME request'[r].todo # <<>> PROVE Ahead(r)' # {}
      <4>1. request'[r].todo \in Seq(Await)
        BY <1>1, <3>2 DEF RequestType
      <4>2. 1 \in 1 .. Len(request'[r].todo)
        BY <4>1, <3>3
      <4> QED BY <4>2 DEF Ahead, Words, From
    <3> QED BY <3>3
  <2> QED BY <2>1, <2>2
<1>6. Overs(r)
  <2>1. Over.outcome = "over" /\ Over.seen = None
    BY DEF Over, Idle
  <2> QED BY <1>4, <1>5, <2>1, OverType DEF Moves, Overs, Ahead, Active
<1>7. TypeOK'
  <2>1. request' \in [Request -> RequestType]
    BY <1>6 DEF Overs
  <2>2. torn' \subseteq Scope
    BY DEF Commits, Basics, TypeOK
  <2> QED BY <2>1, <2>2 DEF Commits, Basics, TypeOK, tables
<1>8. SavedTypes'
  BY DEF Commits, SavedTypes
<1>9. Scripts'
  BY <1>1, <1>6, OversScripts DEF Commits, Basics
<1>10. HolderOK'
  <2> SUFFICES ASSUME NEW q \in Writer
               PROVE holder' = q <=> (Active(q) /\ "commit" \in Ahead(q)
                                      /\ "begin" \notin Ahead(q))'
    BY DEF HolderOK
  <2>1. holder' # q
    BY NamesAssumption DEF Commits, Request
  <2>2. CASE q # r
    <3>1. request'[q] = request[q] /\ holder # q
      BY <1>3, <1>6, <2>2 DEF Overs, Request
    <3> QED BY <2>1, <3>1 DEF Active, Ahead, Basics, HolderOK
  <2>3. CASE q = r
    BY <1>6, <2>1, <2>3 DEF Overs
  <2> QED BY <2>2, <2>3
<1> QED BY <1>2, <1>3, <1>6, <1>7, <1>8, <1>9, <1>10 DEF Basics

(* A failure, of the holder or of another: the rollback restores the types. *)
LEMMA FailBasics ==
  ASSUME Basics, NEW r \in Writer, Fail(r)
  PROVE  Overs(r) /\ Active(r) /\ Basics'
<1>1. r \in Request /\ Active(r)
  BY DEF Fail, Request, Basics, Scripts, DoneOK
<1>2. Overs(r)
  BY <1>1, EndsStep DEF Fail, Basics
<1>3. Scripts'
  BY <1>1, <1>2, OversScripts DEF Fail, Basics
<1>4. CASE holder # r
  <2>1. HolderOK'
    BY <1>1, <1>2, <1>4, HolderOvers DEF Fail, Basics
  <2>2. TypeOK'
    <3>1. request' \in [Request -> RequestType]
      BY <1>2 DEF Overs
    <3> QED BY <1>4, <3>1 DEF Fail, Basics, TypeOK, tables
  <2>3. SavedTypes'
    BY <1>4 DEF Fail, Basics, SavedTypes
  <2> QED BY <1>1, <1>2, <1>3, <2>1, <2>2, <2>3 DEF Basics
<1>5. CASE holder = r
  <2>1. holder' = None /\ holder # None
    BY <1>1, <1>5, NamesAssumption DEF Fail, Request
  <2>2. Halfway \subseteq Scope
    <3> SUFFICES ASSUME NEW q \in Request, request[q].outcome = "running", Bare(q),
                        Head(request[q].todo) \notin {"find", "stored", "fetch"}
                 PROVE  request[q].at \in Scope
      BY DEF Halfway
    <3>1. Active(q) /\ ActiveOK(q) /\ request[q].todo # <<>>
      BY DEF Active, Basics, Scripts, ActiveOK
    <3>2. At(q, Head(request[q].todo))
      BY <3>1 DEF At
    <3>3. Head(request[q].todo) # "resolve"
      <4>1. Ordered(plugin, request[q].kind, Head(request[q].todo), Ahead(q))
        BY <3>2, AtStep DEF Basics
      <4> QED BY <4>1 DEF Ordered, Bare, CallWords
    <3> QED BY <3>2, <3>3, AtScope DEF Basics
  <2>3. TypeOK'
    <3>1. request' \in [Request -> RequestType]
      BY <1>2 DEF Overs
    <3>2. /\ core' = saved[1] /\ config' = saved[2] /\ ops' = saved[3]
          /\ bound' = saved[4] /\ torn' = saved[5] \cup Halfway /\ calm' = {}
          /\ UNCHANGED <<plugin, database, spec>>
      BY <1>5 DEF Fail
    <3> QED BY <2>1, <2>2, <3>1, <3>2 DEF Basics, TypeOK, SavedTypes
  <2>4. SavedTypes'
    BY <2>1 DEF SavedTypes
  <2>5. HolderOK'
    <3> SUFFICES ASSUME NEW q \in Writer
                 PROVE holder' = q <=> (Active(q) /\ "commit" \in Ahead(q)
                                        /\ "begin" \notin Ahead(q))'
      BY DEF HolderOK
    <3>1. holder' # q
      BY <2>1, NamesAssumption DEF Request
    <3>2. CASE q # r
      <4>1. request'[q] = request[q] /\ holder # q
        BY <1>2, <1>5, <3>2 DEF Overs, Request
      <4> QED BY <3>1, <4>1 DEF Active, Ahead, Basics, HolderOK
    <3>3. CASE q = r
      BY <1>2, <3>1, <3>3 DEF Overs
    <3> QED BY <3>2, <3>3
  <2> QED BY <1>1, <1>2, <1>3, <2>3, <2>4, <2>5 DEF Basics
<1> QED BY <1>4, <1>5

(* Whatever the plugin, a new request has a script in order before it.      *)
LEMMA ScriptFits ==
  ASSUME plugin \in Plugins, NEW kind \in Kinds
  PROVE  Fits(plugin, kind, Script(kind))
BY OpenapiScripts, GoogleScripts, McpScripts, GraphqlScripts, RawScripts DEF Plugins

\* A request is made, with its script before it.
Asked(r, kind, u, s) ==
  LET new == request'[r]
  IN /\ request[r].outcome = "none" /\ holder # r
     /\ request' \in [Request -> RequestType]
     /\ \A q \in Request : q # r => request'[q] = request[q]
     /\ Active(r)' /\ Entry(plugin, kind, Ahead(r)')
     /\ new.kind = kind /\ new.user = u /\ new.at = s /\ new.seen = None

(* A request is made.                                                       *)
LEMMA AskBasics ==
  ASSUME Basics, NEW r \in Request, NEW kind, NEW u \in User, NEW s, NEW target,
         NEW t, Ask(r, kind, u, s, target, t),
         s \in {u, Org, None}, target \in Scope \cup {None}, t \in Tool \cup {None},
         r \in Caller <=> kind = "invoke",
         kind \in {"invoke", "remove", "refresh"} \/ s \in {u, Org},
         kind \in {"add", "bindAt"} => target \in Scope,
         kind = "invoke" => t \in Tool
  PROVE  Asked(r, kind, u, s) /\ Basics'
<1> DEFINE N == [Idle EXCEPT !.kind = kind, !.user = u, !.at = s, !.target = target,
                             !.tool = t, !.todo = Script(kind), !.outcome = "running"]
<1>1. /\ kind \in Kinds /\ request[r].outcome = "none" /\ plugin \in Plugins
      /\ request' = [request EXCEPT ![r] = N]
      /\ UNCHANGED <<plugin, database, core, config, ops, bound, spec, holder,
                     saved, calm, torn>>
  BY DEF Ask, Basics, TypeOK, tables
<1>2. Fits(plugin, kind, Script(kind))
  BY <1>1, ScriptFits
<1>3. kind \in {"none", "add", "remove", "removeAt", "refresh", "refreshAt",
                "update", "bindAt", "invoke"}
  BY <1>1 DEF Kinds
<1>4. /\ N.todo = Script(kind) /\ N.kind = kind /\ N.user = u /\ N.at = s
      /\ N.target = target /\ N.tool = t /\ N.outcome = "running" /\ N.seen = None
      /\ N.missed = FALSE
  BY DEF Idle
<1>5. N \in RequestType
  BY <1>2, <1>3 DEF Idle, RequestType, Fits, Scope
<1> HIDE DEF N
<1>6. /\ request' \in [Request -> RequestType] /\ request'[r] = N
      /\ \A q \in Request : q # r => request'[q] = request[q]
  BY <1>1, <1>5 DEF Basics, TypeOK
<1>7. ~Active(r) /\ Active(r)' /\ Entry(plugin, kind, Ahead(r)')
  BY <1>1, <1>2, <1>4, <1>6 DEF Active, Ahead, Fits
<1>8. holder # r
  BY <1>7, NamesAssumption DEF Basics, HolderOK, TypeOK, Request
<1>9. Asked(r, kind, u, s)
  BY <1>1, <1>4, <1>6, <1>7, <1>8 DEF Asked
<1>10. TypeOK' /\ SavedTypes'
  BY <1>1, <1>6 DEF Basics, TypeOK, SavedTypes
<1>11. Scripts'
  <2>1. ASSUME NEW q \in Request, q # r
        PROVE  /\ Active(q)' => ActiveOK(q)'
               /\ ~Active(q)' => DoneOK(q)'
    <3>1. request'[q] = request[q]
      BY <1>6, <2>1
    <3>2. /\ Active(q) => ActiveOK(q)
          /\ ~Active(q) => DoneOK(q)
      BY <2>1 DEF Basics, Scripts
    <3> QED BY <1>1, <3>1, <3>2 DEF Active, ActiveOK, DoneOK
  <2>2. ActiveOK(r)'
    <3>1. Entry(plugin, kind, Words(N.todo)) /\ N.todo # <<>>
      BY <1>2, <1>4, OverType DEF Fits, Entry
    <3>2. Scripted(plugin, kind, N.todo)
      BY <1>2, <1>4 DEF Fits
    <3>3. "find" \notin Words(N.todo) /\ "resolve" \notin Words(N.todo) =>
            N.at \in {N.user, Org}
      BY <1>4, <3>1 DEF Entry
    <3>4. /\ N.kind = "bindAt" /\ "stored" \notin Words(N.todo) =>
               N.seen \in Registration
          /\ N.kind = "update" /\ "stored" \notin Words(N.todo) =>
               N.seen \in Registration
      BY <1>4, <3>1 DEF Entry
    <3>5. /\ N.user \in User /\ (r \in Caller <=> N.kind = "invoke")
          /\ N.kind \in {"add", "bindAt"} => N.target \in Scope
          /\ N.kind = "invoke" => N.tool \in Tool
          /\ ~N.missed /\ Scripted(plugin, N.kind, N.todo)
      BY <1>4, <3>2
    <3>6. request'[r] = N /\ plugin' = plugin
      BY <1>1, <1>6
    <3> QED BY <3>1, <3>3, <3>4, <3>5, <3>6 DEF ActiveOK
  <2> QED BY <1>7, <2>1, <2>2 DEF Scripts
<1>12. HolderOK'
  <2> SUFFICES ASSUME NEW q \in Writer
               PROVE holder' = q <=> (Active(q) /\ "commit" \in Ahead(q)
                                      /\ "begin" \notin Ahead(q))'
    BY DEF HolderOK
  <2>1. CASE q # r
    <3>1. request'[q] = request[q]
      BY <1>6, <2>1 DEF Request
    <3> QED BY <1>1, <3>1 DEF Active, Ahead, Basics, HolderOK
  <2>2. CASE q = r
    BY <1>1, <1>7, <1>8, <2>2 DEF Entry
  <2> QED BY <2>1, <2>2
<1> QED BY <1>9, <1>10, <1>11, <1>12 DEF Basics

\* The requests a writer makes.
LEMMA WriterAsks ==
  ASSUME Basics, NEW r \in Writer, NEW u \in User,
         AskAt(r, u) \/ AskFor(r, u) \/ AskBinding(r, u)
  PROVE  /\ \E kind \in Kinds, s \in {u, Org, None} :
              Asked(r, kind, u, s) /\ kind # "invoke"
         /\ UNCHANGED <<plugin, database, core, config, ops, bound, spec, holder,
                        saved, calm, torn>>
         /\ Basics'
<1>1. r \in Request /\ r \notin Caller /\ {u, Org} \subseteq Scope
  BY NamesAssumption DEF Request, Scope
<1>2. ASSUME NEW kind \in {"add", "removeAt", "refreshAt", "update"},
             NEW s \in {u, Org}, Ask(r, kind, u, s, s, None)
      PROVE  Asked(r, kind, u, s) /\ Basics'
  BY <1>1, <1>2, AskBasics
<1>3. ASSUME NEW kind \in {"remove", "refresh"}, Ask(r, kind, u, None, None, None)
      PROVE  Asked(r, kind, u, None) /\ Basics'
  BY <1>1, <1>3, AskBasics
<1>4. ASSUME NEW s \in {u, Org}, NEW target \in {u, s},
             Ask(r, "bindAt", u, s, target, None)
      PROVE  Asked(r, "bindAt", u, s) /\ Basics'
  BY <1>1, <1>4, AskBasics
<1>5. ASSUME NEW kind, NEW s, NEW target, NEW t, Ask(r, kind, u, s, target, t)
      PROVE  /\ kind \in Kinds
             /\ UNCHANGED <<plugin, database, core, config, ops, bound, spec,
                            holder, saved, calm, torn>>
  BY <1>5 DEF Ask, tables
<1>6. CASE AskAt(r, u)
  BY <1>2, <1>5, <1>6 DEF AskAt
<1>7. CASE AskFor(r, u)
  BY <1>3, <1>5, <1>7 DEF AskFor
<1>8. CASE AskBinding(r, u)
  BY <1>4, <1>5, <1>8 DEF AskBinding
<1> QED BY <1>6, <1>7, <1>8

-----------------------------------------------------------------------------
(* The rows.                                                                *)

(* What a statement of r may do to the rows: to those of the scope it names *)
(* in its transaction, and to those of scopes that it marks.                *)
Framed(r) ==
  \A s \in Scope :
    \/ s \in torn'
    \/ holder = r /\ s = request[r].at
    \/ /\ core'[s] = core[s] /\ ops'[s] = ops[s]
       /\ plugin # "mcp" => config'[s] = config[s]

\* Where the values it writes come from.
Sourced(r) ==
  \A s \in Scope :
    /\ core'[s] \in {core[s], r, None}
    /\ config'[s] \in {config[s], r, None, request[r].seen}
    /\ \A t \in Tool : ops'[s][t] \in {ops[s][t], r, None}
    /\ plugin = "raw" => \A t \in Tool : ops'[s][t] \in {ops[s][t], None}

(* The parts of Deep after a statement on the rows. Nothing is of a         *)
(* registration that has yet to fetch.                                      *)
LEMMA WriteFresh ==
  ASSUME FreshOK, NEW r \in Writer, Active(r), NEW w, NEW R, Moves(r, w, R),
         R.seen = request[r].seen, "fetch" \notin Ahead(r),
         UNCHANGED <<holder, saved>>, Sourced(r)
  PROVE  FreshOK'
<1> SUFFICES ASSUME NEW q \in Writer, NotYet(q)' PROVE Absent(q)'
  BY DEF FreshOK
<1>1. r \in Request /\ q \in Request /\ q # None
  BY NamesAssumption DEF Request
<1>2. q # r
  <2>1. Over.outcome = "over"
    BY DEF Over, Idle
  <2>2. "fetch" \notin Ahead(r)' /\ request'[r].outcome # "none"
    BY <2>1 DEF Moves, Active
  <2> QED BY <2>2 DEF NotYet
<1>3. NotYet(q)
  <2>1. request'[q] = request[q]
    BY <1>1, <1>2 DEF Moves
  <2> QED BY <2>1 DEF NotYet, Active, Ahead
<1>4. Absent(q)
  BY <1>3 DEF FreshOK
<1>5. \A x \in Request : request'[x].seen # q
  <2>1. ASSUME NEW x \in Request PROVE request'[x].seen # q
    <3>1. request[x].seen # q
      BY <1>4 DEF Absent
    <3>2. Over.seen = None
      BY DEF Over, Idle
    <3>3. request'[x].seen = request[x].seen \/ request'[x].seen = None
      BY <3>2 DEF Moves
    <3> QED BY <1>1, <3>1, <3>3
  <2> QED BY <2>1
<1>6. request[r].seen # q
  BY <1>1, <1>4 DEF Absent
<1>7. \A s \in Scope : /\ core'[s] # q /\ config'[s] # q
                       /\ \A t \in Tool : ops'[s][t] # q
  BY <1>1, <1>2, <1>4, <1>6 DEF Absent, Sourced
<1> QED BY <1>4, <1>5, <1>7 DEF Absent

\* The holder's scope, and the others' requests, stay.
LEMMA WriteHolder ==
  ASSUME Basics, HolderOK', NEW r \in Writer, NEW w, NEW R, Moves(r, w, R),
         R.at = request[r].at, holder' = holder, holder # None
  PROVE  request'[holder].at = request[holder].at
<1>1. holder \in Writer /\ holder \in Request
  BY DEF Basics, TypeOK, Request
<1>2. CASE holder # r
  BY <1>1, <1>2 DEF Moves
<1>3. CASE holder = r
  <2>1. Active(r)'
    BY <1>3 DEF HolderOK
  <2>2. Over.outcome = "over"
    BY DEF Over, Idle
  <2> QED BY <1>3, <2>1, <2>2 DEF Moves, Active
<1> QED BY <1>2, <1>3

(* The scopes the statement does not write stay as they are.                *)
LEMMA WriteOthers ==
  ASSUME Basics, OthersWhole, HolderOK', NEW r \in Writer, NEW w, NEW R,
         Moves(r, w, R), R.at = request[r].at, Writes(r),
         torn \subseteq torn', Framed(r)
  PROVE  OthersWhole'
<1> SUFFICES ASSUME plugin' # "raw", NEW s \in Scope, s \notin torn',
                    ~(holder' # None /\ request'[holder'].at = s)
             PROVE  Whole(s)'
  BY DEF OthersWhole
<1>1. UNCHANGED <<plugin, holder, spec>>
  BY DEF Writes
<1>2. ~(holder # None /\ request[holder].at = s)
  BY <1>1, WriteHolder
<1>3. r # None
  BY NamesAssumption
<1>4. /\ core'[s] = core[s] /\ ops'[s] = ops[s]
      /\ plugin # "mcp" => config'[s] = config[s]
  BY <1>2, <1>3 DEF Framed
<1>5. Whole(s)
  BY <1>1, <1>2 DEF OthersWhole
<1> QED BY <1>1, <1>4, <1>5 DEF Whole, OpOf, HasOps

\* The one who has the transaction knows its scope.
LEMMA HolderScope ==
  ASSUME Basics, NEW q \in Writer, holder = q
  PROVE  request[q].at \in Scope
<1>1. q \in Request /\ Active(q) /\ "commit" \in Ahead(q) /\ "begin" \notin Ahead(q)
  BY DEF Basics, HolderOK, Request
<1>2. ActiveOK(q)
  BY <1>1 DEF Basics, Scripts
<1>3. PICK x \in Await : At(q, x)
  <2>1. request[q].todo \in Seq(Await) /\ request[q].todo # <<>>
    BY <1>1, <1>2 DEF Basics, TypeOK, RequestType, ActiveOK
  <2> QED BY <2>1 DEF At
<1>4. Ordered(plugin, request[q].kind, x, Ahead(q))
  BY <1>1, <1>3, AtStep DEF Basics
<1>5. x # "find"
  BY <1>1, <1>4 DEF Ordered
<1>6. x # "resolve"
  <2>1. q \notin Caller
    BY NamesAssumption
  <2> QED BY <1>2, <1>4, <2>1 DEF Ordered, ActiveOK, CallWords
<1> QED BY <1>1, <1>3, <1>5, <1>6, AtScope DEF Basics

\* Nobody else keeps a claim on the rows but the holder, on its own scope.
LEMMA WriteProgress ==
  ASSUME Basics, ProgressOK, plugin # "raw", NEW r \in Writer, NEW w, NEW R,
         Moves(r, w, R), Writes(r), torn \subseteq torn', Framed(r),
         NEW q \in Writer, q # r, Placed(q)', Unhit(q)'
  PROVE  Progress(q)'
<1>1. UNCHANGED <<plugin, holder, spec>> /\ q \notin calm' /\ r \in Request
      /\ q \in Request
  BY DEF Writes, Request
<1>2. request'[q] = request[q]
  BY <1>1 DEF Moves
<1>3. holder = q /\ request[q].at \notin torn' /\ Active(q)
  BY <1>1, <1>2 DEF Unhit, Placed, Active
<1>4. Progress(q)
  BY <1>3 DEF ProgressOK, Placed, Unhit
<1>5. request[q].at \in Scope
  BY <1>3, HolderScope
<1>6. LET s == request[q].at IN
      /\ core'[s] = core[s] /\ ops'[s] = ops[s]
      /\ plugin # "mcp" => config'[s] = config[s]
  BY <1>3, <1>5 DEF Framed
<1>7. Ahead(q)' = Ahead(q)
  BY <1>2 DEF Ahead
<1>8. Coming(q)' = Coming(q)
  BY <1>2, <1>6, <1>7 DEF Coming
<1> QED BY <1>1, <1>2, <1>4, <1>6, <1>7, <1>8 DEF Progress, OpOf, HasOps

\* What a step of r leaves before the holder, if it is no step on the rows.
LEMMA WriteUndisturbed ==
  ASSUME Basics, Undisturbed, HolderOK', NEW r \in Writer, Active(r), NEW w, NEW R,
         Moves(r, w, R), Writes(r), w # "fetch",
         w = "register" => holder \in {None, r}
  PROVE  Undisturbed'
<1> SUFFICES ASSUME plugin' # "raw", NEW q \in Writer, q \in calm', Active(q)',
                    Bare(q)', "fetch" \notin Ahead(q)', "register" \notin Ahead(q)',
                    holder' \notin {None, q}
             PROVE  Untouched(plugin, Ahead(holder))'
  BY DEF Undisturbed
<1>1. /\ UNCHANGED <<plugin, holder>> /\ q = r /\ q \in calm
      /\ r \in Request /\ holder # r /\ holder # None
  BY DEF Writes, Request
<1>2. Over.outcome = "over"
  BY DEF Over, Idle
<1>3. request'[r].kind = request[r].kind /\ Ahead(r)' = Ahead(r) \ {w}
  BY <1>1, <1>2 DEF Moves, Active
<1>4. Bare(r) /\ "fetch" \notin Ahead(r) /\ "register" \notin Ahead(r)
  BY <1>1, <1>3 DEF Bare
<1>5. Untouched(plugin, Ahead(holder))
  BY <1>1, <1>4 DEF Undisturbed
<1>6. request'[holder] = request[holder]
  BY <1>1 DEF Moves, Basics, TypeOK, Request
<1> QED BY <1>1, <1>5, <1>6 DEF Ahead

(* A statement on the rows disturbs every call.                             *)
LEMMA WriteCalls ==
  ASSUME NEW r \in Writer, Writes(r)
  PROVE  CallsOK'
<1>1. \A c \in Caller : c \notin calm'
  BY NamesAssumption DEF Writes
<1> QED BY <1>1 DEF CallsOK, CallOK

(* It leaves the saved tables alone.                                        *)
LEMMA WriteSaved ==
  ASSUME RawOK, SavedWhole, NEW r \in Writer, Writes(r), Sourced(r)
  PROVE  RawOK' /\ SavedWhole'
<1>1. UNCHANGED <<plugin, spec, holder, saved>>
  BY DEF Writes
<1>2. RawOK'
  BY <1>1 DEF RawOK, Sourced
<1>3. SavedWhole'
  BY <1>1 DEF SavedWhole, OpOf, HasOps
<1> QED BY <1>2, <1>3

\* A step that leaves the bindings and the plugin's source rows alone.
LEMMA KeepsBound ==
  ASSUME Basics, BoundOK, HolderOK', NEW r \in Request, NEW w, NEW R,
         \/ Moves(r, w, R) /\ w \notin {"dropBound", "dropConfig", "putConfig"}
            /\ R.at = request[r].at
         \/ holder # r /\ \A q \in Request : q # r => request'[q] = request[q],
         UNCHANGED <<plugin, holder, saved, bound, config>>
  PROVE  BoundOK'
<1>1. holder # None =>
        /\ request'[holder].at = request[holder].at
        /\ "dropBound" \in Ahead(holder) => "dropBound" \in Ahead(holder)'
        /\ "putConfig" \in Ahead(holder)' => "putConfig" \in Ahead(holder)
        /\ "dropConfig" \notin Ahead(holder)' => "dropConfig" \notin Ahead(holder)
  <2> SUFFICES ASSUME holder # None
               PROVE  /\ request'[holder].at = request[holder].at
                      /\ "dropBound" \in Ahead(holder) => "dropBound" \in Ahead(holder)'
                      /\ "putConfig" \in Ahead(holder)' => "putConfig" \in Ahead(holder)
                      /\ "dropConfig" \notin Ahead(holder)' =>
                           "dropConfig" \notin Ahead(holder)
    OBVIOUS
  <2>1. holder \in Writer /\ holder \in Request
    BY DEF Basics, TypeOK, Request
  <2>2. CASE holder # r
    <3>1. request'[holder] = request[holder]
      BY <2>1, <2>2 DEF Moves
    <3> QED BY <3>1 DEF Ahead
  <2>3. CASE holder = r
    <3>1. Active(r)' /\ Moves(r, w, R) /\ R.at = request[r].at
          /\ w \notin {"dropBound", "dropConfig", "putConfig"}
      BY <2>1, <2>3 DEF HolderOK
    <3>2. Over.outcome = "over"
      BY DEF Over, Idle
    <3>3. request'[r].at = request[r].at /\ Ahead(r)' = Ahead(r) \ {w}
      BY <3>1, <3>2 DEF Moves, Active
    <3> QED BY <2>3, <3>1, <3>3
  <2> QED BY <2>2, <2>3
<1>2. /\ plugin' = plugin /\ holder' = holder /\ saved' = saved
      /\ bound' = bound /\ config' = config
  OBVIOUS
<1>3. CASE holder = None
  BY <1>2, <1>3 DEF BoundOK
<1>4. CASE holder # None
  <2> DEFINE h == holder
  <2>1. Ahead(h)' = Ahead(holder)'
    BY <1>2
  <2> QED BY <1>1, <1>2, <1>4 DEF BoundOK
<1> QED BY <1>3, <1>4

(* The part of the invariant about the rows themselves.                     *)
Deep == /\ FreshOK /\ RawOK /\ SavedWhole /\ BoundOK
        /\ OthersWhole /\ ProgressOK /\ Undisturbed /\ CallsOK

\* Who is at a statement on the rows.
LEMMA WriterPlace ==
  ASSUME Basics, NEW r \in Writer, NEW w \in RowWords, At(r, w)
  PROVE  /\ Active(r) /\ r \in Request /\ request[r].at \in Scope
         /\ w \in Ahead(r) /\ "fetch" \notin Ahead(r)
         /\ \/ holder = r
            \/ Bare(r)
            \/ plugin = "mcp" /\ request[r].kind = "update" /\ w = "putConfig"
<1>1. r \in Request /\ w \notin {"find", "resolve"}
  BY DEF Request, RowWords
<1>2. /\ Active(r) /\ request[r].at \in Scope /\ w \in Ahead(r)
      /\ Ordered(plugin, request[r].kind, w, Ahead(r))
  BY <1>1, AtStep, AtScope DEF Basics
<1>3. /\ "begin" \notin Ahead(r) /\ "fetch" \notin Ahead(r)
      /\ \/ "commit" \in Ahead(r)
         \/ plugin = "google" /\ request[r].kind = "refresh"
         \/ plugin = "mcp" /\ request[r].kind = "update" /\ w = "putConfig"
  BY <1>2 DEF Ordered
<1>4. "commit" \in Ahead(r) => holder = r
  BY <1>2, <1>3 DEF Basics, HolderOK
<1> QED BY <1>1, <1>2, <1>3, <1>4 DEF Bare

(* What is left to show of each statement: that what the rest of the script *)
(* of r needs still holds, and the bindings.                                *)
LEMMA WriteDeep ==
  ASSUME Basics, Deep, Basics', NEW r \in Writer, NEW w, NEW R, Active(r),
         Moves(r, w, R), R.at = request[r].at, R.seen = request[r].seen,
         Writes(r), torn \subseteq torn', Framed(r), Sourced(r),
         "fetch" \notin Ahead(r), w # "fetch",
         w = "register" => holder \in {None, r}, BoundOK',
         plugin # "raw" /\ Placed(r)' /\ Unhit(r)' => Progress(r)'
  PROVE  Deep'
<1>1. FreshOK' /\ RawOK' /\ SavedWhole'
  BY WriteFresh, WriteSaved DEF Deep, Writes
<1>2. OthersWhole' /\ Undisturbed' /\ CallsOK'
  BY WriteOthers, WriteUndisturbed, WriteCalls DEF Deep, Basics
<1>3. ProgressOK'
  <2>1. plugin' = plugin
    BY DEF Writes
  <2> SUFFICES ASSUME plugin # "raw", NEW q \in Writer, Placed(q)', Unhit(q)'
               PROVE  Progress(q)'
    BY <2>1 DEF ProgressOK
  <2>2. CASE q # r
    BY <2>2, WriteProgress DEF Deep
  <2> QED BY <2>2
<1> QED BY <1>1, <1>2, <1>3 DEF Deep

\* A request that has a claim on the rows after its own statement had it before.
LEMMA OwnClaim ==
  ASSUME Basics, Deep, plugin # "raw", NEW r \in Writer, NEW w, NEW R, Active(r),
         Moves(r, w, R), R.at = request[r].at, Writes(r), "fetch" \notin Ahead(r),
         request[r].missed => R.missed, holder = r => torn \subseteq torn',
         Placed(r)', Unhit(r)'
  PROVE  /\ Progress(r) /\ Placed(r) /\ Unhit(r)
         /\ request'[r].at = request[r].at /\ request'[r].left = R.left
         /\ Ahead(r)' = Ahead(r) \ {w} /\ spec' = spec /\ plugin' = plugin
<1>1. /\ UNCHANGED <<plugin, holder, spec>> /\ calm' \subseteq calm
  BY DEF Writes
<1>2. Over.outcome = "over"
  BY DEF Over, Idle
<1>3. Active(r)'
  BY DEF Placed
<1>4. /\ request'[r].at = request[r].at /\ request'[r].left = R.left
      /\ request'[r].kind = request[r].kind
      /\ request'[r].missed = R.missed
      /\ Ahead(r)' = Ahead(r) \ {w}
  BY <1>2, <1>3 DEF Moves, Active
<1>5. Placed(r)
  BY <1>1, <1>4 DEF Placed, Bare
<1>6. Unhit(r)
  BY <1>1, <1>4 DEF Unhit
<1>7. Progress(r)
  BY <1>5, <1>6 DEF Deep, ProgressOK
<1> QED BY <1>1, <1>4, <1>5, <1>6, <1>7

(* Deep after each statement on the rows.                                   *)
LEMMA DropOpsDeep ==
  ASSUME Basics, Deep, NEW r \in Writer, DropOps(r)
  PROVE  Basics' /\ Deep'
<1> DEFINE s == request[r].at
           W == Ahead(r)
<1>1. At(r, "dropOps") /\ "dropOps" \in RowWords
  BY DEF DropOps, Queries, RowWords
<1>2. /\ Active(r) /\ r \in Request /\ s \in Scope /\ "dropOps" \in W
      /\ "fetch" \notin W /\ (holder = r \/ Bare(r))
  BY <1>1, WriterPlace
<1>3. /\ "putEach" \in W => "register" \in W
      /\ "putOps" \in W \/ "putEach" \in W \/ ("register" \notin W /\ Lists(W))
  BY <1>1, <1>2, AtStep DEF Basics, Ordered
<1>4. Moves(r, "dropOps", request[r]) /\ Basics'
  BY DropOpsBasics
<1>5. /\ Writes(r) /\ UNCHANGED <<core, config, bound>>
      /\ ops' = [ops EXCEPT ![s] = [t \in Tool |-> None]]
      /\ torn' = Scars(r)
  BY DEF DropOps
<1>6. torn \subseteq torn' /\ (Bare(r) => s \in torn')
  BY <1>5 DEF Scars
<1>7. /\ \A x \in Scope : x # s => ops'[x] = ops[x]
      /\ \A t \in Tool : ops'[s][t] = None
  BY <1>2, <1>5 DEF Basics, TypeOK
<1>8. Framed(r) /\ Sourced(r)
  <2>1. Framed(r)
    BY <1>2, <1>5, <1>6, <1>7 DEF Framed
  <2>2. plugin = "raw" => \A x \in Scope, t \in Tool : ops[x][t] = None
    BY DEF Deep, RawOK
  <2> QED BY <1>5, <1>7, <2>1, <2>2 DEF Sourced
<1>9. BoundOK'
  BY <1>2, <1>4, <1>5, KeepsBound DEF Basics, Deep, Writes
<1>10. ASSUME plugin # "raw", Placed(r)', Unhit(r)' PROVE Progress(r)'
  <2> HIDE DEF s, W
  <2>1. /\ Progress(r) /\ request'[r].at = s /\ request'[r].left = request[r].left
        /\ Ahead(r)' = W \ {"dropOps"} /\ spec' = spec /\ plugin' = plugin
    BY <1>2, <1>4, <1>5, <1>6, <1>10, OwnClaim DEF s, W
  <2>2. Coming(r)' = Coming(r)
    BY <1>5, <2>1 DEF Coming, Lists, s, W
  <2>3. "register" \notin W /\ Lists(W) => Coming(r) = None
    BY DEF Coming, W
  <2>4. \A t \in Tool : OpOf(None, t)' = None
    BY DEF OpOf
  <2> QED BY <1>3, <1>5, <1>7, <2>1, <2>2, <2>3, <2>4 DEF Progress, s, W
<1> QED BY <1>2, <1>4, <1>5, <1>6, <1>8, <1>9, <1>10, WriteDeep

LEMMA DropConfigDeep ==
  ASSUME Basics, Deep, NEW r \in Writer, DropConfig(r)
  PROVE  Basics' /\ Deep'
<1> DEFINE s == request[r].at
           W == Ahead(r)
<1>1. At(r, "dropConfig") /\ "dropConfig" \in RowWords
  BY DEF DropConfig, Queries, RowWords
<1>2. /\ Active(r) /\ r \in Request /\ s \in Scope /\ "dropConfig" \in W
      /\ "fetch" \notin W /\ (holder = r \/ Bare(r))
  BY <1>1, WriterPlace
<1>3. /\ "putConfig" \in W \/ ("register" \notin W /\ Lists(W))
      /\ plugin = "openapi" => "dropBound" \in W
      /\ holder = r
  BY <1>1, <1>2, AtStep DEF Basics, Ordered, Bare
<1>4. Moves(r, "dropConfig", request[r]) /\ Basics'
  BY DropConfigBasics
<1>5. /\ Writes(r) /\ UNCHANGED <<core, ops, bound, torn>>
      /\ config' = [config EXCEPT ![s] = None]
  BY DEF DropConfig
<1>6. /\ \A x \in Scope : x # s => config'[x] = config[x]
      /\ config'[s] = None
  BY <1>2, <1>5 DEF Basics, TypeOK
<1>7. Framed(r) /\ Sourced(r)
  BY <1>3, <1>5, <1>6 DEF Framed, Sourced
<1>8. Active(r)' /\ request'[r].at = s /\ Ahead(r)' = W \ {"dropConfig"}
  <2>1. Active(r)'
    BY <1>3, <1>4, <1>5 DEF Basics, HolderOK, Writes
  <2>2. Over.outcome = "over"
    BY DEF Over, Idle
  <2> QED BY <1>4, <2>1, <2>2 DEF Moves, Active
<1>9. BoundOK'
  <2>1. UNCHANGED <<plugin, holder, saved, bound>> /\ holder' = r /\ r # None
    BY <1>3, <1>5, NamesAssumption DEF Writes
  <2>2. Ahead(holder)' = Ahead(r)' /\ request'[holder'].at = s
    BY <1>8, <2>1
  <2>3. plugin = "openapi" => "dropBound" \in Ahead(holder)'
    BY <1>3, <1>8, <2>2
  <2>4. ASSUME plugin = "openapi", NEW b \in bound
        PROVE  \/ b.late \/ b.made = config'[b.source]
               \/ /\ holder' # None /\ b.source = request'[holder'].at
                  /\ "dropBound" \in Ahead(holder)'
    <3>1. CASE b.source = s
      BY <2>1, <2>2, <2>3, <2>4, <3>1
    <3>2. CASE b.source # s
      <4>1. b.source \in Scope
        BY DEF Basics, TypeOK, BindingType
      <4>2. b.late \/ b.made = config[b.source]
        BY <1>3, <3>2 DEF Deep, BoundOK
      <4> QED BY <1>6, <3>2, <4>1, <4>2
    <3> QED BY <3>1, <3>2
  <2>5. config'[request'[holder'].at] = None
    BY <1>6, <2>2
  <2>6. plugin # "openapi" => bound = {}
    BY DEF Deep, BoundOK
  <2>7. saved[4] = saved'[4] /\ saved'[2] = saved[2] /\ holder' = holder
        /\ plugin' = plugin /\ bound' = bound
    BY <2>1
  <2>8. /\ plugin # "openapi" => (holder # None => saved[4] = {})
        /\ holder # None => \A b \in saved[4] : b.late \/ b.made = saved[2][b.source]
    BY DEF Deep, BoundOK
  <2>9. \A b \in bound' : \/ b.late \/ b.made = config'[b.source]
               \/ /\ holder' # None /\ b.source = request'[holder'].at
                  /\ "dropBound" \in Ahead(holder)'
    BY <2>4, <2>6, <2>7
  <2> QED BY <2>5, <2>6, <2>7, <2>8, <2>9 DEF BoundOK
<1>10. ASSUME plugin # "raw", Placed(r)', Unhit(r)' PROVE Progress(r)'
  <2> HIDE DEF s, W
  <2>1. /\ Progress(r) /\ request'[r].at = s /\ request'[r].left = request[r].left
        /\ Ahead(r)' = W \ {"dropConfig"} /\ spec' = spec /\ plugin' = plugin
    BY <1>2, <1>4, <1>5, <1>10, OwnClaim DEF s, W
  <2>2. Coming(r)' = Coming(r)
    BY <1>5, <2>1 DEF Coming, Lists, s, W
  <2>3. "register" \notin W /\ Lists(W) => Coming(r) = None
    BY DEF Coming, W
  <2>4. \A t \in Tool : OpOf(Coming(r), t)' = OpOf(Coming(r), t)
    BY <2>1, <2>2 DEF OpOf, HasOps
  <2> QED BY <1>3, <1>5, <1>6, <2>1, <2>2, <2>3, <2>4 DEF Progress, s, W
<1> QED BY <1>2, <1>4, <1>5, <1>7, <1>9, <1>10, WriteDeep

LEMMA PutOpsDeep ==
  ASSUME Basics, Deep, NEW r \in Writer, PutOps(r)
  PROVE  Basics' /\ Deep'
<1> DEFINE s == request[r].at
           W == Ahead(r)
<1>1. At(r, "putOps") /\ "putOps" \in RowWords
  BY DEF PutOps, Queries, RowWords
<1>2. /\ Active(r) /\ r \in Request /\ s \in Scope /\ "putOps" \in W
      /\ "fetch" \notin W /\ (holder = r \/ Bare(r))
  BY <1>1, WriterPlace
<1>3. /\ plugin # "raw" /\ "register" \in W /\ "dropOps" \notin W
      /\ "putEach" \notin W /\ holder = r
  BY <1>1, <1>2, AtStep DEF Basics, Ordered, Bare
<1>4. Moves(r, "putOps", request[r]) /\ Basics'
  BY PutOpsBasics
<1>5. /\ Writes(r) /\ UNCHANGED <<core, config, bound, torn>>
      /\ ops' = [ops EXCEPT ![s] =
                   [t \in Tool |-> IF t \in spec[r].tools THEN r ELSE @[t]]]
  BY DEF PutOps
<1>6. /\ \A x \in Scope : x # s => ops'[x] = ops[x]
      /\ \A t \in Tool : ops'[s][t] = IF t \in spec[r].tools THEN r ELSE ops[s][t]
  BY <1>2, <1>5 DEF Basics, TypeOK
<1>7. Framed(r) /\ Sourced(r)
  <2>1. Framed(r)
    BY <1>3, <1>5, <1>6 DEF Framed
  <2>2. \A x \in Scope, t \in Tool : ops'[x][t] \in {ops[x][t], r, None}
    BY <1>6
  <2> QED BY <1>3, <1>5, <2>1, <2>2 DEF Sourced
<1>8. BoundOK'
  BY <1>2, <1>4, <1>5, KeepsBound DEF Basics, Deep, Writes
<1>9. ASSUME plugin # "raw", Placed(r)', Unhit(r)' PROVE Progress(r)'
  <2> HIDE DEF s, W
  <2>1. /\ Progress(r) /\ request'[r].at = s /\ request'[r].left = request[r].left
        /\ Ahead(r)' = W \ {"putOps"} /\ spec' = spec /\ plugin' = plugin
    BY <1>2, <1>4, <1>5, <1>9, OwnClaim DEF s, W
  <2>2. Coming(r) = r /\ Coming(r)' = r
    BY <1>3, <2>1 DEF Coming, s, W
  <2>3. \A t \in Tool : ops[s][t] = None
    BY <1>2, <1>3, <2>1 DEF Progress, s, W
  <2>4. \A t \in Tool : OpOf(r, t)' = IF t \in spec[r].tools THEN r ELSE None
    BY <1>3, <2>1, NamesAssumption DEF OpOf, HasOps
  <2>5. \A t \in Tool : ops'[s][t] = OpOf(r, t)'
    BY <1>6, <2>3, <2>4
  <2>6. /\ "putOps" \notin Ahead(r)' /\ "putEach" \notin Ahead(r)'
        /\ "register" \in Ahead(r)'
        /\ "putConfig" \in Ahead(r)' <=> "putConfig" \in W
        /\ "dropConfig" \in Ahead(r)' <=> "dropConfig" \in W
    BY <1>3, <2>1
  <2> HIDE <2>1
  <2>7. /\ plugin # "mcp" =>
             "putConfig" \in W \/ "dropConfig" \in W \/ config[s] = Coming(r)
        /\ request'[r].at = s /\ spec' = spec /\ plugin' = plugin
    BY <2>1 DEF Progress, s, W
  <2> QED BY <1>5, <2>2, <2>5, <2>6, <2>7 DEF Progress
<1> QED BY <1>2, <1>4, <1>5, <1>7, <1>8, <1>9, WriteDeep

LEMMA DeleteCoreDeep ==
  ASSUME Basics, Deep, NEW r \in Writer, DeleteCore(r)
  PROVE  Basics' /\ Deep'
<1> DEFINE s == request[r].at
           W == Ahead(r)
<1>1. At(r, "deleteCore") /\ "deleteCore" \in RowWords
  BY DEF DeleteCore, Queries, RowWords
<1>2. /\ Active(r) /\ r \in Request /\ s \in Scope /\ "deleteCore" \in W
      /\ "fetch" \notin W /\ (holder = r \/ Bare(r))
  BY <1>1, WriterPlace
<1>3. /\ "register" \notin W /\ "unregister" \notin W /\ "putEach" \notin W
      /\ "putConfig" \notin W /\ holder = r
  BY <1>1, <1>2, AtStep DEF Basics, Ordered, Bare
<1>4. Moves(r, "deleteCore", request[r]) /\ Basics'
  BY DeleteCoreBasics
<1>5. /\ Writes(r) /\ UNCHANGED <<config, ops, bound, torn>>
      /\ core' = [core EXCEPT ![s] = None]
  BY DEF DeleteCore
<1>6. /\ \A x \in Scope : x # s => core'[x] = core[x]
      /\ core'[s] = None
  BY <1>2, <1>5 DEF Basics, TypeOK
<1>7. Framed(r) /\ Sourced(r)
  BY <1>3, <1>5, <1>6 DEF Framed, Sourced
<1>8. BoundOK'
  BY <1>2, <1>4, <1>5, KeepsBound DEF Basics, Deep, Writes
<1>9. ASSUME plugin # "raw", Placed(r)', Unhit(r)' PROVE Progress(r)'
  <2> HIDE DEF s, W
  <2>1. /\ Progress(r) /\ request'[r].at = s /\ request'[r].left = request[r].left
        /\ Ahead(r)' = W \ {"deleteCore"} /\ spec' = spec /\ plugin' = plugin
    BY <1>2, <1>4, <1>5, <1>9, OwnClaim DEF s, W
  <2>2. Coming(r) = None /\ Coming(r)' = None
    BY <1>2, <1>3, <1>6, <2>1 DEF Coming, Lists, s, W
  <2>3. \A t \in Tool : OpOf(None, t)' = OpOf(None, t)
    BY DEF OpOf
  <2> QED BY <1>3, <1>5, <2>1, <2>2, <2>3 DEF Progress, s, W
<1> QED BY <1>2, <1>4, <1>5, <1>7, <1>8, <1>9, WriteDeep

LEMMA RegisterDeep ==
  ASSUME Basics, Deep, NEW r \in Writer, Register(r)
  PROVE  Basics' /\ Deep'
<1> DEFINE s == request[r].at
           W == Ahead(r)
           N == [request[r] EXCEPT !.left = spec[r].tools]
<1>1. At(r, "register") /\ "register" \in RowWords
  BY DEF Register, RowWords
<1>2. /\ Active(r) /\ r \in Request /\ s \in Scope /\ "register" \in W
      /\ "fetch" \notin W /\ (holder = r \/ Bare(r))
  BY <1>1, WriterPlace
<1>3. "unregister" \notin W /\ "deleteCore" \notin W
  BY <1>1, <1>2, AtStep DEF Basics, Ordered
<1>4. Moves(r, "register", N) /\ Basics'
  BY RegisterBasics
<1>a. /\ N.at = s /\ N.seen = request[r].seen /\ N.left = spec[r].tools
      /\ N.missed = request[r].missed
  BY <1>2 DEF Basics, TypeOK, RequestType
<1> HIDE DEF N
<1>5. /\ Writes(r) /\ UNCHANGED <<config, ops, bound>> /\ holder \in {None, r}
      /\ core' = [core EXCEPT ![s] = r] /\ torn' = Scars(r)
  BY DEF Register
<1>6. torn \subseteq torn' /\ (Bare(r) => s \in torn')
  BY <1>5 DEF Scars
<1>7. /\ \A x \in Scope : x # s => core'[x] = core[x]
      /\ core'[s] = r
  BY <1>2, <1>5 DEF Basics, TypeOK
<1>8. Framed(r) /\ Sourced(r)
  BY <1>2, <1>5, <1>6, <1>7 DEF Framed, Sourced
<1>9. BoundOK'
  BY <1>2, <1>4, <1>5, <1>a, KeepsBound DEF Basics, Deep, Writes
<1>10. ASSUME plugin # "raw", Placed(r)', Unhit(r)' PROVE Progress(r)'
  <2> HIDE DEF s, W
  <2>1. /\ Progress(r) /\ request'[r].at = s /\ request'[r].left = spec[r].tools
        /\ Ahead(r)' = W \ {"register"} /\ spec' = spec /\ plugin' = plugin
    BY <1>2, <1>4, <1>5, <1>6, <1>10, <1>a, OwnClaim DEF s, W
  <2>2. Coming(r) = r /\ Coming(r)' = r
    BY <1>2, <1>3, <1>7, <2>1 DEF Coming, Lists, s, W
  <2>3. \A t \in Tool : OpOf(r, t)' = OpOf(r, t)
    BY <2>1 DEF OpOf, HasOps
  <2>4. \/ "dropOps" \in W
        \/ \A t \in Tool : ops[s][t] =
             IF "putOps" \in W \/ "putEach" \in W THEN None ELSE OpOf(r, t)
    BY <1>2, <2>1, <2>2 DEF Progress, s, W
  <2>5. plugin # "mcp" =>
          "putConfig" \in W \/ "dropConfig" \in W \/ config[s] = r
    BY <2>1, <2>2 DEF Progress, s, W
  <2>6. /\ request'[r].at = s /\ request'[r].left = spec'[r].tools
        /\ Ahead(r)' = W \ {"register"} /\ plugin' = plugin
    BY <2>1
  <2> HIDE <2>1
  <2> QED BY <1>5, <1>7, <2>2, <2>3, <2>4, <2>5, <2>6 DEF Progress
<1> QED BY <1>2, <1>4, <1>5, <1>6, <1>8, <1>9, <1>10, <1>a, WriteDeep

(* googleDiscovery's putBinding, one tool after the other.                  *)
LEMMA PutEachDeep ==
  ASSUME Basics, Deep, NEW r \in Writer, PutEach(r)
  PROVE  Basics' /\ Deep'
<1> DEFINE s == request[r].at
           W == Ahead(r)
<1>1. At(r, "putEach") /\ "putEach" \in RowWords
  BY DEF PutEach, Queries, RowWords
<1>2. /\ Active(r) /\ r \in Request /\ s \in Scope /\ "putEach" \in W
      /\ "fetch" \notin W /\ (holder = r \/ Bare(r))
  BY <1>1, WriterPlace
<1>3. /\ plugin # "raw" /\ ~Lists(W)
      /\ "dropOps" \notin W /\ "putOps" \notin W
  BY <1>1, <1>2, AtStep DEF Basics, Ordered
<1>4. Basics'
  BY PutEachBasics
<1>5. /\ Writes(r) /\ UNCHANGED <<core, config, bound>> /\ torn' = Scars(r)
  BY DEF PutEach
<1>6. torn \subseteq torn' /\ (Bare(r) => s \in torn')
  BY <1>5 DEF Scars
<1>7. Progress(r) => /\ core[s] = r /\ request[r].left \subseteq spec[r].tools
                     /\ \A t \in Tool : ops[s][t] =
                          IF t \in spec[r].tools \ request[r].left THEN r ELSE None
  BY <1>2, <1>3 DEF Progress, Lists
<1>8. CASE request[r].left = {} /\ UNCHANGED ops /\ Moves(r, "putEach", request[r])
  <2>1. Framed(r) /\ Sourced(r)
    BY <1>5, <1>8 DEF Framed, Sourced
  <2>2. BoundOK'
    BY <1>2, <1>4, <1>5, <1>8, KeepsBound DEF Basics, Deep, Writes
  <2>3. ASSUME plugin # "raw", Placed(r)', Unhit(r)' PROVE Progress(r)'
    <3> HIDE DEF s, W
    <3>1. /\ Progress(r) /\ request'[r].at = s /\ request'[r].left = request[r].left
          /\ Ahead(r)' = W \ {"putEach"} /\ spec' = spec /\ plugin' = plugin
      BY <1>2, <1>5, <1>6, <1>8, <2>3, OwnClaim DEF s, W
    <3>2. Coming(r) = r /\ Coming(r)' = r
      BY <1>3, <1>5, <1>7, <3>1 DEF Coming, Lists, s, W
    <3>3. \A t \in Tool : OpOf(r, t)' = IF t \in spec[r].tools THEN r ELSE None
      BY <1>3, <3>1, NamesAssumption DEF OpOf, HasOps
    <3>4. \A t \in Tool : ops'[s][t] = OpOf(r, t)'
      BY <1>7, <1>8, <3>1, <3>3
    <3>5. plugin # "mcp" =>
            "putConfig" \in W \/ "dropConfig" \in W \/ config[s] = r
      BY <3>1, <3>2 DEF Progress, s, W
    <3>6. request'[r].at = s /\ Ahead(r)' = W \ {"putEach"} /\ plugin' = plugin
          /\ core[s] = r
      BY <1>7, <3>1
    <3> HIDE <3>1
    <3> QED BY <1>3, <1>5, <3>2, <3>4, <3>5, <3>6 DEF Progress
  <2> QED BY <1>2, <1>4, <1>5, <1>6, <1>8, <2>1, <2>2, <2>3, WriteDeep
<1>9. ASSUME NEW t \in request[r].left,
             ops' = [ops EXCEPT ![s][t] = r],
             Moves(r, "none", [request[r] EXCEPT !.left = @ \ {t}])
      PROVE  Deep'
  <2> DEFINE N == [request[r] EXCEPT !.left = @ \ {t}]
  <2>1. /\ N.at = s /\ N.seen = request[r].seen /\ N.missed = request[r].missed
        /\ N.left = request[r].left \ {t} /\ t \in Tool
    BY <1>2 DEF Basics, TypeOK, RequestType
  <2> HIDE DEF N
  <2>2. /\ \A x \in Scope : x # s => ops'[x] = ops[x]
        /\ \A u \in Tool : ops'[s][u] = IF u = t THEN r ELSE ops[s][u]
    BY <1>2, <1>9, <2>1 DEF Basics, TypeOK
  <2>3. Framed(r) /\ Sourced(r)
    <3>1. Framed(r)
      BY <1>2, <1>5, <1>6, <2>2 DEF Framed
    <3>2. \A x \in Scope, u \in Tool : ops'[x][u] \in {ops[x][u], r, None}
      BY <2>2
    <3> QED BY <1>3, <1>5, <3>1, <3>2 DEF Sourced
  <2>4. Moves(r, "none", N)
    BY <1>9 DEF N
  <2>5. BoundOK'
    BY <1>2, <1>4, <1>5, <2>1, <2>4, KeepsBound DEF Basics, Deep, Writes
  <2>6. ASSUME plugin # "raw", Placed(r)', Unhit(r)' PROVE Progress(r)'
    <3> HIDE DEF s, W
    <3>1. /\ Progress(r) /\ request'[r].at = s /\ request'[r].left = N.left
          /\ Ahead(r)' = W \ {"none"} /\ spec' = spec /\ plugin' = plugin
      BY <1>2, <1>5, <1>6, <2>1, <2>4, <2>6, OwnClaim DEF s, W
    <3>2. Coming(r) = r /\ Coming(r)' = r
      BY <1>3, <1>5, <1>7, <3>1 DEF Coming, Lists, s, W
    <3>3. \A u \in Tool : ops'[s][u] =
            IF u \in spec[r].tools \ N.left THEN r ELSE None
      BY <1>7, <2>1, <2>2, <3>1
    <3>4. plugin # "mcp" =>
            "putConfig" \in W \/ "dropConfig" \in W \/ config[s] = r
      BY <3>1, <3>2 DEF Progress, s, W
    <3>5. N.left \subseteq spec[r].tools
      BY <1>7, <2>1, <3>1
    <3>6. /\ request'[r].at = s /\ Ahead(r)' = W \ {"none"} /\ plugin' = plugin
          /\ core[s] = r /\ request'[r].left = N.left /\ spec' = spec
      BY <1>7, <3>1
    <3> HIDE <3>1
    <3> QED BY <1>2, <1>3, <1>5, <3>2, <3>3, <3>4, <3>5, <3>6 DEF Progress, Lists
  <2> QED BY <1>2, <1>4, <1>5, <1>6, <2>1, <2>3, <2>4, <2>5, <2>6, WriteDeep
<1> QED BY <1>4, <1>8, <1>9, PutEachBasics

\* The plugin's source row of the scope is written in the transaction, by the
\* refresh of googleDiscovery, or by an update of mcp.
LEMMA PutConfigBound ==
  ASSUME Basics, Deep, Basics', NEW r \in Writer, At(r, "putConfig"),
         Moves(r, "putConfig", request[r]), Writes(r), UNCHANGED bound,
         \A x \in Scope : x # request[r].at => config'[x] = config[x]
  PROVE  BoundOK'
<1>1. UNCHANGED <<plugin, holder, saved>> /\ bound' = bound
  BY DEF Writes
<1>2. /\ plugin # "openapi" => bound = {} /\ (holder # None => saved[4] = {})
      /\ holder # None => \A b \in saved[4] : b.late \/ b.made = saved[2][b.source]
  BY DEF Deep, BoundOK
<1>3. CASE plugin # "openapi"
  <2>1. plugin' # "openapi" /\ bound' = {}
    BY <1>1, <1>2, <1>3
  <2>2. holder' # None => saved'[4] = {}
    BY <1>1, <1>2, <1>3
  <2> QED BY <1>1, <1>2, <2>1, <2>2 DEF BoundOK
<1>4. CASE plugin = "openapi"
  <2> DEFINE s == request[r].at
             W == Ahead(r)
  <2>1. /\ holder = r /\ r \in Request /\ s \in Scope /\ Active(r)
        /\ "putConfig" \in W
    BY <1>4, WriterPlace DEF RowWords, Bare
  <2>2. "dropBound" \notin W /\ "dropConfig" \notin W
    BY <1>4, <2>1, AtStep DEF Basics, Ordered
  <2>3. config[s] = None
    BY <1>4, <2>1, <2>2, NamesAssumption DEF Deep, BoundOK, Request
  <2>4. \A b \in bound : b.late \/ b.made = config[b.source]
    BY <2>1, <2>2 DEF Deep, BoundOK
  <2>5. \A b \in bound : b.late \/ b.made = config'[b.source]
    <3> SUFFICES ASSUME NEW b \in bound, ~b.late PROVE b.made = config'[b.source]
      OBVIOUS
    <3>1. b.source \in Scope /\ b.made \in Registration
      BY DEF Basics, TypeOK, BindingType
    <3>2. b.made # None
      BY <3>1, NamesAssumption DEF Registration
    <3>3. b.source # s
      BY <2>3, <2>4, <3>2
    <3> QED BY <2>4, <3>1, <3>3
  <2>6. "putConfig" \notin Ahead(r)' /\ Ahead(holder)' = Ahead(r)'
    BY <1>1, <2>1 DEF Moves
  <2> QED BY <1>1, <1>2, <1>4, <2>5, <2>6 DEF BoundOK
<1> QED BY <1>3, <1>4

(* The plugin's source row.                                                 *)
LEMMA PutConfigDeep ==
  ASSUME Basics, Deep, NEW r \in Writer, PutConfig(r)
  PROVE  Basics' /\ Deep'
<1> DEFINE s == request[r].at
           W == Ahead(r)
           v == IF request[r].kind = "update" THEN request[r].seen ELSE r
<1>1. At(r, "putConfig") /\ "putConfig" \in RowWords
  BY DEF PutConfig, Queries, RowWords
<1>2. /\ Active(r) /\ r \in Request /\ s \in Scope /\ "putConfig" \in W
      /\ "fetch" \notin W
      /\ holder = r \/ Bare(r) \/ (plugin = "mcp" /\ request[r].kind = "update")
  BY <1>1, WriterPlace
<1>3. /\ request[r].kind # "update" =>
           "dropConfig" \notin W /\ ("register" \in W \/ ~Lists(W))
      /\ request[r].kind = "update" => plugin = "mcp"
      /\ plugin = "google" => /\ "dropOps" \notin W /\ "putEach" \notin W
                              /\ "putOps" \notin W /\ "register" \notin W
      /\ Bare(r) => holder # r
  <2>1. Ordered(plugin, request[r].kind, "putConfig", W)
    BY <1>1, <1>2, AtStep DEF Basics
  <2>2. Bare(r) => "commit" \notin W
    BY <2>1 DEF Ordered, Bare
  <2>3. holder = r => "commit" \in W
    BY DEF Basics, HolderOK
  <2> QED BY <2>1, <2>2, <2>3 DEF Ordered
<1>4. Moves(r, "putConfig", request[r]) /\ Basics'
  BY PutConfigBasics
<1>5. /\ Writes(r) /\ UNCHANGED <<core, ops, bound>>
      /\ config' = [config EXCEPT ![s] = v]
      /\ torn' = IF Bare(r) /\ r \in calm THEN torn \ {s} ELSE Scars(r)
  BY DEF PutConfig
<1>6. /\ \A x \in Scope : x # s => config'[x] = config[x]
      /\ config'[s] = v
  BY <1>2, <1>5 DEF Basics, TypeOK
<1>7. Sourced(r)
  BY <1>5, <1>6 DEF Sourced
<1>8. BoundOK'
  BY <1>1, <1>4, <1>5, <1>6, PutConfigBound
<1>9. ASSUME plugin # "raw", Placed(r)', Unhit(r)'
      PROVE  Progress(r)'
  <2> HIDE DEF s, W, v
  <2>1. holder = r => torn \subseteq torn'
    BY <1>3, <1>5 DEF Scars
  <2>2. /\ Progress(r) /\ request'[r].at = s /\ request'[r].left = request[r].left
        /\ Ahead(r)' = W \ {"putConfig"} /\ spec' = spec /\ plugin' = plugin
    BY <1>2, <1>4, <1>5, <1>9, <2>1, OwnClaim DEF s, W
  <2>3. Coming(r)' = Coming(r)
    BY <1>5, <2>2 DEF Coming, Lists, s, W
  <2>4. \A t \in Tool : OpOf(Coming(r), t)' = OpOf(Coming(r), t)
    BY <2>2, <2>3 DEF OpOf, HasOps
  <2>5. plugin # "mcp" => config'[s] = Coming(r)
    <3> SUFFICES ASSUME plugin # "mcp" PROVE config'[s] = Coming(r)
      OBVIOUS
    <3>1. config'[s] = r /\ ("register" \in W \/ ~Lists(W))
      BY <1>3, <1>6 DEF v
    <3>2. "register" \notin W => core[s] = r
      BY <1>2, <2>2 DEF Progress, s, W
    <3> QED BY <3>1, <3>2 DEF Coming, s, W
  <2> QED BY <1>2, <1>5, <2>2, <2>3, <2>4, <2>5 DEF Progress, s, W
<1>10. CASE ~(Bare(r) /\ r \in calm)
  <2>1. torn' = Scars(r) /\ torn \subseteq torn' /\ (Bare(r) => s \in torn')
    BY <1>5, <1>10 DEF Scars
  <2>2. Framed(r)
    BY <1>2, <1>5, <1>6, <2>1 DEF Framed
  <2> QED BY <1>2, <1>4, <1>5, <1>7, <1>8, <1>9, <2>1, <2>2, WriteDeep
<1>11. CASE Bare(r) /\ r \in calm
  <2>1. /\ plugin = "google" /\ request[r].kind = "refresh" /\ v = r /\ holder # r
        /\ torn' = torn \ {s} /\ plugin' = plugin /\ holder' = holder
        /\ spec' = spec
    BY <1>3, <1>5, <1>11 DEF Bare, Writes
  <2>2. FreshOK' /\ RawOK' /\ SavedWhole' /\ Undisturbed' /\ CallsOK'
    BY <1>2, <1>4, <1>5, <1>7, WriteFresh, WriteSaved, WriteUndisturbed, WriteCalls
       DEF Deep, Basics, Writes
  <2>3. Progress(r)
    <3>1. Placed(r) /\ Unhit(r)
      BY <1>2, <1>11, <2>1 DEF Placed, Unhit
    <3> QED BY <2>1, <3>1 DEF Deep, ProgressOK
  <2>4. /\ core[s] = r /\ Coming(r) = r
        /\ \A t \in Tool : ops[s][t] = OpOf(r, t)
    <3>1. core[s] = r
      BY <1>2, <1>3, <2>1, <2>3 DEF Progress
    <3>2. Coming(r) = r
      BY <1>3, <2>1, <3>1 DEF Coming
    <3> QED BY <1>3, <2>1, <2>3, <3>1, <3>2 DEF Progress
  <2>5. ASSUME NEW x, x = s PROVE Whole(x)'
    <3>1. \A t \in Tool : OpOf(r, t)' = OpOf(r, t)
      BY <2>1 DEF OpOf, HasOps
    <3> QED BY <1>5, <1>6, <2>1, <2>4, <2>5, <3>1 DEF Whole
  <2>6. OthersWhole'
    <3> SUFFICES ASSUME NEW x \in Scope, x \notin torn',
                        ~(holder' # None /\ request'[holder'].at = x)
                 PROVE  Whole(x)'
      BY DEF OthersWhole
    <3>1. CASE x = s
      BY <2>5, <3>1
    <3>2. CASE x # s
      <4>1. holder # None => request'[holder].at = request[holder].at
        BY <1>4, <2>1, WriteHolder DEF Basics
      <4>2. Whole(x)
        BY <2>1, <3>2, <4>1 DEF Deep, OthersWhole
      <4> QED BY <1>5, <1>6, <2>1, <3>2, <4>2 DEF Whole, OpOf, HasOps
    <3> QED BY <3>1, <3>2
  <2>7. ProgressOK'
    <3> SUFFICES ASSUME NEW q \in Writer, Placed(q)', Unhit(q)' PROVE Progress(q)'
      BY DEF ProgressOK
    <3>1. CASE q = r
      BY <1>9, <2>1, <3>1
    <3>2. CASE q # r
      <4>1. /\ request'[q] = request[q] /\ Ahead(q)' = Ahead(q) /\ q \notin calm'
            /\ q \in Request /\ q # None
        BY <1>4, <1>5, <3>2, NamesAssumption DEF Moves, Ahead, Request, Writes
      <4>2. holder = q /\ request[q].at \notin torn' /\ Active(q)
        BY <2>1, <4>1 DEF Unhit, Placed, Active
      <4>3. CASE request[q].at = s
        <5>1. Untouched(plugin, Ahead(q))
          <6>1. "register" \notin W /\ plugin # "raw"
            BY <1>3, <2>1
          <6>2. holder \notin {None, r}
            BY <3>2, <4>1, <4>2
          <6> QED BY <1>2, <1>11, <4>2, <6>1, <6>2 DEF Deep, Undisturbed
        <5>2. /\ "dropOps" \in Ahead(q)'
              /\ "putConfig" \in Ahead(q)' \/ "dropConfig" \in Ahead(q)'
              /\ "putEach" \in Ahead(q)' \/ "putConfig" \in Ahead(q)' =>
                   "register" \in Ahead(q)'
          BY <2>1, <4>1, <5>1 DEF Untouched
        <5> QED BY <5>2 DEF Progress
      <4>4. CASE request[q].at # s
        <5>1. request[q].at \notin torn
          BY <2>1, <4>2, <4>4
        <5>2. Progress(q)
          BY <2>1, <4>2, <5>1 DEF Deep, ProgressOK, Placed, Unhit
        <5>3. request[q].at \in Scope
          BY <1>4, <4>2, HolderScope DEF Basics
        <5>4. config'[request[q].at] = config[request[q].at]
          BY <1>6, <4>4, <5>3
        <5>5. Coming(q)' = Coming(q)
          BY <1>5, <4>1 DEF Coming
        <5> QED BY <1>5, <2>1, <4>1, <5>2, <5>4, <5>5 DEF Progress, OpOf, HasOps
      <4> QED BY <4>3, <4>4
    <3> QED BY <3>1, <3>2
  <2> QED BY <1>4, <1>8, <2>2, <2>6, <2>7 DEF Deep
<1> QED BY <1>10, <1>11

(* A scope that unregister takes from the list without its caller meaning   *)
(* it is marked.                                                            *)
LEMMA UnregisterDeep ==
  ASSUME Basics, Deep, NEW r \in Writer, Unregister(r)
  PROVE  Basics' /\ Deep'
<1> DEFINE s == request[r].at
           W == Ahead(r)
           found == Innermost(request[r].user, Registered)
           N == [request[r] EXCEPT !.missed = found \notin {None, s}]
<1>1. At(r, "unregister") /\ "unregister" \in RowWords
  BY DEF Unregister, RowWords
<1>2. /\ Active(r) /\ r \in Request /\ s \in Scope /\ "unregister" \in W
      /\ "fetch" \notin W /\ (holder = r \/ Bare(r))
      /\ request[r].user \in User /\ ~request[r].missed
      /\ s \in {request[r].user, Org}
  <2>1. ActiveOK(r)
    BY <1>1, AtStep, WriterPlace DEF Basics
  <2> QED BY <1>1, <2>1, WriterPlace, AtScope DEF Basics, ActiveOK, Ahead
<1>3. /\ "deleteCore" \notin W
      /\ request[r].kind # "removeAt" => "register" \in W
      /\ "register" \notin W => "putEach" \notin W /\ "putConfig" \notin W
  BY <1>1, <1>2, AtStep DEF Basics, Ordered
<1>4. Moves(r, "unregister", N) /\ Basics'
  BY UnregisterBasics
<1>5. /\ Writes(r) /\ UNCHANGED <<config, ops, bound>>
      /\ core' = IF found = None THEN core ELSE [core EXCEPT ![found] = None]
      /\ torn' = IF found \in {None, s} THEN Scars(r) ELSE torn \cup {found, s}
  BY DEF Unregister
<1>6. /\ found # None => found \in Scope
      /\ found = None => core[s] = None
  BY <1>2, InnermostScope DEF Registered
<1>a. /\ N.at = s /\ N.seen = request[r].seen /\ N.left = request[r].left
      /\ N.missed = (found \notin {None, s})
  BY <1>2 DEF Basics, TypeOK, RequestType
<1> HIDE DEF N, found
<1>7. torn \subseteq torn' /\ (Bare(r) => s \in torn')
  BY <1>5 DEF Scars
<1>8. /\ \A x \in Scope : x # found => core'[x] = core[x]
      /\ \A x \in Scope : core'[x] \in {core[x], None}
      /\ found \in {None, s} => core'[s] = None
  BY <1>2, <1>5, <1>6 DEF Basics, TypeOK
<1>9. Framed(r) /\ Sourced(r)
  <2>1. Framed(r)
    <3> SUFFICES ASSUME NEW x \in Scope, x \notin torn',
                        ~(holder = r /\ x = request[r].at)
                 PROVE core'[x] = core[x]
      BY <1>5 DEF Framed
    <3>1. CASE found \in {None, s}
      <4>1. x # s
        BY <1>2, <1>7
      <4> QED BY <1>5, <1>8, <3>1, <4>1
    <3>2. CASE found \notin {None, s}
      BY <1>5, <1>8, <3>2
    <3> QED BY <3>1, <3>2
  <2> QED BY <1>5, <1>8, <2>1 DEF Sourced
<1>10. BoundOK'
  BY <1>2, <1>4, <1>5, <1>a, KeepsBound DEF Basics, Deep, Writes
<1>11. ASSUME plugin # "raw", Placed(r)', Unhit(r)' PROVE Progress(r)'
  <2>0. request'[r].missed = N.missed /\ request'[r].kind = request[r].kind
        /\ request'[r].at = s /\ holder' = holder
    <3>1. Over.outcome = "over" /\ Active(r)'
      BY <1>11 DEF Over, Idle, Placed
    <3> QED BY <1>4, <1>5, <1>a, <3>1 DEF Moves, Active, Writes
  <2>a. request[r].kind = "removeAt" => found \in {None, s}
    BY <1>5, <1>11, <1>a, <2>0 DEF Unhit
  <2> HIDE DEF s, W
  <2>1. /\ Progress(r) /\ request'[r].at = s /\ request'[r].left = request[r].left
        /\ Ahead(r)' = W \ {"unregister"} /\ spec' = spec /\ plugin' = plugin
    BY <1>2, <1>4, <1>5, <1>7, <1>11, <1>a, OwnClaim DEF s, W
  <2>2. Coming(r)' = Coming(r)
    <3>1. CASE "register" \in W
      BY <2>1, <3>1 DEF Coming, W
    <3>2. CASE "register" \notin W
      <4>1. Coming(r) = None
        BY <1>2, <3>2 DEF Coming, Lists, W
      <4>2. core'[s] = None
        BY <1>3, <1>8, <2>a, <3>2
      <4>3. Coming(r)' = core'[s]
        BY <1>3, <2>1, <3>2 DEF Coming, Lists
      <4> QED BY <4>1, <4>2, <4>3
    <3> QED BY <3>1, <3>2
  <2>3. \A t \in Tool : OpOf(Coming(r), t)' = OpOf(Coming(r), t)
    BY <2>1, <2>2 DEF OpOf, HasOps
  <2>4. "register" \notin Ahead(r)' => "putEach" \notin W /\ "putConfig" \notin W
    BY <1>3, <2>1
  <2> QED BY <1>3, <1>5, <2>1, <2>2, <2>3, <2>4 DEF Progress, s, W
<1> QED BY <1>2, <1>4, <1>5, <1>7, <1>9, <1>10, <1>11, <1>a, WriteDeep

-----------------------------------------------------------------------------
(* The steps that leave the rows alone.                                    *)
QuietWords == {"find", "stored", "unregister", "dropBound", "bind", "resolve",
               "annotate", "approve", "operation", "perform"}

\* How far they change a request.
Quiet(r, w, R) ==
  /\ w \in QuietWords
  /\ \/ Moves(r, w, R) /\ (holder = r => R.at = request[r].at)
     \/ Overs(r) /\ holder # r
  /\ UNCHANGED <<plugin, core, config, ops, spec, holder, saved>>
  /\ torn \subseteq torn'
  /\ \A q \in Writer : q \in calm' <=> q \in calm
  /\ \/ request'[r].seen \in {request[r].seen, None}
     \/ \E s \in Scope : request'[r].seen \in {core[s], config[s]}

(* The parts of Deep after such a step.                                     *)
LEMMA QuietFresh ==
  ASSUME FreshOK, NEW r \in Request, Active(r), NEW w, NEW R, Quiet(r, w, R)
  PROVE  FreshOK'
<1> SUFFICES ASSUME NEW q \in Writer, NotYet(q)' PROVE Absent(q)'
  BY DEF FreshOK
<1>1. q \in Request /\ q # None
  BY NamesAssumption DEF Request
<1>2. \A x \in Request : x # r => request'[x] = request[x]
  BY DEF Quiet, Moves, Overs
<1>3. NotYet(q)
  <2>1. CASE q # r
    BY <1>1, <1>2, <2>1 DEF NotYet, Active, Ahead
  <2>2. CASE q = r
    <3>1. Over.outcome = "over"
      BY DEF Over, Idle
    <3>2. Active(r)' /\ Ahead(r)' = Ahead(r) \ {w}
      BY <2>2, <3>1 DEF Quiet, Moves, Overs, NotYet, Active
    <3>3. "fetch" \in Ahead(r)
      BY <2>2, <3>2 DEF NotYet, Active
    <3> QED BY <2>2, <3>3 DEF NotYet
  <2> QED BY <2>1, <2>2
<1>4. Absent(q)
  BY <1>3 DEF FreshOK
<1>5. \A x \in Request : request'[x].seen # q
  <2>1. request'[r].seen # q
    BY <1>1, <1>4 DEF Quiet, Absent
  <2> QED BY <1>2, <1>4, <2>1 DEF Absent
<1> QED BY <1>4, <1>5 DEF Absent, Quiet

(* The holder has the same rows before it.                                  *)
LEMMA QuietUndisturbed ==
  ASSUME Basics, Basics', Undisturbed, NEW r \in Request, Active(r), NEW w, NEW R,
         Quiet(r, w, R)
  PROVE  Undisturbed'
<1> SUFFICES ASSUME plugin' # "raw", NEW q \in Writer, q \in calm', Active(q)',
                    Bare(q)', "fetch" \notin Ahead(q)', "register" \notin Ahead(q)',
                    holder' \notin {None, q}
             PROVE  Untouched(plugin, Ahead(holder))'
  BY DEF Undisturbed
<1>1. /\ UNCHANGED <<plugin, holder>> /\ q \in calm /\ q \in Request
      /\ holder \in Writer /\ holder \in Request /\ holder # q
  BY DEF Quiet, Basics, TypeOK, Request
<1>2. \A x \in Request : x # r => request'[x] = request[x]
  BY DEF Quiet, Moves, Overs
<1>3. Over.outcome = "over"
  BY DEF Over, Idle
<1>4. Active(q) /\ Bare(q) /\ "fetch" \notin Ahead(q) /\ "register" \notin Ahead(q)
  <2>1. CASE q # r
    BY <1>1, <1>2, <2>1 DEF Active, Bare, Ahead
  <2>2. CASE q = r
    <3>1. Ahead(r)' = Ahead(r) \ {w} /\ request'[r].kind = request[r].kind
      BY <1>3, <2>2 DEF Quiet, Moves, Overs, Active
    <3>2. w # "fetch" /\ w # "register"
      BY DEF Quiet, QuietWords
    <3> QED BY <1>1, <2>2, <3>1, <3>2 DEF Bare
  <2> QED BY <2>1, <2>2
<1>5. Untouched(plugin, Ahead(holder))
  BY <1>1, <1>4, NamesAssumption DEF Undisturbed, Request
<1>6. CASE holder # r
  <2>1. Ahead(holder)' = Words(request[holder].todo)
    BY <1>1, <1>2, <1>6 DEF Ahead
  <2> QED BY <1>1, <1>5, <2>1 DEF Ahead
<1>7. CASE holder = r
  <2>1. Active(r)' /\ Ahead(r)' = Ahead(r) \ {w}
    BY <1>1, <1>7 DEF Basics, HolderOK, Quiet, Moves
  <2>2. w \notin {"dropOps", "putConfig", "dropConfig", "register"}
    BY DEF Quiet, QuietWords
  <2>3. Untouched(plugin, Ahead(r) \ {w})
    BY <1>5, <1>7, <2>2 DEF Untouched
  <2>4. Ahead(holder)' = Ahead(r) \ {w}
    BY <1>1, <1>7, <2>1
  <2> QED BY <1>1, <2>3, <2>4
<1> QED BY <1>6, <1>7

(* No row of any scope changes.                                             *)
LEMMA QuietOthers ==
  ASSUME Basics, Basics', OthersWhole, NEW r \in Request, NEW w, NEW R,
         Quiet(r, w, R)
  PROVE  OthersWhole'
<1> SUFFICES ASSUME plugin' # "raw", NEW s \in Scope, s \notin torn',
                    ~(holder' # None /\ request'[holder'].at = s)
             PROVE  Whole(s)'
  BY DEF OthersWhole
<1>1. UNCHANGED <<plugin, core, config, ops, spec, holder>> /\ s \notin torn
  BY DEF Quiet
<1>2. holder # None => request'[holder].at = request[holder].at
  <2> SUFFICES ASSUME holder # None PROVE request'[holder].at = request[holder].at
    OBVIOUS
  <2>1. holder \in Writer /\ holder \in Request
    BY DEF Basics, TypeOK, Request
  <2>2. CASE holder # r
    BY <2>1, <2>2 DEF Quiet, Moves, Overs
  <2>3. CASE holder = r
    <3>1. Active(r)'
      BY <1>1, <2>1, <2>3 DEF Basics, HolderOK
    <3>2. Over.outcome = "over"
      BY DEF Over, Idle
    <3> QED BY <2>3, <3>1, <3>2 DEF Quiet, Moves, Active
  <2> QED BY <2>2, <2>3
<1>3. Whole(s)
  BY <1>1, <1>2 DEF OthersWhole
<1> QED BY <1>1, <1>3 DEF Whole, OpOf, HasOps

(* The other writers' claims stay.                                          *)
LEMMA QuietProgress ==
  ASSUME Basics, ProgressOK, plugin # "raw", NEW r \in Request, NEW w, NEW R,
         Quiet(r, w, R), NEW q \in Writer, q # r, Placed(q)', Unhit(q)'
  PROVE  Progress(q)'
<1>1. UNCHANGED <<plugin, core, config, ops, spec, holder>> /\ q \in Request
  BY DEF Quiet, Request
<1>2. request'[q] = request[q]
  BY <1>1 DEF Quiet, Moves, Overs
<1>3. Placed(q) /\ Unhit(q)
  BY <1>1, <1>2 DEF Placed, Unhit, Active, Bare, Ahead, Quiet
<1>4. Progress(q)
  BY <1>3 DEF ProgressOK
<1>5. Ahead(q)' = Ahead(q)
  BY <1>2 DEF Ahead
<1>6. Coming(q)' = Coming(q)
  BY <1>1, <1>2, <1>5 DEF Coming
<1> QED BY <1>1, <1>2, <1>4, <1>5, <1>6 DEF Progress, OpOf, HasOps

\* The claim of r itself, when it passes nothing that has to do with the rows.
LEMMA QuietOwn ==
  ASSUME Basics, ProgressOK, plugin # "raw", NEW r \in Writer, Active(r),
         NEW w, NEW R, w # "unregister",
         Quiet(r, w, R), Placed(r)', Unhit(r)',
         Moves(r, w, R) => /\ R.at = request[r].at /\ R.left = request[r].left
                           /\ R.missed = request[r].missed
  PROVE  Progress(r)'
<1>1. UNCHANGED <<plugin, core, config, ops, spec, holder>>
  BY DEF Quiet
<1>2. Over.outcome = "over"
  BY DEF Over, Idle
<1>3. /\ request'[r].at = request[r].at /\ request'[r].left = request[r].left
      /\ request'[r].missed = request[r].missed
      /\ request'[r].kind = request[r].kind /\ Ahead(r)' = Ahead(r) \ {w}
  BY <1>2 DEF Quiet, Moves, Overs, Placed, Active
<1>4. w \notin RowWords /\ w # "fetch"
  BY DEF Quiet, QuietWords, RowWords
<1>5. Placed(r) /\ Unhit(r)
  BY <1>1, <1>3, <1>4 DEF Placed, Unhit, Bare, Quiet
<1>6. Progress(r)
  BY <1>5 DEF ProgressOK
<1>7. Coming(r)' = Coming(r)
  BY <1>1, <1>3, <1>4 DEF Coming, Lists, RowWords
<1>8. /\ "dropOps" \in Ahead(r)' <=> "dropOps" \in Ahead(r)
      /\ "putOps" \in Ahead(r)' <=> "putOps" \in Ahead(r)
      /\ "putEach" \in Ahead(r)' <=> "putEach" \in Ahead(r)
      /\ "putConfig" \in Ahead(r)' <=> "putConfig" \in Ahead(r)
      /\ "dropConfig" \in Ahead(r)' <=> "dropConfig" \in Ahead(r)
      /\ "register" \in Ahead(r)' <=> "register" \in Ahead(r)
  BY <1>3, <1>4 DEF RowWords
<1> QED BY <1>1, <1>3, <1>6, <1>7, <1>8 DEF Progress, OpOf, HasOps

(* Deep after a quiet step, but for the bindings, the claim of r itself and *)
(* the calls.                                                               *)
LEMMA QuietDeep ==
  ASSUME Basics, Deep, Basics', NEW r \in Request, Active(r), NEW w, NEW R,
         Quiet(r, w, R), BoundOK', CallsOK',
         r \in Writer /\ plugin # "raw" /\ Placed(r)' /\ Unhit(r)' => Progress(r)'
  PROVE  Deep'
<1>1. FreshOK' /\ OthersWhole' /\ Undisturbed'
  BY QuietFresh, QuietOthers, QuietUndisturbed DEF Deep
<1>2. RawOK'
  BY DEF Deep, RawOK, Quiet
<1>3. SavedWhole'
  BY DEF Deep, SavedWhole, Quiet, OpOf, HasOps
<1>4. ProgressOK'
  <2>1. plugin' = plugin
    BY DEF Quiet
  <2> SUFFICES ASSUME plugin # "raw", NEW q \in Writer, Placed(q)', Unhit(q)'
               PROVE  Progress(q)'
    BY <2>1 DEF ProgressOK
  <2>2. CASE q # r
    BY <2>2, QuietProgress DEF Deep
  <2> QED BY <2>2
<1> QED BY <1>1, <1>2, <1>3, <1>4 DEF Deep

\* A writer's quiet step is nothing to a call.
LEMMA QuietCalls ==
  ASSUME CallsOK, NEW r \in Writer,
         \A q \in Request : q # r => request'[q] = request[q],
         UNCHANGED <<plugin, core, config, ops, spec, calm>>
  PROVE  CallsOK'
<1> SUFFICES ASSUME HasOps', NEW c \in Caller PROVE CallOK(c)'
  BY DEF CallsOK
<1>1. request'[c] = request[c] /\ HasOps
  BY NamesAssumption DEF Request, HasOps
<1>2. CallOK(c)
  BY <1>1 DEF CallsOK
<1> QED BY <1>1, <1>2 DEF CallOK, Active, Whole, OpOf, HasOps

(* Deep after each quiet step.                                              *)
LEMMA FindDeep ==
  ASSUME Basics, Deep, NEW r \in Writer, Find(r)
  PROVE  Basics' /\ Deep'
<1> DEFINE s == Innermost(request[r].user, Registered)
           N == [request[r] EXCEPT !.at = s]
<1>1. /\ At(r, "find") /\ r \in Request
      /\ UNCHANGED <<plugin, core, config, ops, bound, spec, holder, saved, calm, torn>>
  BY DEF Find, Queries, Request, tables
<1>2. Active(r) /\ (Bare(r) => "fetch" \in Ahead(r))
  BY <1>1, AtStep DEF Basics, Ordered, Bare
<1>3. (Moves(r, "find", N) \/ Overs(r)) /\ holder # r /\ Basics'
  BY FindBasics
<1>4. N.seen = request[r].seen
  BY <1>1 DEF Basics, TypeOK, RequestType
<1> HIDE DEF N
<1>5. Over.seen = None /\ Over.outcome = "over"
  BY DEF Over, Idle
<1>6. Quiet(r, "find", N)
  BY <1>1, <1>3, <1>4, <1>5 DEF Quiet, QuietWords, Moves, Overs
<1>7. ~Placed(r)'
  <2> SUFFICES ASSUME Placed(r)' PROVE FALSE
    OBVIOUS
  <2>1. Active(r)' /\ Bare(r)' /\ "fetch" \notin Ahead(r)'
    BY <1>1, <1>3 DEF Placed
  <2>2. Moves(r, "find", N) /\ request'[r] # Over
    BY <1>3, <1>5, <2>1 DEF Overs, Active
  <2>3. Bare(r) /\ Ahead(r)' = Ahead(r) \ {"find"}
    BY <1>1, <2>1, <2>2 DEF Moves, Bare
  <2> QED BY <1>2, <2>1, <2>3
<1>8. \A q \in Request : q # r => request'[q] = request[q]
  BY <1>3 DEF Moves, Overs
<1>9. BoundOK'
  BY <1>1, <1>3, <1>8, KeepsBound DEF Basics, Deep
<1>10. CallsOK'
  BY <1>1, <1>8, QuietCalls DEF Deep
<1> QED BY <1>1, <1>2, <1>3, <1>6, <1>7, <1>9, <1>10, QuietDeep

LEMMA StoredDeep ==
  ASSUME Basics, Deep, NEW r \in Writer, Stored(r)
  PROVE  Basics' /\ Deep'
<1> DEFINE v == config[request[r].at]
           N == [request[r] EXCEPT !.seen = v]
<1>1. /\ At(r, "stored") /\ r \in Request
      /\ UNCHANGED <<plugin, core, config, ops, bound, spec, holder, saved, calm, torn>>
  BY DEF Stored, Queries, Request, tables
<1>2. Active(r)
  BY <1>1, AtStep DEF Basics
<1>3. /\ Moves(r, "stored", N) \/ Overs(r)
      /\ holder # r /\ Basics' /\ request[r].at \in Scope
  BY StoredBasics
<1>4. /\ N.seen = config[request[r].at] /\ N.at = request[r].at
      /\ N.left = request[r].left /\ N.missed = request[r].missed
  BY <1>1 DEF Basics, TypeOK, RequestType
<1> HIDE DEF N
<1>5. Over.seen = None /\ Over.outcome = "over"
  BY DEF Over, Idle
<1>6. Quiet(r, "stored", N)
  BY <1>1, <1>3, <1>4, <1>5 DEF Quiet, QuietWords, Moves, Overs
<1>7. plugin # "raw" /\ Placed(r)' /\ Unhit(r)' => Progress(r)'
  BY <1>2, <1>4, <1>6, QuietOwn DEF Deep
<1>8. \A q \in Request : q # r => request'[q] = request[q]
  BY <1>3 DEF Moves, Overs
<1>9. BoundOK'
  BY <1>1, <1>3, <1>8, KeepsBound DEF Basics, Deep
<1>10. CallsOK'
  BY <1>1, <1>8, QuietCalls DEF Deep
<1> QED BY <1>1, <1>2, <1>3, <1>6, <1>7, <1>9, <1>10, QuietDeep

LEMMA DropBoundDeep ==
  ASSUME Basics, Deep, NEW r \in Writer, DropBound(r)
  PROVE  Basics' /\ Deep'
<1> DEFINE s == request[r].at
           N == request[r]
<1>1. /\ At(r, "dropBound") /\ r \in Request
      /\ bound' = {b \in bound : b.source # s}
      /\ UNCHANGED <<plugin, core, config, ops, spec, holder, saved, calm, torn>>
  BY DEF DropBound, Queries, Request, rows
<1>2. Active(r) /\ plugin = "openapi"
  BY <1>1, AtStep DEF Basics, Ordered
<1>3. Moves(r, "dropBound", N) /\ Basics'
  BY DropBoundBasics
<1>5. Over.seen = None /\ Over.outcome = "over"
  BY DEF Over, Idle
<1>6. Quiet(r, "dropBound", N)
  BY <1>1, <1>3, <1>5 DEF Quiet, QuietWords, Moves
<1>7. plugin # "raw" /\ Placed(r)' /\ Unhit(r)' => Progress(r)'
  BY <1>2, <1>6, QuietOwn DEF Deep
<1>8. \A q \in Request : q # r => request'[q] = request[q]
  BY <1>3 DEF Moves
<1>9. BoundOK'
  <2>1. holder # None =>
          /\ request'[holder].at = request[holder].at
          /\ "putConfig" \in Ahead(holder)' => "putConfig" \in Ahead(holder)
          /\ "dropConfig" \notin Ahead(holder)' => "dropConfig" \notin Ahead(holder)
          /\ holder # r => Ahead(holder)' = Ahead(holder)
    <3> SUFFICES ASSUME holder # None
                 PROVE  /\ request'[holder].at = request[holder].at
                        /\ "putConfig" \in Ahead(holder)' =>
                             "putConfig" \in Ahead(holder)
                        /\ "dropConfig" \notin Ahead(holder)' =>
                             "dropConfig" \notin Ahead(holder)
                        /\ holder # r => Ahead(holder)' = Ahead(holder)
      OBVIOUS
    <3>1. holder \in Writer /\ holder \in Request /\ holder' = holder
      BY <1>1 DEF Basics, TypeOK, Request
    <3>2. CASE holder # r
      <4>1. request'[holder] = request[holder]
        BY <1>8, <3>1, <3>2
      <4> QED BY <3>1, <4>1 DEF Ahead
    <3>3. CASE holder = r
      <4>1. Active(r)'
        BY <1>3, <3>1, <3>3 DEF Basics, HolderOK
      <4>2. request'[r].at = s /\ Ahead(r)' = Ahead(r) \ {"dropBound"}
        BY <1>3, <1>5, <4>1 DEF Moves, Active
      <4>3. Ahead(holder)' = Ahead(r)'
        BY <3>1, <3>3
      <4> QED BY <3>3, <4>2, <4>3
    <3> QED BY <3>2, <3>3
  <2>2. \A b \in bound' : \/ b.late \/ b.made = config[b.source]
                          \/ /\ holder # None /\ b.source = request[holder].at
                             /\ "dropBound" \in Ahead(holder) /\ holder # r
    BY <1>1 DEF Deep, BoundOK
  <2>3. holder' = holder /\ config' = config /\ plugin' = plugin /\ saved' = saved
    BY <1>1
  <2>4. \A b \in bound' : \/ b.late \/ b.made = config'[b.source]
                          \/ /\ holder' # None /\ b.source = request'[holder'].at
                             /\ "dropBound" \in Ahead(holder)'
    BY <2>1, <2>2, <2>3
  <2>5. (/\ plugin = "openapi" /\ holder # None
         /\ "putConfig" \in Ahead(holder)' /\ "dropConfig" \notin Ahead(holder)')
        => config'[request'[holder'].at] = None
    BY <2>1, <2>3 DEF Deep, BoundOK
  <2>6. holder # None => \A b \in saved[4] : b.late \/ b.made = saved[2][b.source]
    BY DEF Deep, BoundOK
  <2> QED BY <1>2, <2>3, <2>4, <2>5, <2>6 DEF BoundOK
<1>10. CallsOK'
  BY <1>1, <1>8, QuietCalls DEF Deep
<1> QED BY <1>1, <1>2, <1>3, <1>6, <1>7, <1>9, <1>10, QuietDeep

LEMMA BindDeep ==
  ASSUME Basics, Deep, NEW r \in Writer, Bind(r)
  PROVE  Basics' /\ Deep'
<1> DEFINE v == IF request[r].kind = "add" THEN r ELSE request[r].seen
           b == [source |-> request[r].at, target |-> request[r].target,
                 made |-> v, late |-> config[request[r].at] # v]
           same == {c \in bound : c.source = request[r].at
                                  /\ c.target = request[r].target}
           N == request[r]
<1>1. /\ At(r, "bind") /\ r \in Request
      /\ bound' = (bound \ same) \cup {b} \/ bound' = bound
      /\ UNCHANGED <<plugin, core, config, ops, spec, holder, saved, calm, torn>>
  BY DEF Bind, Queries, Request, rows
<1>2. Active(r) /\ plugin = "openapi" /\ "dropBound" \notin Ahead(r)
  BY <1>1, AtStep DEF Basics, Ordered
<1>3. Moves(r, "bind", N) /\ Basics'
  BY BindBasics
<1>4. b.late \/ b.made = config[b.source]
  OBVIOUS
<1> HIDE DEF b
<1>5. Over.seen = None /\ Over.outcome = "over"
  BY DEF Over, Idle
<1>6. Quiet(r, "bind", N)
  BY <1>1, <1>3, <1>5 DEF Quiet, QuietWords, Moves
<1>7. plugin # "raw" /\ Placed(r)' /\ Unhit(r)' => Progress(r)'
  BY <1>2, <1>6, QuietOwn DEF Deep
<1>8. \A q \in Request : q # r => request'[q] = request[q]
  BY <1>3 DEF Moves
<1>9. BoundOK'
  <2>1. holder # None =>
          /\ request'[holder].at = request[holder].at
          /\ "dropBound" \in Ahead(holder)' <=> "dropBound" \in Ahead(holder)
          /\ "putConfig" \in Ahead(holder)' <=> "putConfig" \in Ahead(holder)
          /\ "dropConfig" \in Ahead(holder)' <=> "dropConfig" \in Ahead(holder)
    <3> SUFFICES ASSUME holder # None
                 PROVE  /\ request'[holder].at = request[holder].at
                        /\ "dropBound" \in Ahead(holder)' <=> "dropBound" \in Ahead(holder)
                        /\ "putConfig" \in Ahead(holder)' <=> "putConfig" \in Ahead(holder)
                        /\ "dropConfig" \in Ahead(holder)' <=>
                             "dropConfig" \in Ahead(holder)
      OBVIOUS
    <3>1. holder \in Writer /\ holder \in Request /\ holder' = holder
      BY <1>1 DEF Basics, TypeOK, Request
    <3>2. CASE holder # r
      <4>1. request'[holder] = request[holder]
        BY <1>8, <3>1, <3>2
      <4> QED BY <3>1, <4>1 DEF Ahead
    <3>3. CASE holder = r
      <4>1. Active(r)'
        BY <1>3, <3>1, <3>3 DEF Basics, HolderOK
      <4>2. request'[r].at = request[r].at /\ Ahead(r)' = Ahead(r) \ {"bind"}
        BY <1>3, <1>5, <4>1 DEF Moves, Active
      <4>3. Ahead(holder)' = Ahead(r)'
        BY <3>1, <3>3
      <4> QED BY <3>3, <4>2, <4>3
    <3> QED BY <3>2, <3>3
  <2>2. \A c \in bound' : \/ c.late \/ c.made = config[c.source]
                          \/ /\ holder # None /\ c.source = request[holder].at
                             /\ "dropBound" \in Ahead(holder)
    BY <1>1, <1>4 DEF Deep, BoundOK
  <2>3. holder' = holder /\ config' = config /\ plugin' = plugin /\ saved' = saved
    BY <1>1
  <2>4. \A c \in bound' : \/ c.late \/ c.made = config'[c.source]
                          \/ /\ holder' # None /\ c.source = request'[holder'].at
                             /\ "dropBound" \in Ahead(holder)'
    BY <2>1, <2>2, <2>3
  <2>5. (/\ plugin = "openapi" /\ holder # None
         /\ "putConfig" \in Ahead(holder)' /\ "dropConfig" \notin Ahead(holder)')
        => config'[request'[holder'].at] = None
    BY <2>1, <2>3 DEF Deep, BoundOK
  <2>6. holder # None => \A c \in saved[4] : c.late \/ c.made = saved[2][c.source]
    BY DEF Deep, BoundOK
  <2> QED BY <1>2, <2>3, <2>4, <2>5, <2>6 DEF BoundOK
<1>10. CallsOK'
  BY <1>1, <1>8, QuietCalls DEF Deep
<1> QED BY <1>1, <1>2, <1>3, <1>6, <1>7, <1>9, <1>10, QuietDeep

LEMMA UnregisterIgnoredDeep ==
  ASSUME Basics, Deep, NEW r \in Writer, UnregisterIgnored(r)
  PROVE  Basics' /\ Deep'
<1> DEFINE s == request[r].at
           W == Ahead(r)
           N == [request[r] EXCEPT !.missed = (request[r].kind = "removeAt")]
<1>1. /\ At(r, "unregister") /\ r \in Request /\ "unregister" \in RowWords
      /\ torn' = IF request[r].kind = "removeAt" THEN torn \cup {s} ELSE torn
      /\ UNCHANGED <<plugin, core, config, ops, bound, spec, holder, saved, calm>>
  BY DEF UnregisterIgnored, Queries, Request, tables, RowWords
<1>2. /\ Active(r) /\ "deleteCore" \notin W
      /\ request[r].kind # "removeAt" => "register" \in W
  BY <1>1, AtStep DEF Basics, Ordered
<1>3. Moves(r, "unregister", N) /\ Basics'
  BY UnregisterIgnoredBasics
<1>4. /\ N.seen = request[r].seen /\ N.at = s
      /\ N.left = request[r].left /\ N.missed = (request[r].kind = "removeAt")
  BY <1>1 DEF Basics, TypeOK, RequestType
<1> HIDE DEF N
<1>5. Over.seen = None /\ Over.outcome = "over"
  BY DEF Over, Idle
<1>6. Quiet(r, "unregister", N)
  BY <1>1, <1>3, <1>4, <1>5 DEF Quiet, QuietWords, Moves
<1>7. ASSUME plugin # "raw", Placed(r)', Unhit(r)' PROVE Progress(r)'
  <2>1. /\ request'[r].at = s /\ request'[r].left = request[r].left
        /\ request'[r].missed = (request[r].kind = "removeAt")
        /\ request'[r].kind = request[r].kind /\ W = Ahead(r)
        /\ Ahead(r)' = W \ {"unregister"}
    BY <1>3, <1>4, <1>5, <1>7 DEF Moves, Placed, Active
  <2>2. request[r].kind # "removeAt"
    BY <1>1, <2>1, <1>7 DEF Unhit
  <2>3. Placed(r) /\ Unhit(r)
    BY <1>1, <1>2, <1>7, <2>1, <2>2 DEF Placed, Unhit, Bare
  <2>4. Progress(r)
    BY <1>7, <2>3 DEF Deep, ProgressOK
  <2> HIDE DEF s, W
  <2>5. Coming(r) = r /\ Coming(r)' = r
    BY <1>2, <2>1, <2>2 DEF Coming, W
  <2> QED BY <1>1, <1>2, <2>1, <2>2, <2>4, <2>5 DEF Progress, OpOf, HasOps, s, W
<1>8. \A q \in Request : q # r => request'[q] = request[q]
  BY <1>3 DEF Moves
<1>9. BoundOK'
  BY <1>1, <1>3, <1>4, KeepsBound DEF Basics, Deep
<1>10. CallsOK'
  BY <1>1, <1>8, QuietCalls DEF Deep
<1> QED BY <1>1, <1>2, <1>3, <1>6, <1>7, <1>9, <1>10, QuietDeep

(* Deep after a request is made.                                            *)
LEMMA AskDeep ==
  ASSUME Basics, Deep, Basics', NEW r \in Request, NEW kind, NEW u, NEW s,
         Asked(r, kind, u, s), r \in Caller => kind = "invoke",
         UNCHANGED <<plugin, database, core, config, ops, bound, spec, holder,
                     saved, calm, torn>>
  PROVE  Deep'
<1>1. /\ UNCHANGED <<plugin, core, config, ops, bound, spec, holder, saved, calm, torn>>
      /\ request[r].outcome = "none" /\ holder # r /\ Active(r)'
      /\ Entry(plugin, kind, Ahead(r)')
      /\ request'[r].kind = kind /\ request'[r].seen = None
      /\ \A q \in Request : q # r => request'[q] = request[q]
  BY DEF Asked
<1>2. holder # None => request'[holder] = request[holder]
  BY <1>1 DEF Basics, TypeOK, Request
<1>3. \A q \in Request : q # r => Ahead(q)' = Ahead(q)
  BY <1>1 DEF Ahead
<1>4. Bare(r)' => "fetch" \in Ahead(r)'
  BY <1>1 DEF Bare, Entry
<1>5. FreshOK'
  <2> SUFFICES ASSUME NEW q \in Writer, NotYet(q)' PROVE Absent(q)'
    BY DEF FreshOK
  <2>1. q \in Request /\ q # None
    BY NamesAssumption DEF Request
  <2>2. NotYet(q)
    BY <1>1, <1>3, <2>1 DEF NotYet, Active
  <2>3. Absent(q)
    BY <2>2 DEF Deep, FreshOK
  <2>4. \A x \in Request : request'[x].seen # q
    BY <1>1, <2>1, <2>3 DEF Absent
  <2> QED BY <1>1, <2>3, <2>4 DEF Absent
<1>6. RawOK' /\ SavedWhole'
  <2>1. RawOK'
    BY <1>1 DEF Deep, RawOK
  <2>2. SavedWhole'
    BY <1>1 DEF Deep, SavedWhole, OpOf, HasOps
  <2> QED BY <2>1, <2>2
<1>7. BoundOK'
  BY <1>1, KeepsBound DEF Basics, Deep
<1>8. OthersWhole'
  <2>1. \A x \in Scope : Whole(x) => Whole(x)'
    BY <1>1 DEF Whole, OpOf, HasOps
  <2> QED BY <1>1, <1>2, <2>1 DEF Deep, OthersWhole
<1>9. ProgressOK'
  <2> SUFFICES ASSUME plugin # "raw", NEW q \in Writer, Placed(q)', Unhit(q)'
               PROVE  Progress(q)'
    BY <1>1 DEF ProgressOK
  <2>1. q # r /\ q \in Request
    BY <1>1, <1>4 DEF Placed, Request
  <2>2. request'[q] = request[q] /\ Ahead(q)' = Ahead(q)
    BY <1>1, <1>3, <2>1
  <2>3. Progress(q)
    BY <1>1, <2>2 DEF Deep, ProgressOK, Placed, Unhit, Active, Bare
  <2>4. Coming(q)' = Coming(q)
    BY <1>1, <2>2 DEF Coming
  <2> QED BY <1>1, <2>2, <2>3, <2>4 DEF Progress, OpOf, HasOps
<1>10. Undisturbed'
  <2> SUFFICES ASSUME plugin # "raw", NEW q \in Writer, q \in calm', Active(q)',
                      Bare(q)', "fetch" \notin Ahead(q)',
                      "register" \notin Ahead(q)', holder' \notin {None, q}
               PROVE  Untouched(plugin, Ahead(holder))'
    BY <1>1 DEF Undisturbed
  <2>1. q # r /\ q \in Request
    BY <1>4 DEF Request
  <2>2. request'[q] = request[q] /\ Ahead(q)' = Ahead(q)
    BY <1>1, <1>3, <2>1
  <2>3. Untouched(plugin, Ahead(holder))
    BY <1>1, <2>2 DEF Deep, Undisturbed, Active, Bare
  <2> QED BY <1>1, <1>2, <2>3 DEF Ahead
<1>11. CallsOK'
  <2> SUFFICES ASSUME HasOps, NEW c \in Caller PROVE CallOK(c)'
    BY <1>1 DEF CallsOK, HasOps
  <2>1. CallOK(c)
    BY DEF Deep, CallsOK
  <2>2. CASE c # r
    <3>1. request'[c] = request[c]
      BY <1>1, <2>2 DEF Request
    <3> QED BY <1>1, <2>1, <3>1 DEF CallOK, Active, Whole, OpOf, HasOps
  <2>3. CASE c = r
    <3>1. r \notin calm'
      BY <1>1, <2>1, <2>3 DEF CallOK
    <3> QED BY <2>3, <3>1 DEF CallOK
  <2> QED BY <2>2, <2>3
<1> QED BY <1>5, <1>6, <1>7, <1>8, <1>9, <1>10, <1>11 DEF Deep

LEMMA WriterAsksDeep ==
  ASSUME Basics, Deep, NEW r \in Writer, NEW u \in User,
         AskAt(r, u) \/ AskFor(r, u) \/ AskBinding(r, u)
  PROVE  Basics' /\ Deep'
<1>1. PICK kind \in Kinds, s \in {u, Org, None} : Asked(r, kind, u, s)
  BY WriterAsks
<1>2. r \in Request /\ r \notin Caller
  BY NamesAssumption DEF Request
<1> QED BY <1>1, <1>2, WriterAsks, AskDeep

\* Who has a claim on the rows knows its scope.
LEMMA PlacedScope ==
  ASSUME Basics, NEW q \in Writer, Placed(q)
  PROVE  request[q].at \in Scope
<1>1. CASE holder = q
  BY <1>1, HolderScope
<1>2. CASE Bare(q) /\ "fetch" \notin Ahead(q)
  <2>1. Active(q) /\ ActiveOK(q) /\ q \in Request
    BY DEF Placed, Basics, Scripts, Request
  <2>2. PICK x \in Await : At(q, x)
    <3>1. request[q].todo \in Seq(Await) /\ request[q].todo # <<>>
      BY <2>1 DEF Basics, TypeOK, RequestType, ActiveOK
    <3> QED BY <3>1 DEF At
  <2>3. Ordered("google", "refresh", x, Ahead(q))
    BY <1>2, <2>1, <2>2, AtStep DEF Basics, Bare
  <2>4. x # "find" /\ x # "resolve"
    BY <1>2, <2>3 DEF Ordered, CallWords
  <2> QED BY <2>1, <2>2, <2>4, AtScope DEF Basics
<1> QED BY <1>1, <1>2 DEF Placed

(* A fetch: by FreshOK no row and no call rests on the specification it     *)
(* changes.                                                                 *)
LEMMA FetchDeep ==
  ASSUME Basics, Deep, NEW r \in Writer, Fetch(r)
  PROVE  Basics' /\ Deep'
<1> DEFINE W == Ahead(r)
<1>1. /\ At(r, "fetch") /\ r \in Request /\ r # None /\ calm' = calm \cup {r}
      /\ UNCHANGED <<plugin, core, config, ops, bound, holder, saved, torn>>
  BY NamesAssumption DEF Fetch, tables, Request
<1>2. /\ Active(r) /\ "fetch" \in W /\ "register" \in W
      /\ plugin # "raw" => Untouched(plugin, W)
  BY <1>1, AtStep DEF Basics, Ordered
<1>3. /\ Moves(r, "fetch", request[r]) /\ Basics'
      /\ \A v \in Registration : v # r => spec'[v] = spec[v]
  BY FetchBasics
<1>4. Over.outcome = "over" /\ W # {"fetch"}
  BY <1>2 DEF Over, Idle
<1>5. /\ Active(r)' /\ Ahead(r)' = W \ {"fetch"}
      /\ request'[r].at = request[r].at /\ request'[r].seen = request[r].seen
      /\ \A q \in Request : q # r => request'[q] = request[q]
  BY <1>3, <1>4 DEF Moves
<1>6. Absent(r)
  BY <1>2 DEF Deep, FreshOK, NotYet
<1>7. \A v \in Registration \cup {None} : v # r =>
        \A t \in Tool : OpOf(v, t)' = OpOf(v, t)
  BY <1>1, <1>3 DEF OpOf, HasOps
<1> HIDE DEF W
<1>8. FreshOK'
  <2> SUFFICES ASSUME NEW q \in Writer, NotYet(q)' PROVE Absent(q)'
    BY DEF FreshOK
  <2>1. q # r /\ q \in Request
    BY <1>5 DEF NotYet, Active, Request
  <2>2. NotYet(q)
    BY <1>5, <2>1 DEF NotYet, Active, Ahead
  <2>3. Absent(q)
    BY <2>2 DEF Deep, FreshOK
  <2>4. \A x \in Request : request'[x].seen = request[x].seen
    BY <1>5
  <2> QED BY <1>1, <2>3, <2>4 DEF Absent
<1>9. RawOK'
  BY <1>1 DEF Deep, RawOK
<1>10. SavedWhole'
  <2> SUFFICES ASSUME holder # None, plugin # "raw", NEW x \in Scope,
                      x \notin saved[5]
               PROVE  /\ \A t \in Tool : saved[3][x][t] = OpOf(saved[1][x], t)'
                      /\ plugin # "mcp" => saved[2][x] = saved[1][x]
    <3>1. plugin' = plugin /\ holder' = holder /\ saved' = saved
      BY <1>1
    <3> QED BY <3>1 DEF SavedWhole, OpOf, HasOps
  <2>1. /\ \A t \in Tool : saved[3][x][t] = OpOf(saved[1][x], t)
        /\ plugin # "mcp" => saved[2][x] = saved[1][x]
    BY DEF Deep, SavedWhole
  <2>2. saved[1][x] \in Registration \cup {None} /\ saved[1][x] # r
    BY <1>6 DEF Basics, SavedTypes, Absent
  <2> DEFINE v == saved[1][x]
  <2>3. \A t \in Tool : OpOf(v, t)' = OpOf(v, t)
    <3> SUFFICES ASSUME NEW t \in Tool, NEW y, y = saved[1][x]
                 PROVE  OpOf(saved[1][x], t)' = OpOf(saved[1][x], t)
      OBVIOUS
    <3>1. OpOf(y, t)' = OpOf(y, t)
      BY <1>7, <2>2
    <3> QED BY <1>1, <3>1 DEF OpOf, HasOps
  <2> QED BY <2>1, <2>3
<1>11. BoundOK'
  BY <1>1, <1>3, KeepsBound DEF Basics, Deep
<1>a. \A x \in Scope : Whole(x) => Whole(x)'
  <2> SUFFICES ASSUME NEW x \in Scope, Whole(x) PROVE Whole(x)'
    OBVIOUS
  <2>1. core[x] \in Registration \cup {None} /\ core[x] # r
    BY <1>6 DEF Basics, TypeOK, Absent
  <2>2. PICK y : y = core[x]
    OBVIOUS
  <2>3. \A t \in Tool : OpOf(core[x], t)' = OpOf(core[x], t)
    <3>1. \A t \in Tool : OpOf(y, t)' = OpOf(y, t)
      BY <1>7, <2>1, <2>2
    <3> QED BY <1>1, <2>2, <3>1 DEF OpOf, HasOps
  <2> QED BY <1>1, <2>3 DEF Whole
<1>12. OthersWhole'
  <2>1. holder # None => request'[holder].at = request[holder].at
    BY <1>5 DEF Basics, TypeOK, Request
  <2> QED BY <1>1, <1>a, <2>1 DEF Deep, OthersWhole
<1>13. ProgressOK'
  <2> SUFFICES ASSUME plugin # "raw", NEW q \in Writer, Placed(q)', Unhit(q)'
               PROVE  Progress(q)'
    BY <1>1 DEF ProgressOK
  <2>1. CASE q = r
    <3>1. /\ "dropOps" \in Ahead(r)' /\ "register" \in Ahead(r)'
          /\ plugin # "mcp" => "putConfig" \in Ahead(r)' \/ "dropConfig" \in Ahead(r)'
      BY <1>2, <1>5 DEF Untouched
    <3> QED BY <1>1, <2>1, <3>1 DEF Progress
  <2>2. CASE q # r
    <3>1. request'[q] = request[q] /\ q \in Request /\ q \in Registration
      BY <1>5, <2>2 DEF Request, Registration
    <3>2. Placed(q) /\ Unhit(q) /\ Ahead(q)' = Ahead(q)
      BY <1>1, <2>2, <3>1 DEF Placed, Unhit, Active, Bare, Ahead
    <3>3. Progress(q) /\ request[q].at \in Scope
      BY <3>2, PlacedScope DEF Deep, ProgressOK
    <3>4. Coming(q) \in Registration \cup {None} /\ Coming(q) # r
      BY <1>1, <1>6, <2>2, <3>1, <3>3 DEF Coming, Basics, TypeOK, Absent
    <3>5. Coming(q)' = Coming(q)
      BY <1>1, <3>1, <3>2 DEF Coming
    <3>6. PICK y : y = Coming(q)
      OBVIOUS
    <3>7. \A t \in Tool : OpOf(Coming(q), t)' = OpOf(Coming(q), t)
      <4>1. \A t \in Tool : OpOf(y, t)' = OpOf(y, t)
        BY <1>7, <3>4, <3>6
      <4> QED BY <1>1, <3>5, <3>6, <4>1 DEF OpOf, HasOps
    <3>8. spec'[q] = spec[q]
      BY <1>3, <2>2, <3>1
    <3> QED BY <1>1, <3>1, <3>2, <3>3, <3>5, <3>7, <3>8 DEF Progress
  <2> QED BY <2>1, <2>2
<1>14. Undisturbed'
  <2> SUFFICES ASSUME plugin # "raw", NEW q \in Writer, q \in calm', Active(q)',
                      Bare(q)', "fetch" \notin Ahead(q)',
                      "register" \notin Ahead(q)', holder' \notin {None, q}
               PROVE  Untouched(plugin, Ahead(holder))'
    BY <1>1 DEF Undisturbed
  <2>1. q # r /\ q \in Request
    BY <1>2, <1>5 DEF Request
  <2>2. request'[q] = request[q] /\ q \in calm
    BY <1>1, <1>5, <2>1
  <2>3. Untouched(plugin, Ahead(holder)) /\ holder \in Writer /\ holder \in Request
    BY <1>1, <2>2 DEF Deep, Undisturbed, Active, Bare, Ahead, Basics, TypeOK, Request
  <2>4. CASE holder # r
    BY <1>1, <1>5, <2>3, <2>4 DEF Ahead
  <2>5. CASE holder = r
    <3>1. Untouched(plugin, W \ {"fetch"})
      BY <2>3, <2>5 DEF Untouched, W
    <3>2. Ahead(holder)' = W \ {"fetch"}
      BY <1>1, <1>5, <2>5
    <3> QED BY <1>1, <3>1, <3>2
  <2> QED BY <2>4, <2>5
<1>15. CallsOK'
  <2> SUFFICES ASSUME HasOps, NEW c \in Caller PROVE CallOK(c)'
    BY <1>1 DEF CallsOK, HasOps
  <2>1. CallOK(c) /\ c # r /\ c \in Request
    BY NamesAssumption DEF Deep, CallsOK, Request
  <2>2. request'[c] = request[c] /\ Ahead(c)' = Ahead(c) /\ (c \in calm' <=> c \in calm)
    BY <1>1, <1>5, <2>1 DEF Ahead
  <2>3. request[c].seen # r
    BY <1>6, <2>1 DEF Absent
  <2>4. request[c].seen \in Registration =>
          spec'[request[c].seen] = spec[request[c].seen]
    BY <1>3, <2>3
  <2>5. core[request[c].at] = request[c].seen /\ request[c].seen \in Registration
        /\ Whole(request[c].at) => Whole(request[c].at)'
    <3> SUFFICES ASSUME core[request[c].at] = request[c].seen,
                        request[c].seen \in Registration, Whole(request[c].at)
                 PROVE  Whole(request[c].at)'
      OBVIOUS
    <3>1. PICK y : y = core[request[c].at]
      OBVIOUS
    <3>2. \A t \in Tool : OpOf(y, t)' = OpOf(y, t)
      BY <1>7, <2>3, <3>1
    <3> QED BY <1>1, <2>2, <3>1, <3>2 DEF Whole, OpOf, HasOps
  <2> QED BY <1>1, <2>1, <2>2, <2>4, <2>5 DEF CallOK, Active
<1> QED BY <1>3, <1>8, <1>9, <1>10, <1>11, <1>12, <1>13, <1>14, <1>15 DEF Deep

(* BEGIN saves scopes that are whole or marked.                             *)
LEMMA BeginsDeep ==
  ASSUME Basics, Deep, NEW r \in Writer, Begins(r)
  PROVE  Basics' /\ Deep'
<1> DEFINE W == Ahead(r)
<1>1. /\ At(r, "begin") /\ r \in Request /\ r # None /\ calm' = calm \cup {r}
      /\ holder = None /\ holder' = r
      /\ saved'[1] = core /\ saved'[2] = config /\ saved'[3] = ops
      /\ saved'[4] = bound /\ saved'[5] = torn
      /\ UNCHANGED <<plugin, core, config, ops, bound, spec, torn>>
  BY NamesAssumption DEF Begins, tables, Request
<1>2. /\ Active(r) /\ "begin" \in W /\ "commit" \in W
      /\ plugin # "raw" => Untouched(plugin, W)
      /\ plugin = "openapi" /\ "putConfig" \in W => "dropConfig" \in W
  BY <1>1, AtStep DEF Basics, Ordered
<1>3. Moves(r, "begin", request[r]) /\ Basics'
  BY BeginsBasics
<1>4. /\ Active(r)' /\ Ahead(r)' = W \ {"begin"}
      /\ request'[r].at = request[r].at /\ request'[r].seen = request[r].seen
      /\ request'[r].left = request[r].left
      /\ \A q \in Request : q # r => request'[q] = request[q]
  BY <1>2, <1>3 DEF Moves
<1> HIDE DEF W
<1>5. Ahead(holder)' = W \ {"begin"} /\ request'[holder'].at = request[r].at
  BY <1>1, <1>4
<1>6. FreshOK'
  <2> SUFFICES ASSUME NEW q \in Writer, NotYet(q)' PROVE Absent(q)'
    BY DEF FreshOK
  <2>1. NotYet(q)
    <3>1. CASE q = r
      BY <1>2, <1>4, <3>1 DEF NotYet, Active, W
    <3>2. CASE q # r
      BY <1>4, <3>2 DEF NotYet, Active, Ahead, Request
    <3> QED BY <3>1, <3>2
  <2>2. Absent(q)
    BY <2>1 DEF Deep, FreshOK
  <2>3. \A x \in Request : request'[x].seen = request[x].seen
    BY <1>4
  <2> QED BY <1>1, <2>2, <2>3 DEF Absent
<1>7. RawOK'
  BY <1>1 DEF Deep, RawOK
<1>a. \A x \in Scope : Whole(x) => Whole(x)'
  BY <1>1 DEF Whole, OpOf, HasOps
<1>8. OthersWhole'
  BY <1>1, <1>a DEF Deep, OthersWhole
<1>9. SavedWhole'
  <2> SUFFICES ASSUME plugin # "raw", NEW x \in Scope, x \notin torn
               PROVE  /\ \A t \in Tool : ops[x][t] = OpOf(core[x], t)
                      /\ plugin # "mcp" => config[x] = core[x]
    <3>1. plugin' = plugin
      BY <1>1
    <3> QED BY <1>1, <3>1 DEF SavedWhole, OpOf, HasOps
  <2>1. Whole(x)
    BY <1>1 DEF Deep, OthersWhole
  <2> QED BY <2>1 DEF Whole
<1>10. BoundOK'
  <2>1. \A b \in bound : b.late \/ b.made = config[b.source]
    BY <1>1 DEF Deep, BoundOK
  <2>2. plugin # "openapi" => bound = {}
    BY DEF Deep, BoundOK
  <2>3. plugin = "openapi" /\ "putConfig" \in W \ {"begin"} =>
          "dropConfig" \in W \ {"begin"}
    BY <1>2
  <2> QED BY <1>1, <1>5, <2>1, <2>2, <2>3 DEF BoundOK
<1>11. ProgressOK'
  <2> SUFFICES ASSUME plugin # "raw", NEW q \in Writer, Placed(q)', Unhit(q)'
               PROVE  Progress(q)'
    BY <1>1 DEF ProgressOK
  <2>1. CASE q = r
    <3>1. /\ "dropOps" \in Ahead(r)'
          /\ plugin # "mcp" => "putConfig" \in Ahead(r)' \/ "dropConfig" \in Ahead(r)'
          /\ "putEach" \in Ahead(r)' \/ "putConfig" \in Ahead(r)' =>
               "register" \in Ahead(r)'
      BY <1>2, <1>4 DEF Untouched
    <3> QED BY <1>1, <2>1, <3>1 DEF Progress
  <2>2. CASE q # r
    <3>1. request'[q] = request[q] /\ Ahead(q)' = Ahead(q)
      BY <1>4, <2>2 DEF Request, Ahead
    <3>2. Placed(q) /\ Unhit(q)
      BY <1>1, <2>2, <3>1 DEF Placed, Unhit, Active, Bare
    <3>3. Progress(q)
      BY <3>2 DEF Deep, ProgressOK
    <3>4. Coming(q)' = Coming(q)
      BY <1>1, <3>1 DEF Coming
    <3> QED BY <1>1, <3>1, <3>3, <3>4 DEF Progress, OpOf, HasOps
  <2> QED BY <2>1, <2>2
<1>12. Undisturbed'
  <2>1. plugin # "raw" => Untouched(plugin, W \ {"begin"})
    BY <1>2 DEF Untouched
  <2>2. plugin' = plugin
    BY <1>1
  <2>3. plugin # "raw" => Untouched(plugin, Ahead(holder))'
    BY <1>5, <2>1, <2>2
  <2> QED BY <2>2, <2>3 DEF Undisturbed
<1>13. CallsOK'
  <2> SUFFICES ASSUME HasOps, NEW c \in Caller PROVE CallOK(c)'
    BY <1>1 DEF CallsOK, HasOps
  <2>1. CallOK(c) /\ c # r /\ c \in Request
    BY NamesAssumption DEF Deep, CallsOK, Request
  <2>2. request'[c] = request[c] /\ (c \in calm' <=> c \in calm)
    BY <1>1, <1>4, <2>1
  <2> QED BY <1>1, <2>1, <2>2 DEF CallOK, Active, Whole, OpOf, HasOps
<1> QED BY <1>3, <1>6, <1>7, <1>8, <1>9, <1>10, <1>11, <1>12, <1>13 DEF Deep

(* COMMIT: the rest of the script needs nothing more, so its scope is       *)
(* whole, or the transaction was disturbed and the scope stays marked.      *)
LEMMA CommitsDeep ==
  ASSUME Basics, Deep, NEW r \in Writer, Commits(r)
  PROVE  Basics' /\ Deep'
<1>1. /\ At(r, "commit") /\ r \in Request /\ holder' = None
      /\ torn' = IF r \in calm /\ ~(request[r].kind = "removeAt"
                                      /\ request[r].missed)
                 THEN torn \ {request[r].at} ELSE torn
      /\ UNCHANGED <<plugin, core, config, ops, bound, spec, calm>>
  BY DEF Commits, tables, Request
<1>2. /\ Overs(r) /\ holder = r /\ Ahead(r) = {"commit"} /\ Active(r) /\ Basics'
      /\ r # None
  BY CommitsBasics, NamesAssumption
<1>3. /\ ~Active(r)' /\ request'[r].outcome = "over" /\ request'[r].seen = None
      /\ \A q \in Request : q # r => request'[q] = request[q]
  BY <1>2 DEF Overs
<1>4. FreshOK'
  <2> SUFFICES ASSUME NEW q \in Writer, NotYet(q)' PROVE Absent(q)'
    BY DEF FreshOK
  <2>1. q # r /\ q \in Request /\ q # None
    BY <1>3, NamesAssumption DEF NotYet, Request
  <2>2. NotYet(q)
    BY <1>3, <2>1 DEF NotYet, Active, Ahead
  <2>3. Absent(q)
    BY <2>2 DEF Deep, FreshOK
  <2>4. \A x \in Request : request'[x].seen # q
    BY <1>3, <2>1, <2>3 DEF Absent
  <2> QED BY <1>1, <2>3, <2>4 DEF Absent
<1>5. RawOK' /\ SavedWhole' /\ Undisturbed'
  BY <1>1 DEF Deep, RawOK, SavedWhole, Undisturbed
<1>6. BoundOK'
  <2>1. \A b \in bound : b.late \/ b.made = config[b.source]
    BY <1>2 DEF Deep, BoundOK
  <2>2. plugin # "openapi" => bound = {}
    BY DEF Deep, BoundOK
  <2> QED BY <1>1, <2>1, <2>2 DEF BoundOK
<1>a. \A x \in Scope : Whole(x) => Whole(x)'
  BY <1>1 DEF Whole, OpOf, HasOps
<1>7. OthersWhole'
  <2> SUFFICES ASSUME plugin # "raw", NEW s \in Scope, s \notin torn'
               PROVE  Whole(s)
    BY <1>1, <1>a DEF OthersWhole
  <2>1. CASE s # request[r].at
    BY <1>1, <1>2, <2>1 DEF Deep, OthersWhole
  <2>2. CASE s = request[r].at
    <3>1. Placed(r) /\ Unhit(r)
      BY <1>1, <1>2, <2>2 DEF Placed, Unhit
    <3>2. Progress(r)
      BY <3>1 DEF Deep, ProgressOK
    <3>3. Coming(r) = core[s]
      BY <1>2, <2>2 DEF Coming, Lists
    <3> QED BY <1>2, <2>2, <3>2, <3>3 DEF Progress, Whole
  <2> QED BY <2>1, <2>2
<1>8. ProgressOK'
  <2> SUFFICES ASSUME plugin # "raw", NEW q \in Writer, Placed(q)', Unhit(q)'
               PROVE  Progress(q)'
    BY <1>1 DEF ProgressOK
  <2>1. q # r /\ q \in Request /\ holder' # q
    BY <1>1, <1>3, NamesAssumption DEF Placed, Request
  <2>2. request'[q] = request[q] /\ Ahead(q)' = Ahead(q)
    BY <1>3, <2>1 DEF Ahead
  <2>3. Placed(q) /\ Unhit(q)
    BY <1>1, <2>1, <2>2 DEF Placed, Unhit, Active, Bare
  <2>4. Progress(q)
    BY <2>3 DEF Deep, ProgressOK
  <2>5. Coming(q)' = Coming(q)
    BY <1>1, <2>2 DEF Coming
  <2> QED BY <1>1, <2>2, <2>4, <2>5 DEF Progress, OpOf, HasOps
<1>9. CallsOK'
  BY <1>1, <1>3, QuietCalls DEF Deep
<1> QED BY <1>2, <1>4, <1>5, <1>6, <1>7, <1>8, <1>9 DEF Deep

(* A rollback restores what was whole, and marks the scopes of refreshes    *)
(* that are halfway without a transaction.                                  *)
LEMMA FailDeep ==
  ASSUME Basics, Deep, NEW r \in Writer, Fail(r)
  PROVE  Basics' /\ Deep'
<1>1. Overs(r) /\ Active(r) /\ Basics' /\ r \in Request
  BY FailBasics DEF Request
<1>2. /\ ~Active(r)' /\ request'[r].outcome = "over" /\ request'[r].seen = None
      /\ \A q \in Request : q # r => request'[q] = request[q]
  BY <1>1 DEF Overs
<1>3. CASE holder # r
  <2>1. UNCHANGED <<plugin, core, config, ops, bound, spec, holder, saved, calm, torn>>
    BY <1>3 DEF Fail, tables
  <2>2. Quiet(r, "find", request[r])
    BY <1>1, <1>2, <1>3, <2>1 DEF Quiet, QuietWords
  <2>3. BoundOK'
    BY <1>1, <1>2, <1>3, <2>1, KeepsBound DEF Basics, Deep
  <2>4. CallsOK'
    BY <1>2, <2>1, QuietCalls DEF Deep
  <2>5. ~Placed(r)'
    BY <1>2 DEF Placed
  <2> QED BY <1>1, <2>2, <2>3, <2>4, <2>5, QuietDeep
<1>4. CASE holder = r
  <2>1. /\ core' = saved[1] /\ config' = saved[2] /\ ops' = saved[3]
        /\ bound' = saved[4] /\ torn' = saved[5] \cup Halfway
        /\ holder' = None /\ calm' = {} /\ UNCHANGED <<plugin, spec>>
        /\ holder # None
    BY <1>4, NamesAssumption DEF Fail
  <2>2. FreshOK'
    <3> SUFFICES ASSUME NEW q \in Writer, NotYet(q)' PROVE Absent(q)'
      BY DEF FreshOK
    <3>1. q # r /\ q \in Request /\ q # None
      BY <1>2, NamesAssumption DEF NotYet, Request
    <3>2. NotYet(q)
      BY <1>2, <3>1 DEF NotYet, Active, Ahead
    <3>3. Absent(q)
      BY <3>2 DEF Deep, FreshOK
    <3>4. \A x \in Request : request'[x].seen # q
      BY <1>2, <3>1, <3>3 DEF Absent
    <3> QED BY <2>1, <3>3, <3>4 DEF Absent
  <2>3. RawOK' /\ SavedWhole' /\ Undisturbed'
    BY <2>1 DEF Deep, RawOK, SavedWhole, Undisturbed
  <2>4. BoundOK'
    <3>1. \A b \in saved[4] : b.late \/ b.made = saved[2][b.source]
      BY <2>1 DEF Deep, BoundOK
    <3>2. plugin # "openapi" => saved[4] = {}
      BY <2>1 DEF Deep, BoundOK
    <3> QED BY <2>1, <3>1, <3>2 DEF BoundOK
  <2>5. OthersWhole'
    <3> SUFFICES ASSUME plugin # "raw", NEW s \in Scope, s \notin torn'
                 PROVE  Whole(s)'
      BY <2>1 DEF OthersWhole
    <3>1. /\ \A t \in Tool : saved[3][s][t] = OpOf(saved[1][s], t)
          /\ plugin # "mcp" => saved[2][s] = saved[1][s]
      BY <2>1 DEF Deep, SavedWhole
    <3> QED BY <2>1, <3>1 DEF Whole, OpOf, HasOps
  <2>6. ProgressOK'
    <3> SUFFICES ASSUME NEW q \in Writer, Placed(q)', Unhit(q)' PROVE FALSE
      BY DEF ProgressOK
    <3>1. holder' # q
      BY <2>1, NamesAssumption
    <3> QED BY <2>1, <3>1 DEF Unhit
  <2>7. CallsOK'
    BY <2>1 DEF CallsOK, CallOK
  <2> QED BY <1>1, <2>2, <2>3, <2>4, <2>5, <2>6, <2>7 DEF Deep
<1> QED BY <1>3, <1>4

-----------------------------------------------------------------------------
(* The steps of a call, which change nothing but its own request.          *)
LEMMA CallDeep ==
  ASSUME Basics, Deep, Basics', NEW r \in Caller,
         \A q \in Request : q # r => /\ request'[q] = request[q]
                                     /\ q \in calm' <=> q \in calm,
         UNCHANGED <<plugin, core, config, ops, bound, spec, holder, saved, torn>>,
         \/ request'[r].seen \in {request[r].seen, None}
         \/ \E s \in Scope : request'[r].seen = core[s],
         HasOps => CallOK(r)'
  PROVE  Deep'
<1>1. r \notin Writer /\ r \in Request /\ holder # r
  BY NamesAssumption DEF Request, Basics, TypeOK
<1>2. \A q \in Writer : /\ request'[q] = request[q] /\ Ahead(q)' = Ahead(q)
                        /\ Active(q)' <=> Active(q)
                        /\ NotYet(q)' <=> NotYet(q)
                        /\ Bare(q)' <=> Bare(q)
                        /\ q \in calm' <=> q \in calm
  BY <1>1 DEF Ahead, Active, NotYet, Bare, Request
<1>3. holder # None =>
        request'[holder] = request[holder] /\ Ahead(holder)' = Ahead(holder)
  <2> SUFFICES ASSUME holder # None
               PROVE  request'[holder] = request[holder] /\ Ahead(holder)' = Ahead(holder)
    OBVIOUS
  <2>1. holder \in Writer /\ holder' = holder
    BY DEF Basics, TypeOK
  <2> QED BY <1>2, <2>1 DEF Ahead
<1>4. FreshOK'
  <2> SUFFICES ASSUME NEW q \in Writer, NotYet(q)' PROVE Absent(q)'
    BY DEF FreshOK
  <2>1. Absent(q) /\ q # None
    BY <1>2, NamesAssumption DEF Deep, FreshOK
  <2>2. \A x \in Request : request'[x].seen # q
    BY <1>1, <2>1 DEF Absent
  <2> QED BY <2>1, <2>2 DEF Absent
<1>5. RawOK' /\ SavedWhole'
  <2>1. RawOK'
    BY DEF Deep, RawOK
  <2>2. SavedWhole'
    BY DEF Deep, SavedWhole, OpOf, HasOps
  <2> QED BY <2>1, <2>2
<1>6. BoundOK'
  BY <1>1, KeepsBound DEF Basics, Deep
<1>7. OthersWhole'
  <2>1. \A x \in Scope : Whole(x) => Whole(x)'
    BY DEF Whole, OpOf, HasOps
  <2> QED BY <1>3, <2>1 DEF Deep, OthersWhole
<1>8. ProgressOK'
  <2> SUFFICES ASSUME plugin # "raw", NEW q \in Writer, Placed(q)', Unhit(q)'
               PROVE  Progress(q)'
    BY DEF ProgressOK
  <2>1. Placed(q) /\ Unhit(q)
    BY <1>2 DEF Placed, Unhit
  <2>2. Progress(q)
    BY <2>1 DEF Deep, ProgressOK
  <2>3. Coming(q)' = Coming(q)
    BY <1>2 DEF Coming
  <2> QED BY <1>2, <2>2, <2>3 DEF Progress, OpOf, HasOps
<1>9. Undisturbed'
  <2> SUFFICES ASSUME plugin # "raw", NEW q \in Writer, q \in calm', Active(q)',
                      Bare(q)', "fetch" \notin Ahead(q)',
                      "register" \notin Ahead(q)', holder \notin {None, q}
               PROVE  Untouched(plugin, Ahead(holder))'
    BY DEF Undisturbed
  <2>1. Untouched(plugin, Ahead(holder))
    BY <1>2 DEF Deep, Undisturbed
  <2> QED BY <1>3, <2>1
<1>10. CallsOK'
  <2> SUFFICES ASSUME HasOps, NEW c \in Caller PROVE CallOK(c)'
    BY DEF CallsOK, HasOps
  <2>1. CASE c = r
    BY <2>1
  <2>2. CASE c # r
    <3>1. CallOK(c)
      BY DEF Deep, CallsOK
    <3>2. request'[c] = request[c] /\ (c \in calm' <=> c \in calm)
      BY <2>2 DEF Request
    <3> QED BY <3>1, <3>2 DEF CallOK, Active, Whole, OpOf, HasOps
  <2> QED BY <2>1, <2>2
<1> QED BY <1>4, <1>5, <1>6, <1>7, <1>8, <1>9, <1>10 DEF Deep

(* A call is made.                                                          *)
LEMMA AskInvokeDeep ==
  ASSUME Basics, Deep, NEW r \in Caller, NEW u \in User, AskInvoke(r, u)
  PROVE  Basics' /\ Deep'
<1>1. PICK t \in Tool : Ask(r, "invoke", u, None, None, t)
  BY DEF AskInvoke
<1>2. r \in Request /\ Asked(r, "invoke", u, None) /\ Basics'
  BY <1>1, AskBasics DEF Request
<1> QED BY <1>1, <1>2, AskDeep DEF Ask, tables

\* A call that is over promises nothing any more.
LEMMA CallOver ==
  ASSUME NEW r, Overs(r)
  PROVE  CallOK(r)'
BY DEF Overs, CallOK

\* What a read of a call keeps of the basics.
LEMMA ReadBasics ==
  ASSUME Basics, NEW r \in Caller, Active(r), Reads(r), calm' \subseteq calm \cup {r},
         NEW w, w \notin {"begin", "commit"}, NEW R,
         \/ Follows(r, w, R) /\ Moves(r, w, R)
         \/ Overs(r)
  PROVE  Basics'
<1>1. r \in Request /\ holder # r
  BY NamesAssumption DEF Request, Basics, TypeOK
<1>2. /\ spec' \in [Registration -> Specs] /\ bound' \subseteq BindingType
      /\ torn' \subseteq Scope /\ calm' \subseteq Request
      /\ UNCHANGED <<plugin, database, core, config, ops, holder, saved>>
  BY <1>1 DEF Reads, tables, Basics, TypeOK
<1> QED BY <1>1, <1>2, QuietBasics

(* A call finds its tool in the list of a scope that is whole.              *)
LEMMA ResolveDeep ==
  ASSUME Basics, Deep, NEW r \in Caller, Resolve(r)
  PROVE  Basics' /\ Deep'
<1> DEFINE R == request[r]
           S == {x \in Registered : R.tool \in spec[core[x]].tools}
           s == Innermost(R.user, S)
           N == [R EXCEPT !.at = s, !.seen = core[s]]
           W == Ahead(r)
<1>1. /\ At(r, "resolve") /\ r \in Request /\ r # None /\ Reads(r)
      /\ calm' = IF holder = None /\ s \notin torn THEN calm \cup {r} ELSE calm
      /\ IF s = None THEN Ends(r) ELSE Goes(r, N)
  BY NamesAssumption DEF Resolve, Queries, Request
<1>2. /\ Active(r) /\ ActiveOK(r) /\ "resolve" \in W
      /\ plugin # "raw" =>
           "operation" \in W /\ (plugin # "mcp" => "annotate" \in W)
      /\ R \in RequestType /\ R.user \in User
  BY <1>1, AtStep DEF Basics, Ordered, ActiveOK, TypeOK
<1>a. calm' \subseteq calm \cup {r}
  BY <1>1
<1>b. UNCHANGED <<plugin, core, config, ops, bound, spec, holder, saved, torn>>
  BY <1>1 DEF Reads, tables
<1>3. CASE s = None
  <2>1. Overs(r)
    BY <1>1, <1>3, EndsStep DEF Basics
  <2>2. Basics'
    BY <1>1, <1>2, <1>a, <2>1, ReadBasics
  <2>3. request'[r].seen = None
        /\ \A q \in Request : q # r => /\ request'[q] = request[q]
                                       /\ q \in calm' <=> q \in calm
    BY <1>1, <2>1 DEF Overs
  <2>4. CallOK(r)'
    BY <2>1, CallOver
  <2> QED BY <1>b, <2>2, <2>3, <2>4, CallDeep
<1>4. CASE s # None
  <2>1. s \in S /\ s \in {R.user, Org}
    BY <1>2, <1>4, InnermostScope DEF Registered
  <2>2. /\ s \in Scope /\ core[s] \in Registration /\ R.tool \in Tool
        /\ R.tool \in spec[core[s]].tools
    BY <1>2, <2>1 DEF Registered, Basics, TypeOK, Specs
  <2>3. /\ N \in RequestType /\ N.todo = R.todo /\ N.outcome = "running"
        /\ N.kind = R.kind /\ N.user = R.user /\ N.target = R.target
        /\ N.tool = R.tool /\ N.at = s /\ N.seen = core[s]
        /\ N.missed = R.missed
    BY <1>2, <2>2 DEF RequestType, Active
  <2> HIDE DEF N, S, s
  <2>4. Follows(r, "resolve", N)
    BY <2>1, <2>2, <2>3 DEF Follows
  <2>5. Moves(r, "resolve", N)
    BY <1>1, <1>4, <2>4, GoesStep DEF Basics
  <2>6. Basics'
    BY <1>1, <1>2, <1>a, <2>4, <2>5, ReadBasics
  <2>7. Over.outcome = "over" /\ Over.seen = None
    BY DEF Over, Idle
  <2>8. /\ \A q \in Request : q # r => /\ request'[q] = request[q]
                                       /\ q \in calm' <=> q \in calm
        /\ request'[r].seen \in {core[s], None}
    BY <1>1, <2>3, <2>5, <2>7 DEF Moves
  <2>9. ASSUME HasOps PROVE CallOK(r)'
    <3>1. CASE request'[r] = Over
      BY <2>7, <3>1 DEF CallOK, Active
    <3>2. CASE request'[r] # Over
      <4>1. /\ request'[r].at = s /\ request'[r].seen = core[s]
            /\ request'[r].tool = R.tool /\ Active(r)'
            /\ Words(request'[r].todo) = W \ {"resolve"}
        BY <2>3, <2>5, <3>2 DEF Moves, Ahead
      <4>2. ASSUME r \in calm' PROVE holder = None /\ s \notin torn
        <5>1. r \notin calm
          BY <1>2, <2>9 DEF Deep, CallsOK, CallOK, Ahead
        <5> QED BY <1>1, <4>2, <5>1
      <4>3. ASSUME r \in calm' PROVE Whole(s)
        BY <2>2, <2>9, <4>2, <4>3 DEF Deep, OthersWhole, HasOps
      <4>4. "operation" \in W \ {"resolve"}
            /\ (plugin # "mcp" => "annotate" \in W \ {"resolve"})
        BY <1>2, <2>9 DEF HasOps
      <4> QED BY <1>b, <2>2, <4>1, <4>3, <4>4
              DEF CallOK, Active, Whole, OpOf, HasOps
    <3> QED BY <3>1, <3>2
  <2> QED BY <1>b, <2>2, <2>6, <2>8, <2>9, CallDeep
<1> QED BY <1>3, <1>4

(* It reads whether the tool requires approval, off the row of the listed   *)
(* registration.                                                            *)
LEMMA AnnotateDeep ==
  ASSUME Basics, Deep, NEW r \in Caller, Annotate(r)
  PROVE  Basics' /\ Deep'
<1> DEFINE R == request[r]
           v == ops[R.at][R.tool]
           g == v # None /\ R.tool \in spec[v].gated
           N == [R EXCEPT !.gate = g]
           W == Ahead(r)
<1>1. At(r, "annotate") /\ r \in Request /\ Reads(r) /\ calm' = calm /\ Goes(r, N)
  BY DEF Annotate, Queries, Request
<1>2. /\ Active(r) /\ "annotate" \in W /\ "approve" \in W /\ R \in RequestType
      /\ "resolve" \notin W
  BY <1>1, AtStep DEF Basics, Ordered, TypeOK
<1>3. UNCHANGED <<plugin, core, config, ops, bound, spec, holder, saved, torn, calm>>
  BY <1>1 DEF Reads, tables
<1>4. g \in BOOLEAN
  OBVIOUS
<1> HIDE DEF g
<1>5. /\ N \in RequestType /\ N.todo = R.todo /\ N.outcome = "running"
      /\ N.kind = R.kind /\ N.user = R.user /\ N.target = R.target
      /\ N.tool = R.tool /\ N.at = R.at /\ N.seen = R.seen /\ N.ran = R.ran
      /\ N.missed = R.missed /\ N.gate = g /\ N.approved = R.approved
  BY <1>2, <1>4 DEF RequestType, Active
<1> HIDE DEF N, v
<1>6. Follows(r, "annotate", N)
  BY <1>5 DEF Follows
<1>7. Moves(r, "annotate", N)
  BY <1>1, <1>6, GoesStep DEF Basics
<1>8. Basics'
  BY <1>1, <1>2, <1>6, <1>7, ReadBasics
<1>9. Over.outcome = "over" /\ Over.seen = None /\ W # {"annotate"}
  BY <1>2 DEF Over, Idle
<1>10. /\ \A q \in Request : q # r => request'[q] = request[q]
       /\ request'[r].seen = R.seen /\ request'[r].at = R.at
       /\ request'[r].tool = R.tool /\ request'[r].gate = g
       /\ request'[r].ran = R.ran
       /\ Active(r)' /\ Words(request'[r].todo) = W \ {"annotate"}
  BY <1>5, <1>7, <1>9 DEF Moves, Ahead
<1>11. ASSUME HasOps PROVE CallOK(r)'
  <2>1. ASSUME r \in calm
        PROVE  /\ core[R.at] = R.seen /\ R.seen \in Registration
               /\ R.tool \in Tool /\ R.tool \in spec[R.seen].tools
               /\ Whole(R.at)
               /\ "operation" \notin W => R.ran = R.seen
    BY <1>2, <1>11, <2>1 DEF Deep, CallsOK, CallOK, Ahead
  <2>2. ASSUME r \in calm PROVE g = (R.tool \in spec[R.seen].gated)
    <3>1. v = R.seen /\ R.seen # None
      BY <1>11, <2>1, <2>2, NamesAssumption DEF Whole, OpOf, v, Registration
    <3> QED BY <3>1 DEF g
  <2>4. "approve" \in W \ {"annotate"} /\ "resolve" \notin W \ {"annotate"}
    BY <1>2
  <2> QED BY <1>3, <1>10, <2>1, <2>2, <2>4
          DEF CallOK, Active, Whole, OpOf, HasOps
<1> QED BY <1>3, <1>8, <1>10, <1>11, CallDeep

(* The gate.                                                                *)
LEMMA ApproveDeep ==
  ASSUME Basics, Deep, NEW r \in Caller, Approve(r)
  PROVE  Basics' /\ Deep'
<1> DEFINE R == request[r]
           N == [R EXCEPT !.approved = R.gate]
           W == Ahead(r)
<1>1. /\ At(r, "approve") /\ r \in Request /\ Reads(r) /\ calm' = calm
      /\ Goes(r, N) \/ Ends(r)
  BY DEF Approve, Request
<1>2. /\ Active(r) /\ "approve" \in W /\ R \in RequestType
      /\ "annotate" \notin W /\ "resolve" \notin W
  BY <1>1, AtStep DEF Basics, Ordered, TypeOK
<1>3. UNCHANGED <<plugin, core, config, ops, bound, spec, holder, saved, torn, calm>>
  BY <1>1 DEF Reads, tables
<1>4. CASE Ends(r)
  <2>1. Overs(r)
    BY <1>1, <1>4, EndsStep DEF Basics
  <2>2. Basics'
    BY <1>1, <1>2, <2>1, ReadBasics
  <2>3. /\ request'[r].seen = None
        /\ \A q \in Request : q # r => request'[q] = request[q]
    BY <2>1 DEF Overs
  <2>4. CallOK(r)'
    BY <2>1, CallOver
  <2> QED BY <1>3, <2>2, <2>3, <2>4, CallDeep
<1>5. CASE Goes(r, N)
  <2>1. /\ N \in RequestType /\ N.todo = R.todo /\ N.outcome = "running"
        /\ N.kind = R.kind /\ N.user = R.user /\ N.target = R.target
        /\ N.tool = R.tool /\ N.at = R.at /\ N.seen = R.seen /\ N.ran = R.ran
        /\ N.missed = R.missed /\ N.gate = R.gate /\ N.approved = R.gate
    BY <1>2 DEF RequestType, Active
  <2> HIDE DEF N
  <2>2. Follows(r, "approve", N)
    BY <2>1 DEF Follows
  <2>3. Moves(r, "approve", N)
    BY <1>1, <1>5, <2>2, GoesStep DEF Basics
  <2>4. Basics'
    BY <1>1, <1>2, <2>2, <2>3, ReadBasics
  <2>5. Over.outcome = "over" /\ Over.seen = None
    BY DEF Over, Idle
  <2>6. /\ \A q \in Request : q # r => request'[q] = request[q]
        /\ request'[r].seen \in {R.seen, None}
    BY <2>1, <2>3, <2>5 DEF Moves
  <2>7. ASSUME HasOps PROVE CallOK(r)'
    <3>1. CASE request'[r] = Over
      BY <2>5, <3>1 DEF CallOK, Active
    <3>2. CASE request'[r] # Over
      <4>1. /\ request'[r].seen = R.seen /\ request'[r].at = R.at
            /\ request'[r].tool = R.tool /\ request'[r].gate = R.gate
            /\ request'[r].approved = R.gate /\ request'[r].ran = R.ran
            /\ Active(r)' /\ Words(request'[r].todo) = W \ {"approve"}
        BY <2>1, <2>3, <3>2 DEF Moves, Ahead
      <4>2. ASSUME r \in calm
            PROVE  /\ core[R.at] = R.seen /\ R.seen \in Registration
                   /\ R.tool \in Tool /\ R.tool \in spec[R.seen].tools
                   /\ Whole(R.at)
                   /\ plugin # "mcp" => R.gate = (R.tool \in spec[R.seen].gated)
                   /\ "operation" \notin W => R.ran = R.seen
        BY <1>2, <2>7, <4>2 DEF Deep, CallsOK, CallOK, Ahead
      <4> QED BY <1>2, <1>3, <4>1, <4>2
              DEF CallOK, Active, Whole, OpOf, HasOps
    <3> QED BY <3>1, <3>2
  <2> QED BY <1>3, <2>4, <2>6, <2>7, CallDeep
<1> QED BY <1>1, <1>4, <1>5

(* It looks its operation up, at the same scope.                            *)
LEMMA LookUpDeep ==
  ASSUME Basics, Deep, NEW r \in Caller, LookUp(r)
  PROVE  Basics' /\ Deep'
<1> DEFINE R == request[r]
           v == ops[R.at][R.tool]
           N == [R EXCEPT !.ran = v]
           W == Ahead(r)
<1>1. /\ At(r, "operation") /\ r \in Request /\ Reads(r) /\ calm' = calm
      /\ IF v = None THEN Ends(r) ELSE Goes(r, N)
  BY DEF LookUp, Queries, Request
<1>2. /\ Active(r) /\ "operation" \in W /\ R \in RequestType
      /\ "resolve" \notin W /\ ActiveOK(r) /\ "find" \notin W
  BY <1>1, AtStep DEF Basics, Ordered, TypeOK
<1>3. UNCHANGED <<plugin, core, config, ops, bound, spec, holder, saved, torn, calm>>
  BY <1>1 DEF Reads, tables
<1>4. CASE v = None
  <2>1. Overs(r)
    BY <1>1, <1>4, EndsStep DEF Basics
  <2>2. Basics'
    BY <1>1, <1>2, <2>1, ReadBasics
  <2>3. /\ request'[r].seen = None
        /\ \A q \in Request : q # r => request'[q] = request[q]
    BY <2>1 DEF Overs
  <2>4. CallOK(r)'
    BY <2>1, CallOver
  <2> QED BY <1>3, <2>2, <2>3, <2>4, CallDeep
<1>5. CASE v # None
  <2>0. v \in Registration \cup {None}
    <3>1. R.at \in Scope
      BY <1>1, AtScope DEF Basics
    <3>2. R.tool \in Tool
      BY <1>1, <1>2, AtStep DEF Basics, ActiveOK
    <3> QED BY <3>1, <3>2 DEF Basics, TypeOK
  <2> HIDE DEF v
  <2>1. /\ N \in RequestType /\ N.todo = R.todo /\ N.outcome = "running"
        /\ N.kind = R.kind /\ N.user = R.user /\ N.target = R.target
        /\ N.tool = R.tool /\ N.at = R.at /\ N.seen = R.seen /\ N.ran = v
        /\ N.missed = R.missed /\ N.gate = R.gate /\ N.approved = R.approved
    BY <1>2, <2>0 DEF RequestType, Active
  <2> HIDE DEF N
  <2>2. Follows(r, "operation", N)
    BY <2>1 DEF Follows
  <2>3. Moves(r, "operation", N)
    BY <1>1, <1>5, <2>2, GoesStep DEF Basics
  <2>4. Basics'
    BY <1>1, <1>2, <2>2, <2>3, ReadBasics
  <2>5. Over.outcome = "over" /\ Over.seen = None
    BY DEF Over, Idle
  <2>6. /\ \A q \in Request : q # r => request'[q] = request[q]
        /\ request'[r].seen \in {R.seen, None}
    BY <2>1, <2>3, <2>5 DEF Moves
  <2>7. ASSUME HasOps PROVE CallOK(r)'
    <3>1. CASE request'[r] = Over
      BY <2>5, <3>1 DEF CallOK, Active
    <3>2. CASE request'[r] # Over
      <4>1. /\ request'[r].seen = R.seen /\ request'[r].at = R.at
            /\ request'[r].tool = R.tool /\ request'[r].gate = R.gate
            /\ request'[r].approved = R.approved /\ request'[r].ran = v
            /\ Active(r)' /\ Words(request'[r].todo) = W \ {"operation"}
        BY <2>1, <2>3, <3>2 DEF Moves, Ahead
      <4>2. ASSUME r \in calm
            PROVE  /\ core[R.at] = R.seen /\ R.seen \in Registration
                   /\ R.tool \in Tool /\ R.tool \in spec[R.seen].tools
                   /\ Whole(R.at)
                   /\ plugin # "mcp" /\ "annotate" \notin W =>
                        R.gate = (R.tool \in spec[R.seen].gated)
                   /\ plugin # "mcp" /\ "annotate" \notin W /\ "approve" \notin W =>
                        R.approved = (R.tool \in spec[R.seen].gated)
        BY <1>2, <2>7, <4>2 DEF Deep, CallsOK, CallOK, Ahead
      <4>3. ASSUME r \in calm PROVE v = R.seen
        BY <2>7, <4>2, <4>3, NamesAssumption DEF Whole, OpOf, v, Registration
      <4> QED BY <1>2, <1>3, <4>1, <4>2, <4>3
              DEF CallOK, Active, Whole, OpOf, HasOps
    <3> QED BY <3>1, <3>2
  <2> QED BY <1>3, <2>4, <2>6, <2>7, CallDeep
<1> QED BY <1>4, <1>5

(* And runs it.                                                             *)
LEMMA PerformDeep ==
  ASSUME Basics, Deep, NEW r \in Caller, Perform(r)
  PROVE  Basics' /\ Deep'
<1> DEFINE R == request[r]
           N == [R EXCEPT !.outcome = "performed"]
           M == [N EXCEPT !.todo = Tail(@)]
           W == Ahead(r)
<1>1. /\ At(r, "perform") /\ r \in Request /\ Reads(r) /\ calm' = calm
      /\ r \notin Writer
      /\ Ends(r) \/ Goes(r, N)
  BY NamesAssumption DEF Perform, Queries, Request
<1>2. /\ Active(r) /\ ActiveOK(r) /\ W = {"perform"} /\ R \in RequestType
  BY <1>1, AtStep DEF Basics, Ordered, TypeOK
<1>3. UNCHANGED <<plugin, core, config, ops, bound, spec, holder, saved, torn, calm>>
  BY <1>1 DEF Reads, tables
<1>4. CASE Ends(r)
  <2>1. Overs(r)
    BY <1>1, <1>4, EndsStep DEF Basics
  <2>2. Basics'
    BY <1>1, <1>2, <2>1, ReadBasics
  <2>3. /\ request'[r].seen = None
        /\ \A q \in Request : q # r => request'[q] = request[q]
    BY <2>1 DEF Overs
  <2>4. CallOK(r)'
    BY <2>1, CallOver
  <2> QED BY <1>3, <2>2, <2>3, <2>4, CallDeep
<1>5. CASE Goes(r, N)
  <2>1. R.todo \in Seq(Await) /\ Tail(R.todo) = <<>>
    <3>1. R.todo \in Seq(Await) /\ R.todo # <<>> /\ Scripted(plugin, R.kind, R.todo)
      BY <1>2 DEF RequestType, ActiveOK
    <3>2. Words(R.todo) = {Head(R.todo)}
      BY <1>1, <1>2 DEF Ahead, At
    <3> QED BY <3>1, <3>2, TailStep
  <2>2. N.outcome = "performed" /\ N.todo = R.todo
    BY <1>2 DEF RequestType
  <2>3. request' = [request EXCEPT ![r] = M]
    BY <1>5, <2>2 DEF Goes
  <2>4. /\ M \in RequestType /\ M.todo = <<>> /\ M.outcome = "performed"
        /\ M.seen = R.seen /\ M.ran = R.ran /\ M.tool = R.tool
        /\ M.approved = R.approved
    <3>1. /\ N \in RequestType /\ Tail(N.todo) = <<>> /\ <<>> \in Seq(Await)
          /\ N.seen = R.seen /\ N.ran = R.ran /\ N.tool = R.tool
          /\ N.approved = R.approved
      BY <1>2, <2>1 DEF RequestType
    <3> HIDE DEF N
    <3> QED BY <2>2, <3>1 DEF RequestType
  <2> HIDE DEF M, N
  <2>5. /\ request' \in [Request -> RequestType] /\ request'[r] = M
        /\ \A q \in Request : q # r => request'[q] = request[q]
    BY <1>1, <2>3, <2>4 DEF Basics, TypeOK
  <2>6. ~Active(r)'
    BY <2>4, <2>5 DEF Active
  <2>7. Basics'
    <3>1. TypeOK'
      BY <1>1, <2>5 DEF Basics, TypeOK, Reads, tables
    <3>2. SavedTypes'
      BY <1>3 DEF Basics, SavedTypes
    <3>3. Scripts'
      <4> SUFFICES ASSUME NEW q \in Request
                   PROVE  /\ Active(q)' => ActiveOK(q)'
                          /\ ~Active(q)' => DoneOK(q)'
        BY DEF Scripts
      <4>1. CASE q = r
        BY <2>4, <2>5, <2>6, <4>1 DEF DoneOK
      <4>2. CASE q # r
        <5>1. request'[q] = request[q]
          BY <2>5, <4>2
        <5>2. /\ Active(q) => ActiveOK(q)
              /\ ~Active(q) => DoneOK(q)
          BY DEF Basics, Scripts
        <5> QED BY <1>3, <5>1, <5>2 DEF Active, ActiveOK, DoneOK
      <4> QED BY <4>1, <4>2
    <3>4. HolderOK'
      <4> SUFFICES ASSUME NEW q \in Writer
                   PROVE holder' = q <=> (Active(q) /\ "commit" \in Ahead(q)
                                          /\ "begin" \notin Ahead(q))'
        BY DEF HolderOK
      <4>1. request'[q] = request[q]
        BY <1>1, <2>5 DEF Request
      <4> QED BY <1>3, <4>1 DEF Active, Ahead, Basics, HolderOK
    <3> QED BY <3>1, <3>2, <3>3, <3>4 DEF Basics
  <2>8. ASSUME HasOps PROVE CallOK(r)'
    <3>1. ASSUME r \in calm
          PROVE  /\ R.ran = R.seen /\ R.seen \in Registration
                 /\ plugin # "mcp" => R.approved = (R.tool \in spec[R.seen].gated)
      BY <1>2, <2>8, <3>1 DEF Deep, CallsOK, CallOK, Ahead
    <3> QED BY <1>3, <2>4, <2>5, <2>6, <3>1 DEF CallOK
  <2>9. request'[r].seen = request[r].seen
    BY <2>4, <2>5
  <2> QED BY <1>3, <2>5, <2>7, <2>8, <2>9, CallDeep
<1> QED BY <1>1, <1>4, <1>5

-----------------------------------------------------------------------------
(* The invariant.                                                          *)
CatalogInv == Basics /\ Deep

(* It holds at first,                                                       *)
LEMMA CatalogInit == Init => CatalogInv
<1> SUFFICES ASSUME Init PROVE CatalogInv
  OBVIOUS
<1>1. /\ plugin \in Plugins /\ database \in {"sqlite", "postgres"}
      /\ core \in [Scope -> {First, None}] /\ config = core
      /\ ops = [s \in Scope |-> [t \in Tool |-> OpOf(core[s], t)]]
      /\ bound = {} /\ holder = None
      /\ request = [r \in Request |-> Idle] /\ calm = {} /\ torn = {}
  BY DEF Init
<1>2. Idle \in RequestType /\ Idle.todo = <<>> /\ Idle.outcome = "none"
      /\ Idle.seen = None
  <2>1. <<>> \in Seq(Await)
    OBVIOUS
  <2> QED BY <2>1 DEF Idle, RequestType
<1> HIDE DEF Idle
<1>3. \A r \in Request : request[r] = Idle /\ ~Active(r)
  BY <1>1, <1>2 DEF Active
<1>4. First \in Registration /\ None \notin Registration /\ First # None
  BY NamesAssumption DEF Registration
<1>5. /\ core \in [Scope -> Registration \cup {None}]
      /\ ops \in [Scope -> [Tool -> Registration \cup {None}]]
  <2>1. \A s \in Scope : core[s] \in {First, None}
    BY <1>1
  <2>2. \A s \in Scope, t \in Tool : OpOf(core[s], t) \in {First, None}
    BY <2>1 DEF OpOf
  <2> QED BY <1>1, <1>4, <2>2
<1>6. TypeOK
  <2>1. spec \in [Registration -> Specs]
    BY DEF Init
  <2>2. request \in [Request -> RequestType]
    BY <1>1, <1>2
  <2> QED BY <1>1, <1>5, <2>1, <2>2 DEF TypeOK
<1>7. \A s \in Scope : Whole(s)
  BY <1>1 DEF Whole
<1>8. SavedTypes /\ SavedWhole
  BY <1>1 DEF SavedTypes, SavedWhole
<1>9. Scripts
  BY <1>2, <1>3 DEF Scripts, DoneOK
<1>10. HolderOK
  BY <1>1, <1>3, NamesAssumption DEF HolderOK, Request
<1>11. FreshOK
  <2> SUFFICES ASSUME NEW q \in Writer PROVE Absent(q)
    BY DEF FreshOK
  <2>1. q # First /\ q # None
    BY NamesAssumption
  <2>2. \A s \in Scope : core[s] # q /\ config[s] # q
    BY <1>1, <2>1
  <2>3. \A s \in Scope, t \in Tool : ops[s][t] # q
    BY <1>1, <2>1, <2>2 DEF OpOf
  <2> QED BY <1>1, <1>2, <1>3, <2>1, <2>2, <2>3 DEF Absent
<1>12. RawOK
  BY <1>1 DEF RawOK, OpOf, HasOps
<1>13. BoundOK
  BY <1>1 DEF BoundOK
<1>14. OthersWhole
  BY <1>7 DEF OthersWhole
<1>15. ProgressOK /\ Undisturbed
  BY <1>3 DEF ProgressOK, Undisturbed, Placed, Request
<1>16. CallsOK
  BY <1>1 DEF CallsOK, CallOK
<1> QED BY <1>6, <1>8, <1>9, <1>10, <1>11, <1>12, <1>13, <1>14, <1>15, <1>16
        DEF CatalogInv, Basics, Deep

(* when nothing happens,                                                    *)
LEMMA CatalogStutter ==
  ASSUME CatalogInv, UNCHANGED vars
  PROVE  CatalogInv'
<1>1. UNCHANGED <<plugin, database, core, config, ops, bound, spec, holder, saved,
                  request, calm, torn>>
  BY DEF vars
<1>2. Basics'
  BY <1>1 DEF CatalogInv, Basics, TypeOK, SavedTypes, Scripts, HolderOK, Active,
              ActiveOK, DoneOK, Ahead
<1>3. FreshOK' /\ RawOK' /\ SavedWhole'
  BY <1>1 DEF CatalogInv, Deep, FreshOK, NotYet, Active, Ahead, Absent, RawOK,
              SavedWhole, OpOf, HasOps
<1>4. BoundOK'
  BY <1>1 DEF CatalogInv, Deep, BoundOK, Ahead
<1>5. OthersWhole' /\ CallsOK'
  BY <1>1 DEF CatalogInv, Deep, OthersWhole, CallsOK, CallOK, Active, Whole,
              OpOf, HasOps
<1>6. ProgressOK'
  BY <1>1 DEF CatalogInv, Deep, ProgressOK, Placed, Unhit, Progress, Active, Bare,
              Ahead, Coming, OpOf, HasOps
<1>7. Undisturbed'
  BY <1>1 DEF CatalogInv, Deep, Undisturbed, Active, Bare, Ahead
<1> QED BY <1>2, <1>3, <1>4, <1>5, <1>6, <1>7 DEF CatalogInv, Deep

(* and after every step.                                                    *)
LEMMA CatalogStep ==
  ASSUME CatalogInv, [Next]_vars
  PROVE  CatalogInv'
<1>1. Basics /\ Deep
  BY DEF CatalogInv
<1>2. ASSUME NEW r \in Writer, Write(r) PROVE Basics' /\ Deep'
  <2>1. CASE \E u \in User : AskAt(r, u) \/ AskFor(r, u) \/ AskBinding(r, u)
    BY <1>1, <2>1, WriterAsksDeep
  <2>2. CASE Find(r)
    BY <1>1, <2>2, FindDeep
  <2>3. CASE Stored(r)
    BY <1>1, <2>3, StoredDeep
  <2>4. CASE Fetch(r)
    BY <1>1, <2>4, FetchDeep
  <2>5. CASE Fail(r)
    BY <1>1, <2>5, FailDeep
  <2>6. CASE Begins(r)
    BY <1>1, <2>6, BeginsDeep
  <2>7. CASE Commits(r)
    BY <1>1, <2>7, CommitsDeep
  <2>8. CASE DropOps(r)
    BY <1>1, <2>8, DropOpsDeep
  <2>9. CASE DropConfig(r)
    BY <1>1, <2>9, DropConfigDeep
  <2>10. CASE DropBound(r)
    BY <1>1, <2>10, DropBoundDeep
  <2>11. CASE PutConfig(r)
    BY <1>1, <2>11, PutConfigDeep
  <2>12. CASE PutOps(r)
    BY <1>1, <2>12, PutOpsDeep
  <2>13. CASE PutEach(r)
    BY <1>1, <2>13, PutEachDeep
  <2>14. CASE Register(r)
    BY <1>1, <2>14, RegisterDeep
  <2>15. CASE Unregister(r)
    BY <1>1, <2>15, UnregisterDeep
  <2>16. CASE UnregisterIgnored(r)
    BY <1>1, <2>16, UnregisterIgnoredDeep
  <2>17. CASE DeleteCore(r)
    BY <1>1, <2>17, DeleteCoreDeep
  <2>18. CASE Bind(r)
    BY <1>1, <2>18, BindDeep
  <2> QED BY <1>2, <2>1, <2>2, <2>3, <2>4, <2>5, <2>6, <2>7, <2>8, <2>9, <2>10,
             <2>11, <2>12, <2>13, <2>14, <2>15, <2>16, <2>17, <2>18 DEF Write
<1>3. ASSUME NEW r \in Caller, Call(r) PROVE Basics' /\ Deep'
  <2>1. CASE \E u \in User : AskInvoke(r, u)
    BY <1>1, <2>1, AskInvokeDeep
  <2>2. CASE Resolve(r)
    BY <1>1, <2>2, ResolveDeep
  <2>3. CASE Annotate(r)
    BY <1>1, <2>3, AnnotateDeep
  <2>4. CASE Approve(r)
    BY <1>1, <2>4, ApproveDeep
  <2>5. CASE LookUp(r)
    BY <1>1, <2>5, LookUpDeep
  <2>6. CASE Perform(r)
    BY <1>1, <2>6, PerformDeep
  <2> QED BY <1>3, <2>1, <2>2, <2>3, <2>4, <2>5, <2>6 DEF Call
<1>4. CASE UNCHANGED vars
  BY <1>4, CatalogStutter
<1> QED BY <1>2, <1>3, <1>4 DEF Next, CatalogInv

(* In every reachable state of any number of users, writers and callers,    *)
(* and for every plugin and database, the requests and the rows are as the  *)
(* invariant says.                                                          *)
THEOREM CatalogInvariance == Spec => []CatalogInv
<1>1. Init => CatalogInv
  BY CatalogInit
<1>2. CatalogInv /\ [Next]_vars => CatalogInv'
  BY CatalogStep
<1> QED BY <1>1, <1>2, PTL DEF Spec

(* The rows, the bindings and the requests of the catalog keep their types. *)
THEOREM CatalogTypeCorrect == Spec => []TypeOK
<1>1. CatalogInv => TypeOK
  BY DEF CatalogInv, Basics
<1> QED BY <1>1, CatalogInvariance, PTL

(* Whatever writers interleave their statements, and wherever they fail:    *)
(* outside of a transaction the tools the core lists at a scope, the        *)
(* plugin's rows for them and its source row are of one registration,       *)
(* unless one of the hazards named at CatalogAgrees has hit the scope. It   *)
(* is OthersWhole, when nobody has the transaction.                         *)
THEOREM ListedToolsAreThePlugins == Spec => []CatalogAgrees
<1>1. CatalogInv => CatalogAgrees
  <2> SUFFICES ASSUME CatalogInv, holder = None, NEW s \in Scope, s \notin torn
               PROVE  Whole(s)
    BY DEF CatalogAgrees
  <2>1. CASE plugin = "raw"
    BY <2>1 DEF CatalogInv, Deep, RawOK, Whole, OpOf, HasOps
  <2>2. CASE plugin # "raw"
    BY <2>2 DEF CatalogInv, Deep, OthersWhole
  <2> QED BY <2>1, <2>2
<1> QED BY <1>1, CatalogInvariance, PTL

(* A call that no write came between, though it makes each of its reads in  *)
(* a query of its own, runs the operation of the registration it found the  *)
(* tool listed from, and was approved if that one requires it.              *)
THEOREM CallsRunWhatIsListed == Spec => []RunsWhatIsListed
<1>1. CatalogInv => RunsWhatIsListed
  <2> SUFFICES ASSUME CatalogInv, HasOps, NEW r \in calm,
                      request[r].outcome = "performed"
               PROVE  /\ request[r].ran = request[r].seen
                      /\ request[r].tool \in spec[request[r].ran].gated
                         /\ plugin # "mcp" => request[r].approved
    BY DEF RunsWhatIsListed
  <2>1. r \in Caller
    BY DEF CatalogInv, Basics, TypeOK, Scripts, DoneOK, Active
  <2> QED BY <2>1 DEF CatalogInv, Deep, CallsOK, CallOK
<1> QED BY <1>1, CatalogInvariance, PTL

(* Credentials a user has bound to an openapi source stay with the          *)
(* registration they were bound to: adding, refreshing and removing it,     *)
(* interleaved and rolled back in any way, never leave them to another one. *)
THEOREM BindingsStayWithTheirSource == Spec => []BoundToItsSource
<1>1. CatalogInv => BoundToItsSource
  BY DEF CatalogInv, Deep, BoundOK, BoundToItsSource
<1> QED BY <1>1, CatalogInvariance, PTL
=============================================================================
