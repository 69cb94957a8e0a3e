------------------------- MODULE MCStorageTransactions -------------------------
(***************************************************************************)
(* Instances of StorageTransactions: two transactions and a plain write of *)
(* two statements each, on either database.                                *)
(***************************************************************************)
EXTENDS StorageTransactions

CONSTANTS t1, t2, w1

MCTransactional == {t1, t2}
MCOperation     == {t1, t2, w1}
BothProviders   == {"sqlite", "pg"}
OnlySqlite      == {"sqlite"}
================================================================================
