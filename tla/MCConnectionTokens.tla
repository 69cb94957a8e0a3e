--------------------------- MODULE MCConnectionTokens ---------------------------
(***************************************************************************)
(* Instances of ConnectionTokens: one executor, as in the local app or in  *)
(* one MCP session, and two executors, as in two requests to the cloud app.*)
(***************************************************************************)
EXTENDS ConnectionTokens, TLC

CONSTANTS i1, i2, s1, d1, x1, x2

Together == [i \in Op |-> x1]
Apart    == [i \in Op |-> IF i = i2 THEN x2 ELSE x1]

Both         == {"sqlite", "pg"}
OnlyPostgres == {"pg"}
================================================================================
