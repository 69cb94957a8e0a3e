------------------------------ MODULE MCMcpSession ------------------------------
(***************************************************************************)
(* An instance of McpSession: the owner of the session and another account *)
(* send three requests.                                                    *)
(***************************************************************************)
EXTENDS McpSession

CONSTANTS owner, other, r1, r2, r3
================================================================================
