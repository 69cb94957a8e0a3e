--------------------------- MODULE MCDeviceSession ---------------------------
(***************************************************************************)
(* An instance of DeviceSession: two desktops, of which the first opens    *)
(* two connections, and two users who may sign in at either.               *)
(***************************************************************************)
EXTENDS DeviceSession, TLC

CONSTANTS d1, d2, s1, s2, s3, u1, u2, r1

MCDeviceOf == (s1 :> d1) @@ (s2 :> d1) @@ (s3 :> d2)
MCAuthor   == [r \in Request |-> u1]
================================================================================
