------------------------- MODULE MCDaemonLifecycle -------------------------
(* An instance of DaemonLifecycle for TLC.  Only safety is checked, so that *)
(* pids, and the ports but the default one, may be taken for one another.   *)
EXTENDS DaemonLifecycle, TLC

Interchangeable == Permutations(Pids) \cup Permutations(Ports \ {Preferred})
=============================================================================
