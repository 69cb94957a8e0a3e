------------------------- MODULE MCBrowserSessions -------------------------
(* An instance of BrowserSessions for TLC.  Only safety is checked, so that *)
(* names, session objects and calls may be taken for one another.           *)
EXTENDS BrowserSessions, TLC

Interchangeable ==
  Permutations(Names) \cup Permutations(Sessions) \cup Permutations(Calls)
=============================================================================
