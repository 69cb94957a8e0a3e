-------------------------- MODULE MCSourceCatalog --------------------------
(* An instance of SourceCatalog for TLC.                                    *)
EXTENDS SourceCatalog, TLC, Functions

Interchangeable ==
  Permutations(User) \cup Permutations(Writer) \cup Permutations(Caller)
    \cup Permutations(Tool)

\* What was fetched matters as long as a request or a row refers to it.
Referenced(v) ==
  \/ v \in Writer /\ request[v].outcome = "running"
  \/ \E r \in Request : v \in {request[r].seen, request[r].ran}
  \/ \E s \in Scope : v \in {core[s], config[s]} \cup Range(ops[s])
  \/ \E b \in bound : b.made = v
  \/ holder # None /\ \E s \in Scope :
       v \in {saved[1][s], saved[2][s]} \cup Range(saved[3][s])

View ==
  <<plugin, database, tables, holder, saved, request, torn,
    [v \in Registration |-> IF Referenced(v) THEN spec[v] ELSE None],
    {r \in calm : request[r].outcome \in {"running", "performed"}}>>
=============================================================================
