--------------------------- MODULE MCVaultSecrets ---------------------------
(* An instance of VaultSecrets for TLC.  Only safety is checked, so that      *)
(* values and requests may be taken for one another.                        *)
EXTENDS VaultSecrets, TLC

Interchangeable == Permutations(Values) \cup Permutations(Calls)
=============================================================================
