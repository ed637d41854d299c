-------------------------------- MODULE MCVault --------------------------------
(* Vault for TLC: the calls are interchangeable.                           *)
EXTENDS Vault, TLC

Symmetry == Permutations(Calls)

===============================================================================
