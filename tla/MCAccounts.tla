------------------------------ MODULE MCAccounts ------------------------------
(* Accounts for TLC: the addresses, passwords and request slots are        *)
(* interchangeable.                                                        *)
EXTENDS Accounts, TLC

Symmetry == Permutations(Emails) \cup Permutations(Passwords) \cup Permutations(Slots)

===============================================================================
