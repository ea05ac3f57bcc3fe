------------------------------ MODULE MCAccounts ------------------------------
(* Accounts on small instances: requests come in any order.                *)
EXTENDS Accounts, TLC

Symmetry == Permutations(Requests)
===============================================================================
