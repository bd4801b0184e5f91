------------------------------ MODULE MCAccounts ------------------------------
(***************************************************************************)
(* Accounts that differ in nothing but their names.                        *)
(***************************************************************************)
EXTENDS Accounts, TLC

Symmetry == Permutations(Account)
=============================================================================
