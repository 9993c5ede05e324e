-------------------------- MODULE MCServiceAccounts --------------------------
(***************************************************************************)
(* Instances of ServiceAccounts for TLC.  Requests are alike, and so are   *)
(* roles.                                                                  *)
(***************************************************************************)
EXTENDS ServiceAccounts, TLC

Symmetry == Permutations(Request) \union Permutations(Role)
=============================================================================
