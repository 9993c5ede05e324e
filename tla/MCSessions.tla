------------------------------ MODULE MCSessions ------------------------------
(***************************************************************************)
(* Instances of Sessions for TLC.  Requests, administrators and sweepers   *)
(* are interchangeable.                                                    *)
(***************************************************************************)
EXTENDS Sessions, TLC

Symmetry ==
    Permutations(Client) \union Permutations(Admin) \union Permutations(Sweeper)
=============================================================================
