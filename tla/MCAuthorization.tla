--------------------------- MODULE MCAuthorization ---------------------------
(***************************************************************************)
(* Instances of Authorization for TLC: a user with two roles that may      *)
(* inherit from each other, and a permission beside the system's.          *)
(***************************************************************************)
EXTENDS Authorization

CONSTANTS u, r1, r2, p, s, op

Links ==
    {<<admin, AdminRole>>, <<admin, r1>>, <<u, r1>>, <<r1, r2>>, <<r2, r1>>,
     <<r1, p>>, <<r2, p>>, <<p, op>>}
=============================================================================
