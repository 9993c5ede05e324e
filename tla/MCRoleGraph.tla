----------------------------- MODULE MCRoleGraph -----------------------------
(***************************************************************************)
(* Instances of RoleGraph for TLC.  Ids are not ordered in the model, so   *)
(* the roles that are created later are interchangeable, and so are the    *)
(* requests.                                                               *)
(***************************************************************************)
EXTENDS RoleGraph, TLC

Symmetry == Permutations(Writer) \union Permutations(Role \ Protected)

\* After an update that was not validated against the current graph,
\* CyclesNeedStaleRead promises nothing: such states are checked and not
\* explored further.
UntilRaced == ~raced
=============================================================================
