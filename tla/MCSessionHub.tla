----------------------------- MODULE MCSessionHub -----------------------------
(***************************************************************************)
(* Instances of SessionHub for TLC.                                        *)
(***************************************************************************)
EXTENDS SessionHub, TLC

Symmetry ==
    Permutations(Session) \union Permutations(Socket) \union Permutations(Notifier)
=============================================================================
