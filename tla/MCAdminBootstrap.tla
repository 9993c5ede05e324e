-------------------------- MODULE MCAdminBootstrap --------------------------
(***************************************************************************)
(* Instances of AdminBootstrap for TLC.  Each kind of thing is used        *)
(* alike, so all are interchangeable.  The number of generated passwords   *)
(* bounds the number of starts.                                            *)
(***************************************************************************)
EXTENDS AdminBootstrap, TLC

Symmetry == Permutations(Instance) \union Permutations(Request)
            \union Permutations(Generated)
=============================================================================
