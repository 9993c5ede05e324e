---------------------------- MODULE MCTwoFactor ----------------------------
(***************************************************************************)
(* An instance of TwoFactor for TLC, with the settings off by default.     *)
(* Calls are alike.                                                        *)
(***************************************************************************)
EXTENDS TwoFactor, TLC

CONSTANT off

Defaults == [k \in Key |-> off]

\* All on or all off.
WantedSettings == {[k \in Key |-> v] : v \in Value}

Symmetry == Permutations(Call)
=============================================================================
