------------------------------ MODULE MCProfile ------------------------------
(***************************************************************************)
(* Model-checking instance of Profile.                                     *)
(***************************************************************************)
EXTENDS Profile, TLC

Symmetry == Permutations(Req)

=============================================================================
