---------------------------- MODULE MCCachedGroup ----------------------------
(***************************************************************************)
(* Model-checking instance of CachedGroup.  There is no symmetry, which    *)
(* need not be sound for a temporal property.                              *)
(***************************************************************************)
EXTENDS CachedGroup

=============================================================================
