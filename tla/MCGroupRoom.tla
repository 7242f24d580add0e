----------------------------- MODULE MCGroupRoom -----------------------------
(***************************************************************************)
(* Model-checking instances of GroupRoom.  There is no symmetry, which     *)
(* need not be sound for a temporal property.                              *)
(***************************************************************************)
EXTENDS GroupRoom

=============================================================================
