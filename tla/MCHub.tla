-------------------------------- MODULE MCHub --------------------------------
(***************************************************************************)
(* Model-checking instances of Hub.  There is no symmetry: it would not be *)
(* sound for liveness.                                                     *)
(***************************************************************************)
EXTENDS Hub

=============================================================================
