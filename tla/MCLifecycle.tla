----------------------------- MODULE MCLifecycle -----------------------------
(***************************************************************************)
(* Model-checking instances of Lifecycle.  There is no symmetry: it would  *)
(* not be sound for liveness.                                              *)
(***************************************************************************)
EXTENDS Lifecycle

=============================================================================
