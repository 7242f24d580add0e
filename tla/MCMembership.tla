---------------------------- MODULE MCMembership ----------------------------
(***************************************************************************)
(* Model-checking instances of RemovalAuthority, which checks Membership   *)
(* too.  Users are interchangeable, and so are the handler slots.          *)
(***************************************************************************)
EXTENDS RemovalAuthority, TLC

Symmetry == Permutations(User) \cup Permutations(Req)

=============================================================================
