---------------------------- MODULE MCMemberCache ----------------------------
(***************************************************************************)
(* Model-checking instance of MemberCache.                                 *)
(***************************************************************************)
EXTENDS MemberCache, TLC

Symmetry == Permutations(User) \cup Permutations(Reader) \cup Permutations(Writer)

=============================================================================
