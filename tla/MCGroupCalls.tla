---------------------------- MODULE MCGroupCalls ----------------------------
(***************************************************************************)
(* Model-checking instance of GroupCalls, which checks MemberCache too.    *)
(***************************************************************************)
EXTENDS GroupCalls, TLC

Symmetry == Permutations(User) \cup Permutations(Reader) \cup Permutations(Writer)

=============================================================================
