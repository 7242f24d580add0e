---------------------------- MODULE MCFriendRooms ----------------------------
(***************************************************************************)
(* Model-checking instance of FriendRooms.  Uids are numbers, so only the  *)
(* handler slots are interchangeable.                                      *)
(***************************************************************************)
EXTENDS FriendRooms, TLC

Symmetry == Permutations(Req)

=============================================================================
