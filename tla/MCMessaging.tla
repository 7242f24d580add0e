----------------------------- MODULE MCMessaging -----------------------------
(***************************************************************************)
(* Model-checking instance of RoomActivity, which checks Messaging too.    *)
(***************************************************************************)
EXTENDS RoomActivity, TLC

Symmetry == Permutations(Req)

(* A behaviour has a fault, or changes of a group's members; what it does  *)
(* after both is not explored, nor after a change in a hot room, whose     *)
(* messages go to everybody.                                               *)
OneTrouble == lists = {members} \/ (faults = 0 /\ kind = "group")

=============================================================================
