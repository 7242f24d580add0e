----------------------------- MODULE GroupProofs -----------------------------
(***************************************************************************)
(* What holds of a group for every set of users, groups, handlers and      *)
(* fills and every lifetime and budget, in three parts: Membership, then   *)
(* with the history of removeMember's two reads, then with the cached list *)
(* of members, whose handlers implement MemberCache's changes of a group.  *)
(***************************************************************************)
EXTENDS RemovalAuthority, CachedGroup, TLAPS

-----------------------------------------------------------------------------
(* Membership.                                                             *)

(* What a handler has learnt before its write and nobody can undo: the     *)
(* group exists; a setAdmin past its check was sent by the creator; the    *)
(* row a removal or an exit is about to delete is not the owner's (an      *)
(* exit's target is its caller).                                           *)
PastCheck(r) ==
    req[r] # Idle =>
        /\ req[r].pc # "getActor" => creator[req[r].group] # NoUser
        /\ req[r].op = "exit" => req[r].target = req[r].actor
        /\ At(r, "setAdmin", "write") => creator[req[r].group] = req[r].actor
        /\ At(r, "remove", "write") \/ At(r, "exit", "write") =>
               Row(req[r].group, req[r].target) # RoleOwner

(* The inductive invariant: OwnerIsCreator is not inductive without what   *)
(* handlers know past their checks, and needs no row to precede its group. *)
IInv ==
    /\ TypeOK
    /\ OwnerIsCreator
    /\ \A r \in Req : PastCheck(r)

-----------------------------------------------------------------------------
(* Idle is told apart from every request by its pc.                        *)
LEMMA IdleIsNoRequest == Idle \notin Request
  <1>1. \A q \in Request : q.pc \in PC
    BY DEF Request
  <1>2. Idle.pc = "idle" /\ "idle" \notin PC
    BY DEF Idle, PC
  <1> QED  BY <1>1, <1>2

(* Nobody's row is the owner's before any group exists.                    *)
LEMMA InitIInv == Init => IInv
  BY IdleIsNoRequest, NoUserAssumption
     DEF Init, IInv, TypeOK, OwnerIsCreator, PastCheck, Row, RoleOwner, NoRow, At

(* A handler that goes on keeps its request and only moves its pc.         *)
LEMMA GotoType ==
    ASSUME TypeOK, NEW r \in Req, req[r] # Idle, NEW pc \in PC, Goto(r, pc)
    PROVE  /\ req' \in [Req -> Request \cup {Idle}]
           /\ req'[r] = [req[r] EXCEPT !.pc = pc]
           /\ req'[r] # Idle
           /\ \A s \in Req \ {r} : req'[s] = req[s]
  <1>1. req[r] \in Request
    BY DEF TypeOK
  <1>2. [req[r] EXCEPT !.pc = pc] \in Request
    BY <1>1 DEF Request
  <1> QED  BY <1>2, IdleIsNoRequest DEF TypeOK, Goto

(* A handler that responds leaves the others as they are.                  *)
LEMMA RespondType ==
    ASSUME TypeOK, NEW r \in Req, Respond(r)
    PROVE  /\ req' \in [Req -> Request \cup {Idle}]
           /\ req'[r] = Idle
           /\ \A s \in Req \ {r} : req'[s] = req[s]
  BY DEF TypeOK, Respond

(* A running handler's fields have their types.                            *)
LEMMA RunningType ==
    ASSUME TypeOK, NEW r \in Req, req[r] # Idle
    PROVE  /\ req[r] \in Request
           /\ req[r].op \in Op /\ req[r].pc \in PC /\ req[r].group \in Group
           /\ req[r].actor \in User /\ req[r].target \in User
           /\ req[r].role \in {RoleAdmin, RoleMember}
           /\ req[r].actorRole \in Role \cup {NoRow}
  BY DEF TypeOK, Request

(* A statement on one row changes that row alone.                          *)
LEMMA WriteRowType ==
    ASSUME TypeOK, NEW g \in Group, NEW u \in User, NEW role \in Role \cup {NoRow},
           WriteRow(g, u, role)
    PROVE  /\ groupMember' \in [Group -> [User -> Role \cup {NoRow}]]
           /\ Row(g, u)' = role
           /\ \A h \in Group, v \in User : <<h, v>> # <<g, u>> => Row(h, v)' = Row(h, v)
  BY DEF TypeOK, WriteRow, Row

(* A step that leaves the rows alone and moves r to a pc it has earned.    *)
LEMMA CheckStep ==
    ASSUME IInv, NEW r \in Req, req[r] # Idle, UNCHANGED <<groupMember, creator>>,
           Respond(r) \/ \E pc \in PC : Goto(r, pc) /\ PastCheck(r)'
    PROVE  IInv'
  <1> USE DEF IInv
  <1>1. CASE Respond(r)
    BY <1>1, RespondType DEF TypeOK, OwnerIsCreator, PastCheck, At, Row
  <1>2. CASE \E pc \in PC : Goto(r, pc) /\ PastCheck(r)'
    <2>1. PICK pc \in PC : Goto(r, pc) /\ PastCheck(r)'
      BY <1>2
    <2>2. TypeOK' /\ OwnerIsCreator'
      BY <2>1, GotoType DEF TypeOK, OwnerIsCreator, Row
    <2>3. \A s \in Req \ {r} : PastCheck(s)'
      BY <2>1, GotoType DEF PastCheck, At, Row
    <2> QED  BY <2>1, <2>2, <2>3
  <1> QED  BY <1>1, <1>2

(* A statement on one row of an existing group that makes nobody its owner.*)
LEMMA WriteStep ==
    ASSUME IInv, NEW r \in Req, req[r] # Idle, req[r].pc = "write",
           NEW role \in {RoleAdmin, RoleMember, NoRow},
           WriteRow(req[r].group, req[r].target, role), UNCHANGED creator,
           Goto(r, "invalidate") \/ Respond(r)
    PROVE  IInv'
  <1> USE DEF IInv
  <1>1. PICK g \in Group, u \in User : g = req[r].group /\ u = req[r].target
    BY RunningType
  <1>2. creator[g] # NoUser
    BY <1>1 DEF PastCheck
  <1>3. role \in Role \cup {NoRow} /\ role # RoleOwner
    BY DEF Role, RoleAdmin, RoleMember, RoleOwner, NoRow
  <1>4. /\ groupMember' \in [Group -> [User -> Role \cup {NoRow}]]
        /\ Row(g, u)' = role
        /\ \A h \in Group, v \in User : <<h, v>> # <<g, u>> => Row(h, v)' = Row(h, v)
    BY <1>1, <1>3, WriteRowType
  <1>5. /\ req' \in [Req -> Request \cup {Idle}]
        /\ req'[r] = Idle \/ (req'[r] = [req[r] EXCEPT !.pc = "invalidate"] /\ req'[r] # Idle)
        /\ \A s \in Req \ {r} : req'[s] = req[s]
    BY GotoType, RespondType DEF PC
  <1>6. TypeOK'
    BY <1>2, <1>4, <1>5 DEF TypeOK
  <1>7. OwnerIsCreator'
    <2> SUFFICES ASSUME NEW h \in Group, NEW v \in User, Row(h, v)' = RoleOwner
                 PROVE  creator'[h] = v
      BY DEF OwnerIsCreator
    <2>1. <<h, v>> # <<g, u>>
      BY <1>3, <1>4
    <2>2. Row(h, v) = RoleOwner
      BY <1>4, <2>1
    <2> QED  BY <2>2 DEF OwnerIsCreator
  <1>8. ASSUME NEW s \in Req \ {r} PROVE PastCheck(s)'
    <2>1. req'[s] = req[s]
      BY <1>5
    <2>2. CASE req[s] = Idle
      BY <2>1, <2>2 DEF PastCheck
    <2>3. CASE req[s] # Idle
      <3>1. req[s].group \in Group /\ req[s].target \in User
        BY <2>3, RunningType
      <3>2. \A h \in Group, v \in User : Row(h, v) # RoleOwner => Row(h, v)' # RoleOwner
        BY <1>3, <1>4
      <3> QED  BY <2>1, <2>3, <3>1, <3>2 DEF PastCheck, At, Row
    <2> QED  BY <2>2, <2>3
  <1>9. PastCheck(r)'
    <2>1. CASE req'[r] = Idle
      BY <2>1 DEF PastCheck
    <2>2. CASE req'[r] = [req[r] EXCEPT !.pc = "invalidate"]
      <3>1. /\ req'[r].pc = "invalidate" /\ req'[r].group = g
            /\ req'[r].op = req[r].op /\ req'[r].target = req[r].target
            /\ req'[r].actor = req[r].actor
        BY <1>1, <2>2, RunningType DEF Request
      <3> QED  BY <3>1, <1>2 DEF PastCheck, At
    <2> QED  BY <1>5, <2>1, <2>2
  <1> QED  BY <1>6, <1>7, <1>8, <1>9

(* The inductive step, one case per action.                                *)
LEMMA NextIInv == IInv /\ [Next]_vars => IInv'
  <1> SUFFICES ASSUME IInv, [Next]_vars PROVE IInv'
    OBVIOUS
  <1> USE DEF IInv
  <1>1. ASSUME NEW g \in Group, NEW u \in User, CreateGroup(g, u) PROVE IInv'
    <2>1. /\ groupMember' \in [Group -> [User -> Role \cup {NoRow}]]
          /\ Row(g, u)' = RoleOwner
          /\ \A h \in Group, v \in User : <<h, v>> # <<g, u>> => Row(h, v)' = Row(h, v)
      BY <1>1, WriteRowType DEF CreateGroup, CreateGroupRoom, Role
    <2>2. creator[g] = NoUser /\ creator' = [creator EXCEPT ![g] = u] /\ req' = req
      BY <1>1 DEF CreateGroup, CreateGroupRoom
    <2>3. TypeOK'
      BY <2>1, <2>2, NoUserAssumption DEF TypeOK
    <2>4. OwnerIsCreator'
      <3> SUFFICES ASSUME NEW h \in Group, NEW v \in User, Row(h, v)' = RoleOwner
                   PROVE  creator'[h] = v
        BY DEF OwnerIsCreator
      <3>1. CASE h # g
        BY <2>1, <2>2, <3>1 DEF OwnerIsCreator, TypeOK
      <3>2. CASE h = g /\ v # u
        BY <2>1, <2>2, <3>2 DEF TypeOK, RoleOwner, NoRow
      <3>3. CASE h = g /\ v = u
        BY <2>2, <3>3 DEF TypeOK
      <3> QED  BY <3>1, <3>2, <3>3
    <2>5. ASSUME NEW r \in Req PROVE PastCheck(r)'
      <3>1. CASE req[r] = Idle
        BY <2>2, <3>1 DEF PastCheck
      <3>2. CASE req[r] # Idle /\ req[r].pc = "getActor"
        BY <2>2, <3>2 DEF PastCheck, At
      <3>3. CASE req[r] # Idle /\ req[r].pc # "getActor"
        <4>1. req[r].group \in Group /\ req[r].target \in User /\ req[r].group # g
          BY <2>2, <3>3, RunningType DEF PastCheck
        <4>2. \A v \in User : Row(req[r].group, v)' = Row(req[r].group, v)
          BY <2>1, <2>2, <4>1 DEF Row
        <4> QED  BY <2>2, <3>3, <4>1, <4>2 DEF PastCheck, At, Row, TypeOK
      <3> QED  BY <3>1, <3>2, <3>3
    <2> QED  BY <2>3, <2>4, <2>5
  <1>2. ASSUME NEW r \in Req, Receive(r) PROVE IInv'
    <2>1. PICK q \in Request : /\ q.pc = "getActor"
                               /\ q.op = "exit" => q.target = q.actor
                               /\ req' = [req EXCEPT ![r] = q]
      BY <1>2 DEF Receive, Request, PC
    <2>2. UNCHANGED <<groupMember, creator>>
      BY <1>2 DEF Receive
    <2>3. TypeOK' /\ OwnerIsCreator'
      BY <2>1, <2>2 DEF TypeOK, OwnerIsCreator, Row
    <2>4. \A s \in Req : \/ req'[s] = req[s]
                         \/ /\ req'[s].pc = "getActor"
                            /\ req'[s].op = "exit" => req'[s].target = req'[s].actor
      BY <2>1 DEF TypeOK
    <2> QED  BY <2>2, <2>3, <2>4 DEF PastCheck, At, Row
  <1>3. ASSUME NEW r \in Req, AddMemberCheck(r) PROVE IInv'
    <2>1. CASE Respond(r)
      BY <1>3, <2>1, CheckStep DEF AddMemberCheck, At
    <2>2. CASE MayAdd(Row(req[r].group, req[r].actor)) /\ Goto(r, "write")
      <3>1. req'[r].op = "add" /\ req'[r].group = req[r].group
        BY <1>3, <2>2, GotoType, RunningType DEF AddMemberCheck, At, PC, Request
      <3>2. creator[req[r].group] # NoUser
        BY <1>3, <2>2, RunningType DEF AddMemberCheck, At, MayAdd, TypeOK
      <3>3. PastCheck(r)'
        BY <1>3, <3>1, <3>2 DEF PastCheck, At, AddMemberCheck
      <3> QED  BY <1>3, <2>2, <3>3, CheckStep DEF AddMemberCheck, At, PC
    <2> QED  BY <1>3, <2>1, <2>2 DEF AddMemberCheck
  <1>4. ASSUME NEW r \in Req, ExitGroupCheck(r) PROVE IInv'
    <2>1. CASE Respond(r)
      BY <1>4, <2>1, CheckStep DEF ExitGroupCheck, At
    <2>2. CASE MayExit(Row(req[r].group, req[r].actor)) /\ Goto(r, "write")
      <3>1. /\ req'[r].op = "exit" /\ req'[r].group = req[r].group
            /\ req'[r].target = req[r].target /\ req'[r].actor = req[r].actor
        BY <1>4, <2>2, GotoType, RunningType DEF ExitGroupCheck, At, PC, Request
      <3>2. creator[req[r].group] # NoUser
        BY <1>4, <2>2, RunningType DEF ExitGroupCheck, At, MayExit, TypeOK
      <3>3. req[r].target = req[r].actor
        BY <1>4 DEF PastCheck, ExitGroupCheck, At
      <3>4. PastCheck(r)'
        BY <1>4, <2>2, <3>1, <3>2, <3>3 DEF PastCheck, At, ExitGroupCheck, MayExit, Row
      <3> QED  BY <1>4, <2>2, <3>4, CheckStep DEF ExitGroupCheck, At, PC
    <2> QED  BY <1>4, <2>1, <2>2 DEF ExitGroupCheck
  <1>5. ASSUME NEW r \in Req, SetAdminCheck(r) PROVE IInv'
    <2>1. CASE Respond(r)
      BY <1>5, <2>1, CheckStep DEF SetAdminCheck, At
    <2>2. CASE CanSetAdmin(Row(req[r].group, req[r].actor)) /\ Goto(r, "write")
      <3>1. req'[r].op = "setAdmin" /\ req'[r].group = req[r].group /\ req'[r].actor = req[r].actor
        BY <1>5, <2>2, GotoType, RunningType DEF SetAdminCheck, At, PC, Request
      <3>2. creator[req[r].group] = req[r].actor /\ req[r].actor # NoUser
        BY <1>5, <2>2, RunningType, NoUserAssumption
           DEF SetAdminCheck, At, CanSetAdmin, OwnerIsCreator
      <3>3. PastCheck(r)'
        BY <1>5, <3>1, <3>2 DEF PastCheck, At, SetAdminCheck
      <3> QED  BY <1>5, <2>2, <3>3, CheckStep DEF SetAdminCheck, At, PC
    <2> QED  BY <1>5, <2>1, <2>2 DEF SetAdminCheck
  <1>6. ASSUME NEW r \in Req, RemoveMemberGetActor(r) PROVE IInv'
    <2>1. CASE Respond(r)
      BY <1>6, <2>1, CheckStep DEF RemoveMemberGetActor, At
    <2>2. CASE ~Respond(r)
      <3> DEFINE q == [req[r] EXCEPT !.pc = "getTarget",
                                     !.actorRole = Row(req[r].group, req[r].actor)]
      <3>1. Row(req[r].group, req[r].actor) \in Role \cup {NoRow}
        BY <1>6, RunningType DEF RemoveMemberGetActor, At, TypeOK, Row
      <3>2. q \in Request /\ q.pc = "getTarget" /\ q.op = "remove" /\ q.group = req[r].group
        BY <1>6, <3>1, RunningType DEF RemoveMemberGetActor, At, Request, PC
      <3>3. req' = [req EXCEPT ![r] = q] /\ UNCHANGED <<groupMember, creator>>
        BY <1>6, <2>2 DEF RemoveMemberGetActor
      <3>4. creator[req[r].group] # NoUser
        BY <1>6, <2>2, RunningType DEF RemoveMemberGetActor, At, TypeOK
      <3>5. TypeOK' /\ OwnerIsCreator'
        BY <3>2, <3>3 DEF TypeOK, OwnerIsCreator, Row
      <3>6. req'[r] = q /\ \A s \in Req \ {r} : req'[s] = req[s]
        BY <3>3 DEF TypeOK
      <3> HIDE DEF q
      <3>7. PastCheck(r)'
        BY <3>2, <3>3, <3>4, <3>6 DEF PastCheck, At
      <3>8. \A s \in Req \ {r} : PastCheck(s)'
        BY <3>3, <3>6 DEF PastCheck, At, Row
      <3> QED  BY <3>5, <3>7, <3>8
    <2> QED  BY <2>1, <2>2
  <1>7. ASSUME NEW r \in Req, RemoveMemberGetTarget(r) PROVE IInv'
    <2>1. CASE Respond(r)
      BY <1>7, <2>1, CheckStep DEF RemoveMemberGetTarget, At
    <2>2. CASE /\ CanRemoveMember(req[r].actorRole, Row(req[r].group, req[r].target))
               /\ Goto(r, "write")
      <3>1. req'[r].op = "remove" /\ req'[r].group = req[r].group /\ req'[r].target = req[r].target
        BY <1>7, <2>2, GotoType, RunningType DEF RemoveMemberGetTarget, At, PC, Request
      <3>2. creator[req[r].group] # NoUser
        BY <1>7 DEF RemoveMemberGetTarget, At, PastCheck
      <3>3. Row(req[r].group, req[r].target) # RoleOwner
        BY <2>2 DEF CanRemoveMember, RoleMember, RoleOwner
      <3>4. PastCheck(r)'
        BY <1>7, <3>1, <3>2, <3>3 DEF PastCheck, At, RemoveMemberGetTarget, Row
      <3> QED  BY <1>7, <2>2, <3>4, CheckStep DEF RemoveMemberGetTarget, At, PC
    <2> QED  BY <1>7, <2>1, <2>2 DEF RemoveMemberGetTarget
  <1>8. ASSUME NEW r \in Req, AddMemberWrite(r) PROVE IInv'
    <2>1. CASE InsertRow(req[r].group, req[r].target) /\ Goto(r, "invalidate")
      BY <1>8, <2>1, WriteStep DEF AddMemberWrite, InsertRow, At
    <2>2. CASE UNCHANGED groupMember /\ Respond(r)
      BY <1>8, <2>2, CheckStep DEF AddMemberWrite, At
    <2> QED  BY <1>8, <2>1, <2>2 DEF AddMemberWrite
  <1>9. ASSUME NEW r \in Req, DeleteWrite(r) PROVE IInv'
    BY <1>9, WriteStep DEF DeleteWrite, DeleteRow, At
  <1>10. ASSUME NEW r \in Req, SetAdminWrite(r) PROVE IInv'
    <2>1. CASE WriteRow(req[r].group, req[r].target, req[r].role)
      BY <1>10, <2>1, WriteStep, RunningType DEF SetAdminWrite, At
    <2>2. CASE UNCHANGED groupMember
      BY <1>10, <2>2, CheckStep DEF SetAdminWrite, At
    <2> QED  BY <1>10, <2>1, <2>2 DEF SetAdminWrite, UpdateRole
  <1>11. ASSUME NEW r \in Req, InvalidateCache(r) PROVE IInv'
    BY <1>11, CheckStep DEF InvalidateCache
  <1>12. ASSUME NEW r \in Req, Abort(r) PROVE IInv'
    BY <1>12, CheckStep DEF Abort
  <1>13. CASE UNCHANGED vars
    BY <1>13 DEF vars, TypeOK, OwnerIsCreator, PastCheck, At, Row
  <1> QED
    BY <1>1, <1>2, <1>3, <1>4, <1>5, <1>6, <1>7, <1>8, <1>9, <1>10, <1>11, <1>12, <1>13
       DEF Next, Step

(***************************************************************************)
(* The theorems.                                                           *)
(***************************************************************************)

(* The inductive invariant holds in every reachable state.                 *)
THEOREM SpecIInv == Spec => []IInv
  BY InitIInv, NextIInv, PTL DEF Spec

(* Type correctness, and no row precedes the creation of its group.        *)
THEOREM SpecTypeOK == Spec => []TypeOK
  <1>1. IInv => TypeOK
    BY DEF IInv
  <1> QED  BY <1>1, SpecIInv, PTL

(* createGroup's user is the only one who ever owns the group.             *)
THEOREM SpecOwnerIsCreator == Spec => []OwnerIsCreator
  <1>1. IInv => OwnerIsCreator
    BY DEF IInv
  <1> QED  BY <1>1, SpecIInv, PTL

(* The owner's row changes only by the owner's setAdmin on itself: removals*)
(* and exits decided on roles read earlier never reach it.                 *)
THEOREM SpecOwnerOnlyDemotesItself == Spec => OwnerOnlyDemotesItself
  <1> DEFINE A == \A g \in Group, u \in User :
                    Row(g, u) = RoleOwner /\ Row(g, u)' # RoleOwner =>
                      /\ Row(g, u)' # NoRow
                      /\ \E r \in Req : /\ At(r, "setAdmin", "write")
                                        /\ req[r].group = g
                                        /\ req[r].actor = u
                                        /\ req[r].target = u
  <1>1. IInv /\ [Next]_vars => [A]_vars
    <2> SUFFICES ASSUME IInv, Next, NEW g \in Group, NEW u \in User,
                        Row(g, u) = RoleOwner, Row(g, u)' # RoleOwner
                 PROVE  /\ Row(g, u)' # NoRow
                        /\ \E r \in Req : /\ At(r, "setAdmin", "write")
                                          /\ req[r].group = g
                                          /\ req[r].actor = u
                                          /\ req[r].target = u
      OBVIOUS
    <2> USE DEF IInv
    <2>1. creator[g] = u
      BY DEF OwnerIsCreator
    <2>2. ASSUME NEW h \in Group, NEW v \in User, CreateGroup(h, v) PROVE FALSE
      <3>1. h # g
        BY <2>1, <2>2, NoUserAssumption DEF CreateGroup, CreateGroupRoom
      <3> QED  BY <2>2, <3>1 DEF CreateGroup, CreateGroupRoom, WriteRow, Row, TypeOK
    <2>3. ASSUME NEW r \in Req, AddMemberWrite(r) PROVE FALSE
      BY <2>3, RunningType DEF AddMemberWrite, InsertRow, WriteRow, Row, TypeOK, At,
                               RoleOwner, NoRow
    <2>4. ASSUME NEW r \in Req, DeleteWrite(r) PROVE FALSE
      BY <2>4, RunningType DEF DeleteWrite, DeleteRow, WriteRow, Row, TypeOK, At, PastCheck
    <2>5. ASSUME NEW r \in Req, SetAdminWrite(r)
          PROVE  /\ At(r, "setAdmin", "write") /\ req[r].group = g
                 /\ req[r].actor = u /\ req[r].target = u
                 /\ Row(g, u)' # NoRow
      <3>1. At(r, "setAdmin", "write") /\ WriteRow(req[r].group, req[r].target, req[r].role)
        BY <2>5 DEF SetAdminWrite, UpdateRole, Row
      <3>2. req[r].group = g /\ req[r].target = u
        BY <3>1, RunningType DEF WriteRow, Row, TypeOK, At
      <3>3. req[r].actor = u
        BY <2>1, <3>1, <3>2 DEF PastCheck, At
      <3>4. Row(g, u)' = req[r].role
        BY <3>1, <3>2 DEF WriteRow, Row, TypeOK
      <3> QED  BY <3>1, <3>2, <3>3, <3>4, RunningType DEF At, RoleAdmin, RoleMember, NoRow
    <2>6. ASSUME UNCHANGED groupMember PROVE FALSE
      BY <2>6 DEF Row
    <2> QED
      BY <2>2, <2>3, <2>4, <2>5, <2>6
         DEF Next, Step, Receive, AddMemberCheck, ExitGroupCheck, SetAdminCheck,
             RemoveMemberGetActor, RemoveMemberGetTarget, InvalidateCache, Abort
  <1> QED  BY <1>1, SpecIInv, PTL DEF Spec, OwnerOnlyDemotesItself

(* Whoever enters an existing group enters as an ordinary member.          *)
THEOREM SpecEntersAsMember == Spec => EntersAsMember
  <1> DEFINE A == \A g \in Group, u \in User :
                    Row(g, u) = NoRow /\ Row(g, u)' # NoRow =>
                      Row(g, u)' = RoleMember \/ creator[g] = NoUser
  <1>1. IInv /\ [Next]_vars => [A]_vars
    <2> SUFFICES ASSUME IInv, Next, NEW g \in Group, NEW u \in User,
                        Row(g, u) = NoRow, Row(g, u)' # NoRow
                 PROVE  Row(g, u)' = RoleMember \/ creator[g] = NoUser
      OBVIOUS
    <2> USE DEF IInv
    <2>1. ASSUME NEW h \in Group, NEW v \in User, CreateGroup(h, v) PROVE creator[g] = NoUser
      BY <2>1 DEF CreateGroup, CreateGroupRoom, WriteRow, Row, TypeOK
    <2>2. ASSUME NEW r \in Req, AddMemberWrite(r) PROVE Row(g, u)' = RoleMember
      BY <2>2, RunningType DEF AddMemberWrite, InsertRow, WriteRow, Row, TypeOK, At
    <2>3. ASSUME NEW r \in Req, DeleteWrite(r) PROVE FALSE
      BY <2>3, RunningType DEF DeleteWrite, DeleteRow, WriteRow, Row, TypeOK, At
    <2>4. ASSUME NEW r \in Req, SetAdminWrite(r) PROVE FALSE
      BY <2>4, RunningType DEF SetAdminWrite, UpdateRole, WriteRow, Row, TypeOK, At
    <2>5. ASSUME UNCHANGED groupMember PROVE FALSE
      BY <2>5 DEF Row
    <2> QED
      BY <2>1, <2>2, <2>3, <2>4, <2>5
         DEF Next, Step, Receive, AddMemberCheck, ExitGroupCheck, SetAdminCheck,
             RemoveMemberGetActor, RemoveMemberGetTarget, InvalidateCache, Abort
  <1> QED  BY <1>1, SpecIInv, PTL DEF Spec, EntersAsMember

-----------------------------------------------------------------------------
(* RemovalAuthority: what its two reads leave a removal.                   *)

(* What the removal in slot r has seen.  Between the reads: the actor has  *)
(* the role read unless its row has changed, and the target could not be   *)
(* removed with that role unless it could be at some instant or its row    *)
(* has changed.  After them: the run's property.                           *)
Seen(r) ==
    /\ At(r, "remove", "getTarget") =>
          /\ actorChanged[r] \/ Row(req[r].group, req[r].actor) = req[r].actorRole
          /\ \/ permitted[r] \/ targetChanged[r]
             \/ Row(req[r].group, req[r].target) = NoRow
             \/ ~CanRemoveMember(req[r].actorRole, Row(req[r].group, req[r].target))
    /\ At(r, "remove", "write") => permitted[r] \/ (actorChanged[r] /\ targetChanged[r])

HInv == IInv /\ \A r \in Req : Seen(r)

-----------------------------------------------------------------------------
(* No removal is running at first.                                         *)
LEMMA InitHInv == HInit => HInv
  <1>1. HInit => IInv
    BY InitIInv DEF HInit
  <1>2. HInit => \A r \in Req : Seen(r)
    BY DEF HInit, Init, Seen, At
  <1> QED  BY <1>1, <1>2 DEF HInv

(* Whatever the others do to the rows, what r has seen stays true of a     *)
(* request that has not moved.                                             *)
LEMMA OthersStep ==
    ASSUME HInv, HistoryNext, NEW r \in Req, req'[r] = req[r]
    PROVE  Seen(r)'
  <1> SUFFICES ASSUME req[r] # Idle PROVE Seen(r)'
    BY DEF Seen, At
  <1>1. Followed(r)
    BY DEF Followed, Running
  <1>2. permitted'[r] \/ ~permitted[r]
    BY <1>1 DEF HistoryNext
  <1>3. /\ actorChanged[r] => actorChanged'[r]
        /\ ~actorChanged'[r] => Row(req[r].group, req[r].actor)' = Row(req[r].group, req[r].actor)
    BY <1>1 DEF HistoryNext, Changed, Row
  <1>4. /\ targetChanged[r] => targetChanged'[r]
        /\ ~targetChanged'[r] => Row(req[r].group, req[r].target)' = Row(req[r].group, req[r].target)
    BY <1>1 DEF HistoryNext, Changed, Row
  <1>5. Seen(r)
    BY DEF HInv
  <1>6. (At(r, "remove", "getTarget"))' <=> At(r, "remove", "getTarget")
    BY DEF At
  <1>7. (At(r, "remove", "write"))' <=> At(r, "remove", "write")
    BY DEF At
  <1> QED  BY <1>2, <1>3, <1>4, <1>5, <1>6, <1>7 DEF Seen, Row

(* The two reads, and the end of whatever else a handler does.             *)
LEMMA OwnStep ==
    ASSUME HInv, HistoryNext, NEW r \in Req, Step(r)
    PROVE  Seen(r)'
  <1>1. TypeOK
    BY DEF HInv, IInv
  <1>2. CASE RemoveMemberGetActor(r) /\ ~Respond(r)
    <2> DEFINE role == Row(req[r].group, req[r].actor)
    <2>1. req[r] \in Request
      BY <1>1, <1>2, RunningType DEF RemoveMemberGetActor, At
    <2>2. /\ req' = [req EXCEPT ![r] = [req[r] EXCEPT !.pc = "getTarget", !.actorRole = role]]
          /\ groupMember' = groupMember
      BY <1>2 DEF RemoveMemberGetActor
    <2>3. req'[r] = [req[r] EXCEPT !.pc = "getTarget", !.actorRole = role]
      BY <1>1, <2>2 DEF TypeOK
    <2>4. /\ req'[r].pc = "getTarget" /\ req'[r].actorRole = role /\ req'[r].group = req[r].group
          /\ req'[r].actor = req[r].actor /\ req'[r].target = req[r].target
      BY <2>1, <2>3 DEF Request
    <2>5. req'[r] # Idle
      BY <2>4 DEF Idle
    <2>6. Row(req[r].group, req[r].target) # NoRow
            /\ CanRemoveMember(role, Row(req[r].group, req[r].target)) => permitted'[r]
      <3>1. Row(req[r].group, req[r].target) # NoRow
              /\ CanRemoveMember(role, Row(req[r].group, req[r].target)) => PermittedNow(r)'
        BY <2>2, <2>4, <2>5 DEF PermittedNow, Running, Row
      <3> QED  BY <3>1 DEF HistoryNext
    <2>7. ~(At(r, "remove", "write"))'
      BY <2>4 DEF At
    <2> QED  BY <2>2, <2>4, <2>6, <2>7 DEF Seen, Row
  <1>3. CASE RemoveMemberGetTarget(r) /\ ~Respond(r)
    <2>1. /\ Goto(r, "write") /\ groupMember' = groupMember /\ At(r, "remove", "getTarget")
          /\ Row(req[r].group, req[r].target) # NoRow
          /\ CanRemoveMember(req[r].actorRole, Row(req[r].group, req[r].target))
      BY <1>3 DEF RemoveMemberGetTarget
    <2>2. req[r] \in Request /\ req[r] # Idle
      BY <1>1, <2>1, RunningType DEF At
    <2>3. req'[r] = [req[r] EXCEPT !.pc = "write"] /\ req'[r] # Idle
      BY <1>1, <2>1, <2>2, GotoType DEF PC
    <2>4. /\ req'[r].pc = "write" /\ req'[r].group = req[r].group
          /\ req'[r].actor = req[r].actor /\ req'[r].target = req[r].target
      BY <2>2, <2>3 DEF Request
    <2>5. Followed(r)
      BY <2>2, <2>3 DEF Followed, Running
    <2>6. ~actorChanged[r] => permitted'[r]
      <3>1. ~actorChanged[r] => Row(req[r].group, req[r].actor) = req[r].actorRole
        BY <2>1 DEF HInv, Seen
      <3>2. ~actorChanged[r] => PermittedNow(r)'
        BY <2>1, <2>3, <2>4, <3>1 DEF PermittedNow, Running, Row
      <3> QED  BY <3>2 DEF HistoryNext
    <2>7. permitted[r] \/ targetChanged[r]
      BY <2>1 DEF HInv, Seen
    <2>8. /\ permitted[r] => permitted'[r]
          /\ actorChanged[r] => actorChanged'[r]
          /\ targetChanged[r] => targetChanged'[r]
      BY <2>5 DEF HistoryNext
    <2>9. ~(At(r, "remove", "getTarget"))'
      BY <2>4 DEF At
    <2>10. permitted'[r] \/ (actorChanged'[r] /\ targetChanged'[r])
      BY <2>6, <2>7, <2>8
    <2> QED  BY <2>9, <2>10 DEF Seen
  <1>4. CASE Respond(r)
    BY <1>1, <1>4, RespondType DEF Seen, At
  <1>5. CASE Receive(r)
    <2>1. req'[r].pc = "getActor"
      BY <1>1, <1>5 DEF Receive, TypeOK
    <2> QED  BY <2>1 DEF Seen, At
  <1>6. CASE /\ AddMemberCheck(r) \/ ExitGroupCheck(r) \/ SetAdminCheck(r)
                \/ AddMemberWrite(r) \/ DeleteWrite(r)
             /\ ~Respond(r)
    <2>1. req[r] # Idle /\ req[r] \in Request
      BY <1>1, <1>6, RunningType
         DEF AddMemberCheck, ExitGroupCheck, SetAdminCheck, AddMemberWrite, DeleteWrite, At
    <2>2. \/ Goto(r, "write") /\ req[r].op # "remove"
          \/ Goto(r, "invalidate")
      BY <1>6 DEF AddMemberCheck, ExitGroupCheck, SetAdminCheck, AddMemberWrite, DeleteWrite, At
    <2>3. \E pc \in {"write", "invalidate"} :
            /\ req'[r] = [req[r] EXCEPT !.pc = pc]
            /\ pc = "write" => req[r].op # "remove"
      BY <1>1, <2>1, <2>2, GotoType DEF PC
    <2>4. /\ req'[r].op = req[r].op /\ req'[r].pc \in {"write", "invalidate"}
          /\ req'[r].pc = "write" => req[r].op # "remove"
      BY <2>1, <2>3 DEF Request
    <2> QED  BY <2>4 DEF Seen, At
  <1>7. SetAdminWrite(r) \/ InvalidateCache(r) \/ Abort(r) => Respond(r)
    BY DEF SetAdminWrite, InvalidateCache, Abort
  <1> QED  BY <1>2, <1>3, <1>4, <1>5, <1>6, <1>7 DEF Step

(* Every step keeps the invariant.                                         *)
LEMMA NextHInv == HInv /\ [HNext]_<<vars, history>> => HInv'
  <1> SUFFICES ASSUME HInv, [HNext]_<<vars, history>> PROVE HInv'
    OBVIOUS
  <1>1. IInv'
    BY NextIInv DEF HInv, HNext
  <1>2. ASSUME NEW r \in Req, HNext  PROVE Seen(r)'
    <2>1. CASE \E g \in Group, u \in User : CreateGroup(g, u)
      <3>1. req' = req
        BY <2>1 DEF CreateGroup
      <3> QED  BY <1>2, <3>1, OthersStep DEF HNext
    <2>2. ASSUME NEW s \in Req, Step(s)  PROVE Seen(r)'
      <3>1. CASE s = r
        BY <1>2, <2>2, <3>1, OwnStep DEF HNext
      <3>2. CASE s # r
        <4>1. \E q : req' = [req EXCEPT ![s] = q]
          BY <2>2
             DEF Step, Receive, AddMemberCheck, ExitGroupCheck, SetAdminCheck,
                 RemoveMemberGetActor, RemoveMemberGetTarget, AddMemberWrite, DeleteWrite,
                 SetAdminWrite, InvalidateCache, Abort, Goto, Respond
        <4>2. req'[r] = req[r]
          BY <3>2, <4>1 DEF HInv, IInv, TypeOK
        <4> QED  BY <1>2, <4>2, OthersStep DEF HNext
      <3> QED  BY <3>1, <3>2
    <2> QED  BY <1>2, <2>1, <2>2 DEF HNext, Next
  <1>3. CASE UNCHANGED <<vars, history>>
    <2>1. \A r \in Req : Seen(r)'
      BY <1>3 DEF HInv, Seen, At, Row, vars, history
    <2> QED  BY <1>1, <2>1 DEF HInv
  <1> QED  BY <1>1, <1>2, <1>3 DEF HInv

-----------------------------------------------------------------------------
(* A removal that was at no instant permitted is executed only if the rows *)
(* of its actor and of its target have both changed while it ran, for any  *)
(* number of users, groups and handlers.                                   *)
THEOREM SpecWrongRemovalNeedsBothChanged == HSpec => []WrongRemovalNeedsBothChanged
  <1>1. HInv => WrongRemovalNeedsBothChanged
    BY DEF HInv, Seen, WrongRemovalNeedsBothChanged
  <1> QED  BY <1>1, InitHInv, NextHInv, PTL DEF HSpec

-----------------------------------------------------------------------------
(* CachedGroup implements MemberCache.                                     *)

(* The invariant under which a step maps to a step: Membership's, and that *)
(* changedAt is a function on User.                                        *)
CInv == IInv /\ changedAt = [u \in User |-> changedAt[u]]

MappedWriter == [r \in Req |-> IF OwesInvalidation(r) THEN "invalidate" ELSE "write"]

-----------------------------------------------------------------------------
(* A created group's owner is its creator, and no handler runs at first.   *)
LEMMA InitCInv == CInit => CInv
  <1> SUFFICES ASSUME CInit PROVE CInv
    OBVIOUS
  <1>1. \A g \in Group : creator[g] \in User /\ creator[g] # NoUser
    BY NoUserAssumption DEF CInit
  <1>2. groupMember \in [Group -> [User -> Role \cup {NoRow}]]
    BY DEF CInit, Role
  <1>3. TypeOK
    BY <1>1, <1>2 DEF CInit, TypeOK
  <1>4. OwnerIsCreator
    BY DEF CInit, OwnerIsCreator, Row, RoleOwner, NoRow
  <1>5. \A r \in Req : PastCheck(r)
    BY DEF CInit, PastCheck
  <1>6. changedAt = [u \in User |-> changedAt[u]]
    BY DEF CInit
  <1> QED  BY <1>3, <1>4, <1>5, <1>6 DEF CInv, IInv

(* Every step is one of Membership or leaves its variables alone.          *)
LEMMA NextCInv == CInv /\ [CNext]_<<vars, cacheVars>> => CInv'
  <1> SUFFICES ASSUME CInv, [CNext]_<<vars, cacheVars>> PROVE CInv'
    OBVIOUS
  <1>1. ASSUME NEW r \in Req, HandlerStep(r), NoteChange  PROVE CInv'
    <2>1. Next
      BY <1>1 DEF HandlerStep, Next, Step
    <2>2. IInv'
      BY <2>1, NextIInv DEF CInv
    <2>3. changedAt' = [u \in User |-> changedAt'[u]]
      BY <1>1 DEF NoteChange
    <2> QED  BY <2>2, <2>3 DEF CInv
  <1>2. ASSUME NEW r \in Reader, Cache!Read(r), UNCHANGED vars  PROVE CInv'
    <2>1. changedAt' = changedAt
      BY <1>2 DEF Cache!Read, Cache!Start, Cache!GetHit, Cache!GetMiss, Cache!ListMembers,
                  Cache!SetCache, Cache!SetFails, Cache!Finish
    <2>2. IInv'
      BY <1>2, NextIInv DEF CInv
    <2> QED  BY <2>1, <2>2 DEF CInv
  <1>3. CASE UNCHANGED vars /\ Cache!Tick
    <2>1. changedAt' = changedAt
      BY <1>3 DEF Cache!Tick
    <2>2. IInv'
      BY <1>3, NextIInv DEF CInv
    <2> QED  BY <2>1, <2>2 DEF CInv
  <1>4. CASE UNCHANGED <<vars, cacheVars>>
    <2>1. IInv' /\ changedAt' = changedAt
      BY <1>4, NextIInv DEF CInv, cacheVars
    <2> QED  BY <2>1 DEF CInv
  <1> QED  BY <1>1, <1>2, <1>3, <1>4 DEF CNext

-----------------------------------------------------------------------------
(* A step of r that changes no member and after which r owes an            *)
(* invalidation no more than before is invisible but for the cached list.  *)
LEMMA SameMembers ==
    ASSUME CInv, NEW r \in Req, NoteChange, Members' = Members
    PROVE  UNCHANGED <<reader, changedAt>>
  <1>1. changedAt' = [u \in User |-> changedAt[u]]
    BY DEF NoteChange
  <1> QED  BY <1>1 DEF NoteChange, CInv

(* Only r's own step changes what r owes.                                  *)
LEMMA WriterStep ==
    ASSUME CInv, NEW r \in Req, Respond(r) \/ \E pc \in PC : Goto(r, pc), req[r] # Idle
    PROVE  /\ \A s \in Req \ {r} : (OwesInvalidation(s)' <=> OwesInvalidation(s))
           /\ Respond(r) => ~OwesInvalidation(r)'
           /\ \A pc \in PC : Goto(r, pc) =>
                 (OwesInvalidation(r)' <=> pc = "invalidate" /\ req[r].group = TheGroup)
  <1>1. TypeOK
    BY DEF CInv, IInv
  <1>2. req[r] \in Request
    BY <1>1, RunningType
  <1>3. \A s \in Req \ {r} : req'[s] = req[s]
    BY <1>1, GotoType, RespondType
  <1>4. Respond(r) => req'[r] = Idle
    BY <1>1, RespondType
  <1>5. ASSUME NEW pc \in PC, Goto(r, pc)
        PROVE  req'[r].pc = pc /\ req'[r].group = req[r].group /\ req'[r] # Idle
    <2>1. req'[r] = [req[r] EXCEPT !.pc = pc] /\ req'[r] # Idle
      BY <1>1, <1>5, GotoType
    <2> QED  BY <1>2, <2>1 DEF Request
  <1> QED  BY <1>3, <1>4, <1>5 DEF OwesInvalidation

(* A call that neither changes the members nor owes an invalidation before *)
(* or after is a stutter for the table and the list.                       *)
LEMMA Stutter ==
    ASSUME CInv, NEW r \in Req, NoteChange, UNCHANGED <<entry, now>>, Members' = Members,
           ~OwesInvalidation(r), ~OwesInvalidation(r)',
           \A s \in Req \ {r} : (OwesInvalidation(s)' <=> OwesInvalidation(s))
    PROVE  UNCHANGED Cache!vars
  <1>1. UNCHANGED <<reader, changedAt>>
    BY SameMembers
  <1>2. MappedWriter' = MappedWriter
    BY DEF MappedWriter
  <1> QED  BY <1>1, <1>2 DEF Cache!vars, MappedWriter

(* Deleting the list, or not getting to it.                                *)
LEMMA PaysInvalidation ==
    ASSUME CInv, NEW r \in Req, OwesInvalidation(r), UNCHANGED <<groupMember, now>>,
           Respond(r), NoteChange
    PROVE  /\ entry' = Cache!NoEntry => Cache!Next
           /\ entry' = (IF entry = Cache!NoEntry THEN entry
                        ELSE [entry EXCEPT !.missed = TRUE]) => Cache!Next
  <1>1. Members' = Members
    BY DEF Members, Row
  <1>2. UNCHANGED <<reader, changedAt>>
    BY <1>1, SameMembers
  <1>3. MappedWriter' = [MappedWriter EXCEPT ![r] = "write"] /\ MappedWriter[r] = "invalidate"
    <2>1. req[r] # Idle
      BY DEF OwesInvalidation
    <2> QED  BY <2>1, WriterStep DEF MappedWriter
  <1>4. entry' = Cache!NoEntry => Cache!InvalidateCache(r)
    BY <1>1, <1>2, <1>3 DEF MappedWriter, Cache!InvalidateCache, Cache!Invalidate
  <1>5. entry' = (IF entry = Cache!NoEntry THEN entry ELSE [entry EXCEPT !.missed = TRUE]) =>
            Cache!InvalidateLost(r)
    BY <1>1, <1>2, <1>3 DEF MappedWriter, Cache!InvalidateLost
  <1> QED  BY <1>4, <1>5 DEF Cache!Next, Cache!Change

(* A statement that gives or takes a row of the group, or finds none to    *)
(* take, before an invalidation.                                           *)
LEMMA WritesMember ==
    ASSUME CInv, NEW r \in Req, req[r] # Idle, req[r].pc = "write", req[r].group = TheGroup,
           NEW role \in {RoleMember, NoRow},
           WriteRow(TheGroup, req[r].target, role), Goto(r, "invalidate"),
           role = RoleMember => Row(TheGroup, req[r].target) = NoRow,
           NoteChange, UNCHANGED <<entry, now>>
    PROVE  Cache!Next
  <1>1. TypeOK
    BY DEF CInv, IInv
  <1>2. PICK u \in User : u = req[r].target
    BY <1>1, RunningType
  <1>3. role \in Role \cup {NoRow} /\ (role = RoleMember => role # NoRow)
    BY DEF Role, RoleMember, NoRow
  <1>4. Row(TheGroup, u)' = role /\ \A v \in User \ {u} : Row(TheGroup, v)' = Row(TheGroup, v)
    BY <1>1, <1>2, <1>3, WriteRowType, TheGroupAssumption
  <1>5. MappedWriter' = [MappedWriter EXCEPT ![r] = "invalidate"] /\ MappedWriter[r] = "write"
    <2>1. ~OwesInvalidation(r) /\ "invalidate" \in PC
      BY DEF OwesInvalidation, PC
    <2> QED  BY <2>1, WriterStep DEF MappedWriter
  <1>6. CASE role = RoleMember
    <2>1. u \notin Members /\ Members' = Members \cup {u}
      BY <1>2, <1>3, <1>4, <1>6 DEF Members
    <2>2. changedAt' = [changedAt EXCEPT ![u] = now]
      BY <2>1 DEF NoteChange, CInv
    <2>3. Cache!Race
      BY <2>1 DEF NoteChange
    <2>4. Cache!AddMember(r, u)
      BY <1>5, <2>1, <2>2, <2>3 DEF MappedWriter, Cache!AddMember
    <2> QED  BY <2>4 DEF Cache!Next, Cache!Change
  <1>7. CASE role = NoRow /\ u \in Members
    <2>1. Members' = Members \ {u}
      BY <1>4, <1>7 DEF Members
    <2>2. changedAt' = [changedAt EXCEPT ![u] = now]
      BY <1>7, <2>1 DEF NoteChange, CInv
    <2>3. Cache!Race
      BY <1>7, <2>1 DEF NoteChange
    <2>4. Cache!RemoveMember(r, u)
      BY <1>5, <1>7, <2>1, <2>2, <2>3 DEF MappedWriter, Cache!RemoveMember
    <2> QED  BY <2>4 DEF Cache!Next, Cache!Change
  <1>8. CASE role = NoRow /\ u \notin Members
    <2>1. Members' = Members
      BY <1>4, <1>8 DEF Members
    <2>2. UNCHANGED <<reader, changedAt>>
      BY <2>1, SameMembers
    <2>3. Cache!RemoveNobody(r)
      BY <1>5, <2>1, <2>2 DEF MappedWriter, Cache!RemoveNobody
    <2> QED  BY <2>3 DEF Cache!Next, Cache!Change
  <1> QED  BY <1>6, <1>7, <1>8

(* A statement on another group's row, or one that changes a role only.    *)
LEMMA KeepsMembers ==
    ASSUME TypeOK, NEW g \in Group, NEW u \in User, NEW role \in Role \cup {NoRow},
           WriteRow(g, u, role), g = TheGroup => Row(g, u) # NoRow /\ role # NoRow
    PROVE  Members' = Members
  <1>1. Row(g, u)' = role /\ \A h \in Group, v \in User : <<h, v>> # <<g, u>> => Row(h, v)' = Row(h, v)
    BY WriteRowType
  <1>2. \A v \in User : Row(TheGroup, v)' # NoRow <=> Row(TheGroup, v) # NoRow
    BY <1>1, TheGroupAssumption
  <1> QED  BY <1>2 DEF Members

(* A call that keeps the members, and with which r comes to owe nothing.   *)
LEMMA QuietStep ==
    ASSUME CInv, NEW r \in Req, NoteChange, UNCHANGED <<entry, now>>, Members' = Members,
           req[r] # Idle, ~OwesInvalidation(r),
           Respond(r) \/ \E pc \in PC : Goto(r, pc) /\ (pc = "invalidate" => req[r].group # TheGroup)
    PROVE  UNCHANGED Cache!vars
  <1>1. \A s \in Req \ {r} : OwesInvalidation(s)' <=> OwesInvalidation(s)
    BY WriterStep
  <1>2. ~OwesInvalidation(r)'
    BY WriterStep
  <1> QED  BY <1>1, <1>2, Stutter

(* A request that is received, or whose check has read its actor's row.    *)
LEMMA RecordStep ==
    ASSUME CInv, NEW r \in Req, NoteChange, UNCHANGED <<entry, now, groupMember>>,
           ~OwesInvalidation(r),
           NEW q \in Request, q.pc # "invalidate", req' = [req EXCEPT ![r] = q]
    PROVE  UNCHANGED Cache!vars
  <1>1. Members' = Members
    BY DEF Members, Row
  <1>2. req'[r] = q /\ \A s \in Req \ {r} : req'[s] = req[s]
    BY DEF CInv, IInv, TypeOK
  <1>3. /\ ~OwesInvalidation(r)'
        /\ \A s \in Req \ {r} : OwesInvalidation(s)' <=> OwesInvalidation(s)
    BY <1>2 DEF OwesInvalidation
  <1> QED  BY <1>1, <1>3, Stutter

(* The calls of a handler that does not owe an invalidation of the group.  *)
LEMMA OtherStep ==
    ASSUME CInv, NEW r \in Req, ~OwesInvalidation(r), Step(r), NoteChange,
           UNCHANGED <<entry, now>>
    PROVE  Cache!Next \/ UNCHANGED Cache!vars
  <1>1. TypeOK
    BY DEF CInv, IInv
  <1>2. CASE Receive(r)
    <2>1. PICK op \in Op, g \in Group, a, t \in User, role \in {RoleAdmin, RoleMember} :
            req' = [req EXCEPT ![r] =
                [op |-> op, pc |-> "getActor", group |-> g, actor |-> a,
                 target |-> t, role |-> role, actorRole |-> NoRow]]
      BY <1>2 DEF Receive
    <2>2. [op |-> op, pc |-> "getActor", group |-> g, actor |-> a,
           target |-> t, role |-> role, actorRole |-> NoRow] \in Request
      BY DEF Request, PC
    <2> QED  BY <1>2, <2>1, <2>2, RecordStep DEF Receive
  <1>3. CASE AddMemberCheck(r) \/ ExitGroupCheck(r) \/ SetAdminCheck(r) \/ RemoveMemberGetTarget(r)
             \/ InvalidateCache(r) \/ Abort(r)
    <2>1. /\ req[r] # Idle /\ UNCHANGED groupMember
          /\ Respond(r) \/ Goto(r, "write")
      BY <1>3 DEF AddMemberCheck, ExitGroupCheck, SetAdminCheck, RemoveMemberGetTarget,
                  InvalidateCache, Abort, At
    <2>2. Members' = Members /\ "write" \in PC
      BY <2>1 DEF Members, Row, PC
    <2> QED  BY <2>1, <2>2, QuietStep
  <1>4. CASE RemoveMemberGetActor(r)
    <2>1. req[r] # Idle /\ UNCHANGED groupMember /\ Members' = Members
      BY <1>4 DEF RemoveMemberGetActor, At, Members, Row
    <2>2. CASE Respond(r)
      BY <2>1, <2>2, QuietStep
    <2>3. CASE ~Respond(r)
      <3> DEFINE q == [req[r] EXCEPT !.pc = "getTarget",
                                     !.actorRole = Row(req[r].group, req[r].actor)]
      <3>1. req' = [req EXCEPT ![r] = q]
        BY <1>4, <2>3 DEF RemoveMemberGetActor
      <3>2. req[r] \in Request /\ Row(req[r].group, req[r].actor) \in Role \cup {NoRow}
        BY <1>1, <2>1, RunningType DEF TypeOK, Row
      <3>3. q \in Request /\ q.pc # "invalidate"
        BY <3>2 DEF Request, PC
      <3> QED  BY <2>1, <3>1, <3>3, RecordStep
    <2> QED  BY <2>2, <2>3
  <1>5. CASE AddMemberWrite(r)
    <2>1. /\ req[r] # Idle /\ req[r].pc = "write"
          /\ req[r].group \in Group /\ req[r].target \in User
      BY <1>1, <1>5, RunningType DEF AddMemberWrite, At
    <2>2. CASE Row(req[r].group, req[r].target) # NoRow
      <3>1. Members' = Members /\ Respond(r)
        BY <1>5, <2>2 DEF AddMemberWrite, Members, Row
      <3> QED  BY <2>1, <3>1, QuietStep
    <2>3. CASE Row(req[r].group, req[r].target) = NoRow
      <3>1. WriteRow(req[r].group, req[r].target, RoleMember) /\ Goto(r, "invalidate")
        BY <1>5, <2>3 DEF AddMemberWrite, InsertRow
      <3>2. CASE req[r].group = TheGroup
        BY <2>1, <2>3, <3>1, <3>2, WritesMember
      <3>3. CASE req[r].group # TheGroup
        <4>1. Members' = Members
          BY <1>1, <2>1, <3>1, <3>3, KeepsMembers DEF Role
        <4> QED  BY <2>1, <3>1, <3>3, <4>1, QuietStep DEF PC
      <3> QED  BY <3>2, <3>3
    <2> QED  BY <2>2, <2>3
  <1>6. CASE DeleteWrite(r)
    <2>1. /\ req[r] # Idle /\ req[r].pc = "write"
          /\ req[r].group \in Group /\ req[r].target \in User
          /\ WriteRow(req[r].group, req[r].target, NoRow) /\ Goto(r, "invalidate")
      BY <1>1, <1>6, RunningType DEF DeleteWrite, DeleteRow, At
    <2>2. CASE req[r].group = TheGroup
      <3>1. NoRow # RoleMember
        BY DEF NoRow, RoleMember
      <3> QED  BY <2>1, <2>2, <3>1, WritesMember
    <2>3. CASE req[r].group # TheGroup
      <3>1. Members' = Members
        BY <1>1, <2>1, <2>3, KeepsMembers
      <3> QED  BY <2>1, <2>3, <3>1, QuietStep DEF PC
    <2> QED  BY <2>2, <2>3
  <1>7. CASE SetAdminWrite(r)
    <2>1. /\ req[r] # Idle /\ Respond(r)
          /\ req[r].group \in Group /\ req[r].target \in User
          /\ req[r].role \in Role \ {NoRow}
      BY <1>1, <1>7, RunningType DEF SetAdminWrite, At, Role, RoleAdmin, RoleMember, NoRow
    <2>2. CASE Row(req[r].group, req[r].target) = NoRow
      <3>1. Members' = Members
        BY <1>7, <2>2 DEF SetAdminWrite, UpdateRole, Members, Row
      <3> QED  BY <2>1, <3>1, QuietStep
    <2>3. CASE Row(req[r].group, req[r].target) # NoRow
      <3>1. WriteRow(req[r].group, req[r].target, req[r].role)
        BY <1>7, <2>3 DEF SetAdminWrite, UpdateRole
      <3>2. Members' = Members
        BY <1>1, <2>1, <2>3, <3>1, KeepsMembers
      <3> QED  BY <2>1, <3>2, QuietStep
    <2> QED  BY <2>2, <2>3
  <1> QED  BY <1>2, <1>3, <1>4, <1>5, <1>6, <1>7 DEF Step

(* The table begins with its owner's row, and nothing is cached.           *)
LEMMA InitMaps == CInit => Cache!Init
  BY DEF CInit, Cache!Init, Members, OwesInvalidation, Cache!NoEntry, Cache!Never, Cache!MaxAge,
         Cache!Idle, Idle

(* Every step of the composed system is one of MemberCache or a stutter.   *)
LEMMA NextMaps == CInv /\ [CNext]_<<vars, cacheVars>> => [Cache!Next]_(Cache!vars)
  <1> SUFFICES ASSUME CInv, [CNext]_<<vars, cacheVars>> PROVE Cache!Next \/ UNCHANGED Cache!vars
    OBVIOUS
  <1>1. ASSUME NEW r \in Req, HandlerStep(r), NoteChange, UNCHANGED now
        PROVE  Cache!Next \/ UNCHANGED Cache!vars
    <2>1. CASE OwesInvalidation(r) /\ InvalidateCache(r) /\ Cache!Invalidate
      BY <1>1, <2>1, PaysInvalidation DEF InvalidateCache, Cache!Invalidate
    <2>2. CASE /\ OwesInvalidation(r) /\ Abort(r)
               /\ entry' = IF entry = Cache!NoEntry THEN entry ELSE [entry EXCEPT !.missed = TRUE]
      BY <1>1, <2>2, PaysInvalidation DEF Abort
    <2>3. CASE ~OwesInvalidation(r) /\ Step(r) /\ UNCHANGED entry
      BY <1>1, <2>3, OtherStep
    <2> QED  BY <1>1, <2>1, <2>2, <2>3 DEF HandlerStep
  <1>2. ASSUME NEW r \in Reader, Cache!Read(r)  PROVE Cache!Next
    BY <1>2 DEF Cache!Next
  <1>3. CASE Cache!Tick
    BY <1>3 DEF Cache!Next
  <1>4. CASE UNCHANGED <<vars, cacheVars>>
    BY <1>4 DEF vars, cacheVars, Cache!vars, Members, Row, OwesInvalidation
  <1> QED  BY <1>1, <1>2, <1>3, <1>4 DEF CNext

-----------------------------------------------------------------------------
(* The handlers, running call by call and stopping anywhere, do to the     *)
(* group's table and its cached list what MemberCache says.                *)
THEOREM SpecImplementsMemberCache == CSpec => ImplementsMemberCache
  BY InitCInv, NextCInv, InitMaps, NextMaps, PTL DEF CSpec, ImplementsMemberCache, Cache!Spec

(* So what is proved of MemberCache holds of the composed system, in which *)
(* nobody calls.                                                           *)
Proved == INSTANCE MemberCacheProofs WITH
    Writer   <- Req,
    Faults   <- TRUE,
    members  <- Members,
    writer   <- MappedWriter,
    CallReq  <- {},
    GrantTTL <- 0,
    call     <- <<>>,
    grant    <- [u \in User |-> 0]

(* A list that is about to be used is wrong about a user for less than     *)
(* TTL + 2 * Budget after a handler of room.Handler, whichever it was,     *)
(* added or removed the user, for any number of users, groups, handlers    *)
(* and fills.                                                              *)
THEOREM SpecStalenessBounded == CSpec => []Cache!StalenessBounded
  <1>1. Proved!Spec => []Proved!StalenessBounded
    BY Proved!SpecStalenessBounded, TicksAssumption
  <1>2. Cache!Init => Proved!Init
    BY
       DEF MappedWriter, Cache!Init, Proved!Init, Cache!NoEntry, Proved!NoEntry,
           Cache!Idle, Proved!Idle, Cache!Never, Proved!Never, Cache!MaxAge,
           Proved!MaxAge
  <1>3. Cache!Next => Proved!Next
    <2>1. ASSUME NEW r \in Req, Cache!Change(r)  PROVE Proved!Change(r)
      BY <2>1
         DEF MappedWriter, Cache!Change, Proved!Change, Cache!AddMember,
             Proved!AddMember, Cache!RemoveMember, Proved!RemoveMember,
             Cache!RemoveNobody, Proved!RemoveNobody, Cache!InvalidateCache,
             Proved!InvalidateCache, Cache!InvalidateLost, Proved!InvalidateLost,
             Cache!Invalidate, Proved!Invalidate, Cache!NoEntry, Proved!NoEntry,
             Cache!Race, Proved!Race
    <2>2. ASSUME NEW r \in Reader, Cache!Read(r)  PROVE Proved!Read(r)
      BY <2>2
         DEF MappedWriter, Cache!Read, Proved!Read, Cache!Start, Proved!Start,
             Cache!GetHit, Proved!GetHit, Cache!GetMiss, Proved!GetMiss,
             Cache!ListMembers, Proved!ListMembers, Cache!SetCache,
             Proved!SetCache, Cache!SetFails, Proved!SetFails, Cache!Finish,
             Proved!Finish, Cache!Proceed, Proved!Proceed, Cache!Set, Proved!Set,
             Cache!Cached, Proved!Cached, Cache!NoEntry, Proved!NoEntry,
             Cache!Idle, Proved!Idle, Cache!Never, Proved!Never, Cache!MaxAge,
             Proved!MaxAge
    <2>3. Cache!Tick => Proved!Tick
      BY
         DEF MappedWriter, Cache!Tick, Proved!Tick, Cache!Idle, Proved!Idle
    <2> QED  BY <2>1, <2>2, <2>3 DEF Cache!Next, Proved!Next
  <1>4. Proved!StalenessBounded => Cache!StalenessBounded
    BY DEF Cache!StalenessBounded, Proved!StalenessBounded, Cache!MaxAge, Proved!MaxAge,
           Cache!WrongFor, Proved!WrongFor
  <1> QED  BY <1>1, <1>2, <1>3, <1>4, SpecImplementsMemberCache, PTL
           DEF ImplementsMemberCache, Cache!Spec, Proved!Spec, Cache!vars, Proved!vars, MappedWriter

==============================================================================
