----------------------------- MODULE Membership -----------------------------
(***************************************************************************)
(* Group membership and roles: the handlers of internal/room/handler.go    *)
(* that read and write the group_member table, interleaved at the          *)
(* granularity of their SQL statements.                                    *)
(*                                                                         *)
(* A handler is a request record whose pc names the database call it will  *)
(* make next.  Nothing is locked between two calls of one handler, so what *)
(* a check has read may be stale when the write it permits is executed.    *)
(* Any handler may stop before any of its calls (the 5 s context expires,  *)
(* the client disconnects, the database answers with an error, the server  *)
(* dies): the calls already made keep their effect.                        *)
(***************************************************************************)
EXTENDS Integers

CONSTANTS
    User,       \* uids
    Group,      \* room ids of group rooms (room_id doubles as group_id)
    Req,        \* slots for concurrently running handlers
    NoUser      \* the creator of a group that does not exist yet

ASSUME NoUserAssumption == NoUser \notin User

(* The roles of internal/room/model.go.                                    *)
RoleOwner  == 1
RoleAdmin  == 2
RoleMember == 3
Role       == {RoleOwner, RoleAdmin, RoleMember}

(* GetMember's ErrNotFound: the (group, uid) pair has no row.              *)
NoRow == 0

VARIABLES
    groupMember,    \* groupMember[g][u]: the role in u's row of g, or NoRow
    creator,        \* creator[g]: who created g, NoUser before its transaction
    req             \* req[r]: the handler running in slot r

vars == <<groupMember, creator, req>>

Op == {"add", "remove", "exit", "setAdmin"}
PC == {"getActor", "getTarget", "write", "invalidate"}

(* actorRole is the handler's local copy of the actor's role.              *)
Request ==
    [op: Op, pc: PC, group: Group, actor: User, target: User,
     role: {RoleAdmin, RoleMember}, actorRole: Role \cup {NoRow}]

Idle == [pc |-> "idle"]

Init ==
    /\ groupMember = [g \in Group |-> [u \in User |-> NoRow]]
    /\ creator = [g \in Group |-> NoUser]
    /\ req = [r \in Req |-> Idle]

-----------------------------------------------------------------------------
(* The decisions of role.go and of the handlers.                           *)

CanRemoveMember_OwnerIncluded(actor, target) ==
    \/ actor = RoleOwner
    \/ actor = RoleAdmin /\ target = RoleMember

CanRemoveMember(actor, target) ==
    \/ actor = RoleOwner /\ target # RoleOwner
    \/ actor = RoleAdmin /\ target = RoleMember

CanSetAdmin(actor) == actor = RoleOwner

MayAdd_Anyone(actor) == TRUE

MayAdd(actor) == actor # NoRow

MayExit(actor) == actor # NoRow /\ actor # RoleOwner

-----------------------------------------------------------------------------
(* The SQL statements of store.go on one (group, uid) pair; each one is    *)
(* atomic, and the unique key (group_id, uid) makes the pair identify its  *)
(* row.                                                                    *)

Row(g, u) == groupMember[g][u]

WriteRow(g, u, role) == groupMember' = [groupMember EXCEPT ![g][u] = role]

InsertRow(g, u) == WriteRow(g, u, RoleMember)

UpdateRole_Upsert(g, u, role) == WriteRow(g, u, role)

UpdateRole_Swapped(g, u, role) ==
    IF Row(g, u) = NoRow THEN UNCHANGED groupMember
    ELSE WriteRow(g, u, IF role = RoleAdmin THEN RoleOwner ELSE role)

UpdateRole(g, u, role) ==
    IF Row(g, u) = NoRow THEN UNCHANGED groupMember
    ELSE WriteRow(g, u, role)

DeleteRow(g, u) == WriteRow(g, u, NoRow)

(* One transaction inserts the room, the room_group row and the owner's    *)
(* group_member row.                                                       *)
CreateGroupRoom(g, u) ==
    /\ creator' = [creator EXCEPT ![g] = u]
    /\ WriteRow(g, u, RoleOwner)

-----------------------------------------------------------------------------
(* Running a handler.                                                      *)

At(r, op, pc) == req[r] # Idle /\ req[r].op = op /\ req[r].pc = pc

Goto(r, pc) == req' = [req EXCEPT ![r].pc = pc]

Respond(r) == req' = [req EXCEPT ![r] = Idle]

(* createGroup, whose one call takes effect in whole or not at all.        *)
CreateGroup(g, u) ==
    /\ creator[g] = NoUser
    /\ CreateGroupRoom(g, u)
    /\ UNCHANGED req

(* A request is routed to its handler.  The group and the target come from *)
(* the URL or the body and need not exist; exitGroup's target is the       *)
(* caller; only setAdmin chooses a role.                                   *)
Receive(r) ==
    /\ req[r] = Idle
    /\ \E op \in Op, g \in Group, a, t \in User, role \in {RoleAdmin, RoleMember} :
        /\ op = "exit" => t = a
        /\ op # "setAdmin" => role = RoleMember
        /\ req' = [req EXCEPT ![r] =
                [op |-> op, pc |-> "getActor", group |-> g, actor |-> a,
                 target |-> t, role |-> role, actorRole |-> NoRow]]
    /\ UNCHANGED <<groupMember, creator>>

(* GetMember(actor) and the decision taken on it alone.                    *)
AddMemberCheck(r) ==
    /\ At(r, "add", "getActor")
    /\ IF MayAdd(Row(req[r].group, req[r].actor)) THEN Goto(r, "write") ELSE Respond(r)
    /\ UNCHANGED <<groupMember, creator>>

ExitGroupCheck(r) ==
    /\ At(r, "exit", "getActor")
    /\ IF MayExit(Row(req[r].group, req[r].actor)) THEN Goto(r, "write") ELSE Respond(r)
    /\ UNCHANGED <<groupMember, creator>>

SetAdminCheck(r) ==
    /\ At(r, "setAdmin", "getActor")
    /\ IF CanSetAdmin(Row(req[r].group, req[r].actor)) THEN Goto(r, "write") ELSE Respond(r)
    /\ UNCHANGED <<groupMember, creator>>

(* removeMember reads the two rows it decides on one after the other.      *)
RemoveMemberGetActor(r) ==
    /\ At(r, "remove", "getActor")
    /\ LET role == Row(req[r].group, req[r].actor)
       IN  IF role = NoRow THEN Respond(r)
           ELSE req' = [req EXCEPT ![r].pc = "getTarget", ![r].actorRole = role]
    /\ UNCHANGED <<groupMember, creator>>

RemoveMemberGetTarget_Exists(r) ==
    /\ At(r, "remove", "getTarget")
    /\ IF Row(req[r].group, req[r].target) # NoRow THEN Goto(r, "write") ELSE Respond(r)
    /\ UNCHANGED <<groupMember, creator>>

RemoveMemberGetTarget(r) ==
    /\ At(r, "remove", "getTarget")
    /\ LET role == Row(req[r].group, req[r].target)
       IN  IF role # NoRow /\ CanRemoveMember(req[r].actorRole, role)
           THEN Goto(r, "write") ELSE Respond(r)
    /\ UNCHANGED <<groupMember, creator>>

(* The INSERT fails on the unique key when the target is already a member. *)
AddMemberWrite(r) ==
    /\ At(r, "add", "write")
    /\ IF Row(req[r].group, req[r].target) = NoRow
       THEN InsertRow(req[r].group, req[r].target) /\ Goto(r, "invalidate")
       ELSE UNCHANGED groupMember /\ Respond(r)
    /\ UNCHANGED creator

DeleteWrite_NoInvalidate(r) ==
    /\ At(r, "remove", "write") \/ At(r, "exit", "write")
    /\ DeleteRow(req[r].group, req[r].target)
    /\ Respond(r)
    /\ UNCHANGED creator

(* The DELETE of removeMember and exitGroup succeeds with or without a row.*)
DeleteWrite(r) ==
    /\ At(r, "remove", "write") \/ At(r, "exit", "write")
    /\ DeleteRow(req[r].group, req[r].target)
    /\ Goto(r, "invalidate")
    /\ UNCHANGED creator

(* The UPDATE of setAdmin answers ok with or without a row, and is its     *)
(* last call: a change of role does not invalidate the member cache.       *)
SetAdminWrite(r) ==
    /\ At(r, "setAdmin", "write")
    /\ UpdateRole(req[r].group, req[r].target, req[r].role)
    /\ Respond(r)
    /\ UNCHANGED creator

(* invalidateCache; its effect on the cache is modelled in MemberCache.    *)
InvalidateCache(r) ==
    /\ req[r] # Idle /\ req[r].pc = "invalidate"
    /\ Respond(r)
    /\ UNCHANGED <<groupMember, creator>>

(* The handler makes no further call.                                      *)
Abort(r) ==
    /\ req[r] # Idle
    /\ Respond(r)
    /\ UNCHANGED <<groupMember, creator>>

Step(r) ==
    \/ Receive(r)
    \/ AddMemberCheck(r)
    \/ ExitGroupCheck(r)
    \/ SetAdminCheck(r)
    \/ RemoveMemberGetActor(r)
    \/ RemoveMemberGetTarget(r)
    \/ AddMemberWrite(r)
    \/ DeleteWrite(r)
    \/ SetAdminWrite(r)
    \/ InvalidateCache(r)
    \/ Abort(r)

Next ==
    \/ \E g \in Group, u \in User : CreateGroup(g, u)
    \/ \E r \in Req : Step(r)

Spec == Init /\ [][Next]_vars

-----------------------------------------------------------------------------
(* The tables and the handlers have their types, and a group that was      *)
(* never created has no member rows: addMember's check is what keeps rows  *)
(* from being inserted for a room id nobody created.                       *)
TypeOK ==
    /\ groupMember \in [Group -> [User -> Role \cup {NoRow}]]
    /\ creator \in [Group -> User \cup {NoUser}]
    /\ req \in [Req -> Request \cup {Idle}]
    /\ \A g \in Group : creator[g] = NoUser => \A u \in User : Row(g, u) = NoRow

(* A group has at most one owner, and it is the user createGroup inserted: *)
(* no order of concurrent adds, removals and role changes makes a second.  *)
OwnerIsCreator ==
    \A g \in Group, u \in User : Row(g, u) = RoleOwner => creator[g] = u

(* The owner's row is never deleted and never loses its role through       *)
(* anyone else: neither a removal nor an exit decided on roles that have   *)
(* changed since can hit it.  The one step that takes the role away is     *)
(* setAdmin executed by the owner on itself.                               *)
OwnerOnlyDemotesItself ==
    [][\A g \in Group, u \in User :
          Row(g, u) = RoleOwner /\ Row(g, u)' # RoleOwner =>
              /\ Row(g, u)' # NoRow
              /\ \E r \in Req : /\ At(r, "setAdmin", "write")
                                /\ req[r].group = g
                                /\ req[r].actor = u
                                /\ req[r].target = u]_vars

(* Whoever enters an existing group enters as an ordinary member: a        *)
(* promotion in flight for someone who has left meanwhile does not bring   *)
(* the row back, and someone re-added does not recover a former role.      *)
EntersAsMember ==
    [][\A g \in Group, u \in User :
          Row(g, u) = NoRow /\ Row(g, u)' # NoRow =>
              Row(g, u)' = RoleMember \/ creator[g] = NoUser]_vars

=============================================================================
