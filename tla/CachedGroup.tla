----------------------------- MODULE CachedGroup -----------------------------
(***************************************************************************)
(* One group of module Membership together with the cached list of its     *)
(* members: room.Handler's handlers, running call by call, are what writes *)
(* the table and deletes the list in module MemberCache, and               *)
(* message.Handler's groupMemberUIDs is what fills and reads the list.     *)
(*                                                                         *)
(* MemberCache knows a change only as a write that is followed by an       *)
(* invalidation.  Here the write is made by addMember, removeMember or     *)
(* exitGroup after their checks, and may find nothing to change; and       *)
(* setAdmin writes rows without invalidating.  That this is how            *)
(* MemberCache says the table and the cache behave is ImplementsMemberCache.*)
(***************************************************************************)
EXTENDS Membership

CONSTANTS
    TheGroup,   \* the group whose cached list is modelled
    Reader,     \* slots for running groupMemberUIDs calls
    TTL,        \* lifetime of a cache entry, in ticks
    Budget,     \* longest run of a handler, in ticks
    MaxTime     \* bound on the clock

ASSUME TheGroupAssumption == TheGroup \in Group

ASSUME TicksAssumption == TTL \in Nat \ {0} /\ Budget \in Nat /\ MaxTime \in Nat

VARIABLES
    entry, reader, now, changedAt   \* as in MemberCache

cacheVars == <<entry, reader, now, changedAt>>

Members == {u \in User : Row(TheGroup, u) # NoRow}

(* The handlers that have changed the group and not yet invalidated.       *)
OwesInvalidation(r) ==
    req[r] # Idle /\ req[r].pc = "invalidate" /\ req[r].group = TheGroup

Cache == INSTANCE MemberCache WITH
    Writer  <- Req,
    Faults  <- TRUE,
    members <- Members,
    writer  <- [r \in Req |-> IF OwesInvalidation(r) THEN "invalidate" ELSE "write"]

(* No list is asked for before the room exists: its creation, one          *)
(* transaction that inserts the owner too, is where this begins.  (That of *)
(* another group has nothing to do with this one's list, and all have been *)
(* created here.)                                                          *)
CInit ==
    /\ creator \in [Group -> User]
    /\ groupMember = [g \in Group |-> [u \in User |->
            IF u = creator[g] THEN RoleOwner ELSE NoRow]]
    /\ req = [r \in Req |-> Idle]
    /\ entry = Cache!NoEntry
    /\ reader = [r \in Reader |-> Idle]
    /\ now = 0
    /\ changedAt = [u \in User |-> Cache!Never]

(* A call of a handler of room.Handler: deleting the cached list, stopping *)
(* (or failing) instead of that, or any other one.                         *)
HandlerStep(r) ==
    \/ OwesInvalidation(r) /\ InvalidateCache(r) /\ Cache!Invalidate
    \/ /\ OwesInvalidation(r) /\ Abort(r)
       /\ entry' = IF entry = Cache!NoEntry THEN entry ELSE [entry EXCEPT !.missed = TRUE]
    \/ ~OwesInvalidation(r) /\ Step(r) /\ UNCHANGED entry

(* The history that MemberCache keeps of a change of the member set.       *)
NoteChange ==
    /\ changedAt' = [u \in User |-> IF u \in Members <=> u \in Members' THEN changedAt[u]
                                                                     ELSE now]
    /\ IF Members' = Members THEN UNCHANGED reader ELSE Cache!Race

CNext ==
    \/ \E r \in Req : HandlerStep(r) /\ NoteChange /\ UNCHANGED now
    \/ UNCHANGED vars /\ \E r \in Reader : Cache!Read(r)
    \/ UNCHANGED vars /\ Cache!Tick

CSpec == CInit /\ [][CNext]_<<vars, cacheVars>>

-----------------------------------------------------------------------------
(* Whatever the handlers of room.Handler do, and wherever they stop, the   *)
(* group's table and its cached list behave as MemberCache says: every     *)
(* change is followed by an invalidation or counted as one that lost it,   *)
(* no change slips in beside the writers, and no other call of a handler   *)
(* touches the list.                                                       *)
ImplementsMemberCache == Cache!Spec

=============================================================================
