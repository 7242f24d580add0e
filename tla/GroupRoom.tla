------------------------------ MODULE GroupRoom ------------------------------
(***************************************************************************)
(* A group's room with the cache that its member lists come from: the send *)
(* and recall handlers of modules Messaging and RoomActivity, the calls of *)
(* groupMemberUIDs they make (canPost, broadcast, trackActivity) as the    *)
(* readers of module MemberCache, and the changes of the group's members   *)
(* as its writers.                                                         *)
(*                                                                         *)
(* Messaging lets a handler use any list the room has had.  Here it uses   *)
(* the one that its call has brought back: hit, or listed and stored,      *)
(* while members come and go between any two of the calls.                 *)
(***************************************************************************)
EXTENDS RoomActivity

CONSTANTS
    Writer,     \* slots for addMember, removeMember and exitGroup handlers
    TTL,        \* lifetime of a cache entry, in ticks
    Budget,     \* longest run of a handler, in ticks
    MaxTime,    \* bound on the clock
    Faults      \* whether Redis may fail and changes may be cut off

ASSUME TimeAssumption == TTL \in Nat \ {0} /\ Budget \in Nat /\ MaxTime \in Nat

ASSUME FaultsAssumption == Faults \in BOOLEAN

VARIABLES
    entry, writer, now, changedAt,  \* as in MemberCache
    reader                          \* reader[r]: the groupMemberUIDs call that
                                    \*   the handler in slot r waits for

Cache == INSTANCE MemberCache WITH Reader <- Req

cacheVars == <<entry, writer, reader, now, changedAt>>

RInit == HInit /\ kind = "group" /\ Cache!Init

-----------------------------------------------------------------------------
(* A handler asks for the list in canPost, before it has a request, in     *)
(* broadcast and in trackActivity, and does nothing until it has an answer.*)
NeedsList(r) ==
    \/ req[r] = Idle
    \/ \E pc \in {"broadcast", "resolve"} : At(r, "send", pc)
    \/ At(r, "recall", "broadcast")

Waits(r) == reader[r] # Idle

Ask(r) == NeedsList(r) /\ Cache!Start(r)

Fetch(r) ==
    \/ Cache!GetHit(r) \/ Cache!GetMiss(r) \/ Cache!ListMembers(r)
    \/ Cache!SetCache(r) \/ Cache!SetFails(r)

(* canPost of somebody who is on the list, broadcast, or trackActivity.    *)
UseList(r) ==
    /\ reader[r].pc = "done"
    /\ Cache!Finish(r)
    /\ \/ \E u \in User : Contains(reader[r].uids, u) /\ Accept(r, u)
       \/ Broadcast(r) \/ RecallBroadcast(r)
       \/ TakeOthers(r, reader[r].uids)
    /\ UNCHANGED history

(* canPost without success: one who is not on the list, or a failing call. *)
Refuse(r) ==
    /\ req[r] = Idle /\ Waits(r)
    /\ Cache!Finish(r)
    /\ UNCHANGED <<vars, history>>

(* A call fails or the handler stops, waiting for a list or not.           *)
Fail(r) ==
    /\ FaultStep(r)
    /\ UNCHANGED <<history, members>>
    /\ IF Waits(r) THEN Cache!Finish(r) ELSE UNCHANGED cacheVars

(* What a handler does without a list.                                     *)
Work(r) ==
    /\ ~Waits(r)
    /\ NotedStep(r) \/ (RecallStep(r) /\ UNCHANGED history)
    /\ UNCHANGED cacheVars

HandlerStep(r) ==
    \/ (Ask(r) \/ Fetch(r)) /\ UNCHANGED <<vars, history>>
    \/ UseList(r) \/ Refuse(r) \/ Fail(r) \/ Work(r)

(* A call of a handler of room.Handler; those in Stay are not its targets. *)
MemberChange(w) ==
    /\ Cache!Change(w)
    /\ Stay \subseteq members'
    /\ lists' = lists \cup {members'}
    /\ UNCHANGED <<kind, message, lastMsgId, unread, faults, req, history>>

RNext ==
    \/ \E r \in Req : HandlerStep(r)
    \/ \E u \in User : MarkRead(u) /\ NoteReset(u) /\ UNCHANGED cacheVars
    \/ \E w \in Writer : MemberChange(w)
    \/ Cache!Tick /\ UNCHANGED <<vars, history>>

RSpec == RInit /\ [][RNext]_<<vars, history, cacheVars>>

-----------------------------------------------------------------------------
(* With the real cache in the place of "any list the room has had", a room *)
(* does nothing that RoomActivity does not: whatever a list has been       *)
(* through, raced fills, lost invalidations and failing calls included, it *)
(* is one that the table has held.  So what is shown of previews and       *)
(* unread counts holds beside the real cache.                              *)
ImplementsRoomActivity == HSpec

(* A removed member can begin to send for less than MaxAge after leaving,  *)
(* and one who never was a member never can: canPost trusts the list.      *)
PostingBounded ==
    [][\A r \in Req : req[r] = Idle /\ At(r, "send", "insert")' =>
          req'[r].uid \in members \/ now < changedAt[req'[r].uid] + Cache!MaxAge]_req

(* Whom a message is counted for, other than its sender, are the members   *)
(* at that time but for those who came or went less than MaxAge ago.       *)
CountingBounded ==
    [][\A r \in Req, u \in User :
          /\ At(r, "send", "resolve") /\ At(r, "send", "bump")' /\ u # req[r].uid
          /\ Cache!WrongFor(u, req'[r].others)
          => now < changedAt[u] + Cache!MaxAge]_req

=============================================================================
