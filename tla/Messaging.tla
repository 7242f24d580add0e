------------------------------ MODULE Messaging ------------------------------
(***************************************************************************)
(* What sending and recalling messages does to one room: the send and      *)
(* recall handlers of internal/message/handler.go and markRead of          *)
(* internal/room/handler.go, one action per call that another handler can  *)
(* come between.  Calls after the INSERT of a message are best effort:     *)
(* their errors are ignored and the handler goes on to the next one.       *)
(*                                                                         *)
(* The room is a "friend" room (two fixed participants), a "group" (members *)
(* change, and a list of them in use may be out of date: module GroupRoom  *)
(* has the cache that such lists come from), or a "hot" room.              *)
(***************************************************************************)
EXTENDS Integers, Sequences, FiniteSets

CONSTANTS
    User,       \* uids
    Req,        \* slots for concurrently running handlers
    MaxMsg,     \* bound on the messages in the room
    MaxFaults,  \* bound on the calls that fail and handlers that stop half-way
    Stay        \* users who are in the room throughout; others come and go

ASSUME BoundAssumption == MaxMsg \in Nat /\ MaxFaults \in Nat /\ Stay \subseteq User

VARIABLES
    kind,       \* the room's kind
    members,    \* the participants: group_member rows, or the room_friend row
    lists,      \* the lists of participants the room has had
    message,    \* the message table: message[id]
    lastMsgId,  \* room.last_msg_id, 0 at first
    unread,     \* unread[u]: contact.unread_count, 0 without a row
    faults,     \* how many calls have failed and handlers have stopped
    req         \* req[r]: the handler running in slot r

room == <<kind, members, lists>>
vars == <<room, message, lastMsgId, unread, faults, req>>

Idle == [pc |-> "idle"]

Kind == {"friend", "group", "hot"}

MsgId == 1..MaxMsg

Message == [from: User, status: {"normal", "deleted"}]

SendPC == {"insert", "broadcast", "touch", "resolve", "bump", "reset"}
RecallPC == {"check", "setStatus", "broadcast"}

(* others is the list BumpUnread will use, kept until then.                *)
Send == [op: {"send"}, pc: SendPC, uid: User, msg: 0..MaxMsg, others: SUBSET User]
Recall == [op: {"recall"}, pc: RecallPC, msg: MsgId]

Init ==
    /\ kind \in Kind
    /\ members \in IF kind = "friend" THEN {P \in SUBSET User : Cardinality(P) = 2}
                                     ELSE {P \in SUBSET User : Stay \subseteq P}
    /\ lists = {members}
    /\ message = <<>>
    /\ lastMsgId = 0
    /\ unread = [u \in User |-> 0]
    /\ faults = 0
    /\ req = [r \in Req |-> Idle]

-----------------------------------------------------------------------------
(* Running a handler.                                                      *)

At(r, op, pc) == req[r] # Idle /\ req[r].op = op /\ req[r].pc = pc

Goto(r, pc) == req' = [req EXCEPT ![r].pc = pc]

Respond(r) == req' = [req EXCEPT ![r] = Idle]

Fault == faults < MaxFaults /\ faults' = faults + 1

-----------------------------------------------------------------------------
(* Who is in the room, as a handler sees it.                               *)

(* groupMemberUIDs: the table as it is, or as it was when the list now     *)
(* cached was read.                                                        *)
GroupMemberUIDs(uids) == uids \in lists

(* GetFriendByRoomID: the room_friend row never changes.                   *)
FriendUIDs(uids) == uids = members

(* resolveRecipients, and the part of canPost that finds the participants. *)
Resolve(uids) ==
    \/ kind = "group" /\ GroupMemberUIDs(uids)
    \/ kind = "friend" /\ FriendUIDs(uids)

-----------------------------------------------------------------------------
(* The statements of the stores.                                           *)

Stored(id) == id \in DOMAIN message

InsertMessage(u) == message' = Append(message, [from |-> u, status |-> "normal"])

UpdateStatus(id, status) == message' = [message EXCEPT ![id].status = status]

SetLastMsg(id) == lastMsgId' = id

CountOne_Set(uids) == unread' = [u \in User |-> IF u \in uids THEN 1 ELSE unread[u]]

CountOne(uids) == unread' = [u \in User |-> IF u \in uids THEN unread[u] + 1 ELSE unread[u]]

ResetCount(u) == unread' = [unread EXCEPT ![u] = 0]

-----------------------------------------------------------------------------
(* send.                                                                   *)

Contains(uids, u) == u \in uids

CanPost(u) == kind = "hot" \/ \E uids \in SUBSET User : Resolve(uids) /\ Contains(uids, u)

(* GetRoom, whose answer never changes, and canPost have let u post.  One  *)
(* who may not post is turned away with nothing changed.                   *)
Accept(r, u) ==
    /\ req[r] = Idle
    /\ req' = [req EXCEPT ![r] =
            [op |-> "send", pc |-> "insert", uid |-> u, msg |-> 0, others |-> {}]]
    /\ UNCHANGED <<room, message, lastMsgId, unread, faults>>

SendReceive(r, u) == CanPost(u) /\ Accept(r, u)

Insert(r) ==
    /\ At(r, "send", "insert")
    /\ Len(message) < MaxMsg
    /\ InsertMessage(req[r].uid)
    /\ req' = [req EXCEPT ![r].pc = "broadcast", ![r].msg = Len(message) + 1]
    /\ UNCHANGED <<room, lastMsgId, unread, faults>>

(* broadcast: to everybody in a hot room, else to the resolved recipients, *)
(* the sender included; what becomes of it is the subject of Timeline.     *)
Broadcast(r) ==
    /\ At(r, "send", "broadcast")
    /\ Goto(r, "touch")
    /\ UNCHANGED <<room, message, lastMsgId, unread, faults>>

(* trackActivity begins here, and ends here for a hot room.                *)
AfterTouch(r) == IF kind = "hot" THEN Respond(r) ELSE Goto(r, "resolve")

TouchRoom(r) ==
    /\ At(r, "send", "touch")
    /\ SetLastMsg(req[r].msg)
    /\ AfterTouch(r)
    /\ UNCHANGED <<room, message, unread, faults>>

TakeOthers_SenderToo(r, uids) ==
    /\ At(r, "send", "resolve")
    /\ req' = [req EXCEPT ![r].pc = "bump", ![r].others = uids]
    /\ UNCHANGED <<room, message, lastMsgId, unread, faults>>

(* The recipients but the sender.                                          *)
TakeOthers(r, uids) ==
    /\ At(r, "send", "resolve")
    /\ req' = [req EXCEPT ![r].pc = "bump", ![r].others = uids \ {req[r].uid}]
    /\ UNCHANGED <<room, message, lastMsgId, unread, faults>>

ResolveOthers(r) == \E uids \in SUBSET User : Resolve(uids) /\ TakeOthers(r, uids)

BumpUnread(r) ==
    /\ At(r, "send", "bump")
    /\ CountOne(req[r].others)
    /\ req' = [req EXCEPT ![r].pc = "reset", ![r].others = {}]
    /\ UNCHANGED <<room, message, lastMsgId, faults>>

(* The sender's own count, after which the handler answers.                *)
ResetUnread(r) ==
    /\ At(r, "send", "reset")
    /\ ResetCount(req[r].uid)
    /\ Respond(r)
    /\ UNCHANGED <<room, message, lastMsgId, faults>>

(* A best-effort call fails and the handler goes on; without recipients    *)
(* trackActivity returns.                                                  *)
CallFails(r) ==
    /\ Fault
    /\ \/ At(r, "send", "broadcast") /\ Goto(r, "touch")
       \/ At(r, "send", "touch") /\ AfterTouch(r)
       \/ /\ At(r, "send", "bump")
          /\ req' = [req EXCEPT ![r].pc = "reset", ![r].others = {}]
       \/ (\E pc \in {"resolve", "reset"} : At(r, "send", pc)) /\ Respond(r)
    /\ UNCHANGED <<room, message, lastMsgId, unread>>

-----------------------------------------------------------------------------
(* recall.                                                                 *)

RecallReceive_Unchecked(r, id) ==
    /\ req[r] = Idle
    /\ req' = [req EXCEPT ![r] = [op |-> "recall", pc |-> "check", msg |-> id]]
    /\ UNCHANGED <<room, message, lastMsgId, unread, faults>>

(* The handler has found the message (GetByID).                            *)
RecallReceive(r, id) ==
    /\ req[r] = Idle
    /\ Stored(id)
    /\ req' = [req EXCEPT ![r] = [op |-> "recall", pc |-> "check", msg |-> id]]
    /\ UNCHANGED <<room, message, lastMsgId, unread, faults>>

(* CanRecall: an owner or admin of the room at any time, the sender within *)
(* two minutes of sending.                                                 *)
CanRecall(from, actor, manager, recent) == manager \/ (from = actor /\ recent)

(* GetMember finds a role only for a member of a group; which one, and     *)
(* whether the message is recent, is left open.                            *)
RecallCheck(r) ==
    /\ At(r, "recall", "check")
    /\ \E actor \in User, manager, recent \in BOOLEAN :
        /\ manager => kind # "friend" /\ actor \in members
        /\ IF CanRecall(message[req[r].msg].from, actor, manager, recent)
           THEN Goto(r, "setStatus") ELSE Respond(r)
    /\ UNCHANGED <<room, message, lastMsgId, unread, faults>>

SetStatus(r) ==
    /\ At(r, "recall", "setStatus")
    /\ UpdateStatus(req[r].msg, "deleted")
    /\ Goto(r, "broadcast")
    /\ UNCHANGED <<room, lastMsgId, unread, faults>>

RecallBroadcast_Touching(r) ==
    /\ At(r, "recall", "broadcast")
    /\ SetLastMsg(req[r].msg)
    /\ Respond(r)
    /\ UNCHANGED <<room, message, unread, faults>>

(* The recall is pushed like a message; trackActivity is not called.       *)
RecallBroadcast(r) ==
    /\ At(r, "recall", "broadcast")
    /\ Respond(r)
    /\ UNCHANGED <<room, message, lastMsgId, unread, faults>>

-----------------------------------------------------------------------------
(* markRead, the whole handler: it checks nothing but the room id.         *)
MarkRead(u) ==
    /\ ResetCount(u)
    /\ UNCHANGED <<room, message, lastMsgId, req, faults>>

(* A handler stops half-way: its context ends, or the server dies.         *)
Abort(r) ==
    /\ Fault
    /\ req[r] # Idle
    /\ Respond(r)
    /\ UNCHANGED <<room, message, lastMsgId, unread>>

(* The room's members change (module Membership).                          *)
ChangeMembers ==
    /\ kind # "friend"
    /\ \E u \in User \ Stay :
        members' = IF u \in members THEN members \ {u} ELSE members \cup {u}
    /\ lists' = lists \cup {members'}
    /\ UNCHANGED <<kind, message, lastMsgId, unread, req, faults>>

(* The steps that use a list of the participants, those that fail, and     *)
(* those of recall that do neither.                                        *)
ListStep(r) ==
    \/ \E u \in User : SendReceive(r, u)
    \/ Broadcast(r) \/ ResolveOthers(r) \/ RecallBroadcast(r)

FaultStep(r) == CallFails(r) \/ Abort(r)

RecallStep(r) == (\E id \in MsgId : RecallReceive(r, id)) \/ RecallCheck(r) \/ SetStatus(r)

OtherStep(r) == ListStep(r) \/ FaultStep(r) \/ RecallStep(r)

Step(r) == Insert(r) \/ TouchRoom(r) \/ BumpUnread(r) \/ ResetUnread(r) \/ OtherStep(r)

Next ==
    \/ \E r \in Req : Step(r)
    \/ \E u \in User : MarkRead(u)
    \/ ChangeMembers

Spec == Init /\ [][Next]_vars

-----------------------------------------------------------------------------
(* The variables have their types, and nothing refers to a message that is *)
(* not in the table: neither the preview, nor a recall, nor a handler.     *)
TypeOK ==
    /\ kind \in Kind /\ members \in SUBSET User
    /\ lists \subseteq SUBSET User /\ members \in lists
    /\ message \in Seq(Message) /\ Len(message) <= MaxMsg
    /\ lastMsgId \in 0..Len(message)
    /\ unread \in [User -> Nat]
    /\ faults \in 0..MaxFaults
    /\ req \in [Req -> Send \cup Recall \cup {Idle}]
    /\ \A r \in Req : req[r] # Idle => req[r].msg \in {0} \cup DOMAIN message

=============================================================================
