------------------------------ MODULE Timeline ------------------------------
(***************************************************************************)
(* What one client of a room gets to know of its messages: pages read by   *)
(* id (page, ListByRoomCursor) while messages are inserted, recalled and   *)
(* pushed, and a WebSocket connection that is registered with the Hub only *)
(* after its handshake has been answered (serveWS).                        *)
(*                                                                         *)
(* An INSERT takes its id and create_time when it starts and its row is    *)
(* visible when it ends, so rows may appear out of the order of their ids. *)
(* The client is in the room throughout; how a push reaches a registered   *)
(* connection, or closes it, is the subject of module Hub.                 *)
(***************************************************************************)
EXTENDS Integers, FiniteSetsExt

CONSTANTS
    MaxMsg,     \* bound on the messages in the room
    Limit,      \* messages on a page
    Second,     \* ticks in a second, the precision of create_time
    Window,     \* recallWindow, in ticks
    Budget,     \* longest run of a handler, in ticks
    MaxTime     \* bound on the clock

ASSUME LimitAssumption == Limit \in Nat \ {0} /\ MaxMsg \in Nat

ASSUME ClockAssumption ==
    Second \in Nat \ {0} /\ Window \in Nat /\ Budget \in Nat /\ MaxTime \in Nat

VARIABLES
    status,     \* status[id]: of the row id, "none" as long as none is visible
    send,       \* send[id]: the next call of the send handler that took id
    sentAt,     \* sentAt[id]: when its INSERT started
    recall,     \* recall[id]: the recall of id: its next call, and how it was admitted
    client,
    now

vars == <<status, send, sentAt, recall, client, now>>

MsgId == 1..MaxMsg

SendPC == {"none", "insert", "push", "pushed", "stopped"}

Admitted == [pc: {"setStatus"}, by: {"sender", "manager"}, at: 0..MaxTime]

NoRecall == [pc |-> "none"]

(* paged: the messages on the pages read so far; known and deleted: the    *)
(* messages it has had a copy of, and those whose copy was a recalled one. *)
(* The rest is history: what was there to read at the first page (NotYet   *)
(* before it), whether the connection was registered then, and whether a   *)
(* message has come on two pages.                                          *)
Client ==
    [conn: {"away", "upgraded", "registered"}, cursor: 0..MaxMsg, end: BOOLEAN,
     paged: SUBSET MsgId, known: SUBSET MsgId, deleted: SUBSET MsgId,
     first: SUBSET (0..MaxMsg), covered: BOOLEAN, repeated: BOOLEAN]

NotYet == {0}

Away ==
    [conn |-> "away", cursor |-> 0, end |-> FALSE, paged |-> {}, known |-> {},
     deleted |-> {}, first |-> NotYet, covered |-> FALSE, repeated |-> FALSE]

Init ==
    /\ status = [id \in MsgId |-> "none"]
    /\ send = [id \in MsgId |-> "none"]
    /\ sentAt = [id \in MsgId |-> 0]
    /\ recall = [id \in MsgId |-> NoRecall]
    /\ client = Away
    /\ now = 0

-----------------------------------------------------------------------------
(* The message table.                                                      *)

Rows == {id \in MsgId : status[id] # "none"}

Deleted(ids) == {id \in ids : status[id] = "deleted"}

CreateTime(id) == sentAt[id] - (sentAt[id] % Second)

Before_Inclusive(cursor) == {id \in Rows : cursor = 0 \/ id <= cursor}

Before_NormalOnly(cursor) ==
    {id \in Rows : status[id] = "normal" /\ (cursor = 0 \/ id < cursor)}

(* The rows a page is taken from; a cursor of 0 asks for the newest.       *)
Before(cursor) == {id \in Rows : cursor = 0 \/ id < cursor}

Newest(ids) == {id \in ids : Cardinality({n \in ids : n > id}) < Limit}

-----------------------------------------------------------------------------
(* send, for a message that may be posted.                                 *)

SendGoto(id, pc) == send' = [send EXCEPT ![id] = pc]

InsertStart(id) ==
    /\ send[id] = "none" /\ \A n \in 1..id - 1 : send[n] # "none"
    /\ SendGoto(id, "insert")
    /\ sentAt' = [sentAt EXCEPT ![id] = now]
    /\ UNCHANGED <<status, recall, client, now>>

InsertEnd(id) ==
    /\ send[id] = "insert"
    /\ status' = [status EXCEPT ![id] = "normal"]
    /\ SendGoto(id, "push")
    /\ UNCHANGED <<sentAt, recall, client, now>>

(* A pushed copy of id reaches a connection that is registered.            *)
Hear(id, deleted) ==
    client' = IF client.conn # "registered" THEN client
              ELSE [client EXCEPT !.known = @ \cup {id}, !.deleted = @ \cup deleted]

(* The copy pushed is the one the handler has in hand, recalled or not.    *)
Broadcast(id) ==
    /\ send[id] = "push"
    /\ Hear(id, {})
    /\ SendGoto(id, "pushed")
    /\ UNCHANGED <<status, sentAt, recall, now>>

(* The INSERT fails, or the recipients cannot be found, or the server dies.*)
SendStops(id) ==
    /\ send[id] \in {"insert", "push"}
    /\ SendGoto(id, "stopped")
    /\ UNCHANGED <<status, sentAt, recall, client, now>>

-----------------------------------------------------------------------------
(* recall.                                                                 *)

CanRecall_Doubled(by, id) == by = "manager" \/ now - CreateTime(id) <= 2 * Window

CanRecall(by, id) == by = "manager" \/ now - CreateTime(id) <= Window

RecallGoto(id, pc) == recall' = [recall EXCEPT ![id] = [pc |-> pc]]

(* GetByID, GetMember and CanRecall, for the sender or a manager of the    *)
(* room; a refusal changes nothing.                                        *)
RecallAdmit(id, by) ==
    /\ recall[id] = NoRecall /\ id \in Rows
    /\ CanRecall(by, id)
    /\ recall' = [recall EXCEPT ![id] = [pc |-> "setStatus", by |-> by, at |-> now]]
    /\ UNCHANGED <<status, send, sentAt, client, now>>

SetStatus_Skipped(id) ==
    /\ recall[id].pc = "setStatus"
    /\ RecallGoto(id, "push")
    /\ UNCHANGED <<status, send, sentAt, client, now>>

SetStatus(id) ==
    /\ recall[id].pc = "setStatus"
    /\ status' = [status EXCEPT ![id] = "deleted"]
    /\ RecallGoto(id, "push")
    /\ UNCHANGED <<send, sentAt, client, now>>

RecallBroadcast_AsRead(id) ==
    /\ recall[id].pc = "push"
    /\ Hear(id, {})
    /\ RecallGoto(id, "pushed")
    /\ UNCHANGED <<status, send, sentAt, now>>

RecallBroadcast(id) ==
    /\ recall[id].pc = "push"
    /\ Hear(id, {id})
    /\ RecallGoto(id, "pushed")
    /\ UNCHANGED <<status, send, sentAt, now>>

(* The recall fails before SetStatus, or before or within its broadcast.   *)
RecallStops(id) ==
    /\ recall[id].pc \in {"setStatus", "push"}
    /\ recall' = [recall EXCEPT ![id] = NoRecall]
    /\ UNCHANGED <<status, send, sentAt, client, now>>

-----------------------------------------------------------------------------
(* serveWS and page.                                                       *)

ClientStep(next) == client' = next /\ UNCHANGED <<status, send, sentAt, recall, now>>

Upgrade == client.conn = "away" /\ ClientStep([client EXCEPT !.conn = "upgraded"])

Register == client.conn = "upgraded" /\ ClientStep([client EXCEPT !.conn = "registered"])

(* The client has been told that it is connected, and reads page after     *)
(* page, each from the last message of the page before, until one is short.*)
ReadPage ==
    /\ client.conn # "away" /\ ~client.end
    /\ LET page == Newest(Before(client.cursor))
       IN  ClientStep([client EXCEPT
                !.cursor   = IF page = {} THEN @ ELSE Min(page),
                !.end      = Cardinality(page) < Limit,
                !.paged    = @ \cup page,
                !.known    = @ \cup page,
                !.deleted  = @ \cup Deleted(page),
                !.first    = IF @ = NotYet THEN Rows ELSE @,
                !.covered  = IF client.first = NotYet THEN client.conn = "registered" ELSE @,
                !.repeated = @ \/ client.paged \cap page # {}])

(* The connection ends, and the client starts afresh.                      *)
Disconnect == client.conn # "away" /\ ClientStep(Away)

Tick ==
    /\ now < MaxTime
    /\ \A id \in MsgId : recall[id].pc = "setStatus" => now < recall[id].at + Budget
    /\ now' = now + 1
    /\ UNCHANGED <<status, send, sentAt, recall, client>>

Next ==
    \/ \E id \in MsgId :
        \/ InsertStart(id) \/ InsertEnd(id) \/ Broadcast(id) \/ SendStops(id)
        \/ \E by \in {"sender", "manager"} : RecallAdmit(id, by)
        \/ SetStatus(id) \/ RecallBroadcast(id) \/ RecallStops(id)
    \/ Upgrade \/ Register \/ ReadPage \/ Disconnect
    \/ Tick

Spec == Init /\ [][Next]_vars

-----------------------------------------------------------------------------
(* The variables have their types, and the client knows of no message      *)
(* whose row does not exist, nor of a recall that is not stored.           *)
TypeOK ==
    /\ status \in [MsgId -> {"none", "normal", "deleted"}]
    /\ send \in [MsgId -> SendPC]
    /\ sentAt \in [MsgId -> 0..MaxTime]
    /\ recall \in [MsgId -> Admitted \cup [pc: {"none", "push", "pushed"}]]
    /\ client \in Client /\ now \in 0..MaxTime
    /\ client.known \subseteq Rows /\ client.deleted \subseteq Deleted(Rows)

(* No message comes on two pages, and when a client has read to the end it *)
(* has every message that was there when it began, whatever is inserted,   *)
(* late or in order, between two pages.                                    *)
PagesNeitherSkipNorRepeat ==
    /\ ~client.repeated
    /\ client.end => client.first \subseteq client.paged

(* A client whose connection was registered before its first page was read *)
(* and that has read to the end knows every message whose send has pushed  *)
(* it: one that was not on its page yet was pushed to the connection.      *)
(* (The handshake is answered before Register, so a client cannot tell     *)
(* that it is registered; one that is not may miss a message.)             *)
NothingMissed ==
    client.covered /\ client.end => {id \in MsgId : send[id] = "pushed"} \subseteq client.known

(* Such a client has a recalled copy of every message whose recall has     *)
(* been pushed: SetStatus is executed before the push, and the copy pushed *)
(* says so.                                                                *)
RecallsSeen ==
    client.covered /\ client.end =>
        {id \in MsgId : recall[id].pc = "pushed"} \subseteq client.deleted

(* A sender's recall takes effect no later than Window and the time the    *)
(* handler may run after the message was sent, and one within Window less  *)
(* the second that create_time may have lost is admitted.                  *)
RecallInTime ==
    [][\A id \in MsgId :
          /\ recall[id].pc = "setStatus" /\ recall[id].by = "sender" /\ recall'[id].pc = "push"
                => now <= sentAt[id] + Window + Budget
          /\ id \in Rows /\ now <= sentAt[id] + Window - Second => CanRecall("sender", id)]_vars

=============================================================================
