---------------------------- MODULE RoomActivity ----------------------------
(***************************************************************************)
(* Messaging with a history of which sends overlapped: what the room       *)
(* list's preview and the unread counts have to do with the messages in    *)
(* the table.                                                              *)
(***************************************************************************)
EXTENDS Messaging

VARIABLES
    touched,        \* the messages whose TouchRoom was executed
    openAtInsert,   \* openAtInsert[id]: the messages that were inserted and
                    \*   not past TouchRoom when id was inserted
    bumped,         \* the messages whose BumpUnread was executed
    sinceReset,     \* sinceReset[u]: the messages inserted since u's unread
                    \*   count was last reset
    openAtReset     \* openAtReset[u]: the messages that were inserted and not
                    \*   past BumpUnread at that reset

activity == <<touched, openAtInsert, bumped>>
history == <<activity, sinceReset, openAtReset>>

(* The messages of the sends that are at one of the calls in pcs.          *)
InFlight(pcs) ==
    {req[r].msg : r \in {s \in Req : \E pc \in pcs : At(s, "send", pc)}}

Untouched == InFlight({"broadcast", "touch"})

Unbumped == InFlight({"broadcast", "touch", "resolve", "bump"})

HInit ==
    /\ Init
    /\ touched = {} /\ bumped = {}
    /\ openAtInsert = [id \in MsgId |-> {}]
    /\ sinceReset = [u \in User |-> {}]
    /\ openAtReset = [u \in User |-> {}]

NoteInsert ==
    LET id == Len(message')
    IN  /\ openAtInsert' = [openAtInsert EXCEPT ![id] = Untouched]
        /\ sinceReset' = [u \in User |-> sinceReset[u] \cup {id}]
        /\ UNCHANGED <<touched, bumped, openAtReset>>

NoteReset(u) ==
    /\ sinceReset' = [sinceReset EXCEPT ![u] = {}]
    /\ openAtReset' = [openAtReset EXCEPT ![u] = Unbumped]
    /\ UNCHANGED activity

(* The steps that the history takes note of.                               *)
NotedStep(r) ==
    \/ Insert(r) /\ NoteInsert
    \/ /\ TouchRoom(r)
       /\ touched' = touched \cup {req[r].msg}
       /\ UNCHANGED <<openAtInsert, bumped, sinceReset, openAtReset>>
    \/ /\ BumpUnread(r)
       /\ bumped' = bumped \cup {req[r].msg}
       /\ UNCHANGED <<touched, openAtInsert, sinceReset, openAtReset>>
    \/ ResetUnread(r) /\ NoteReset(req[r].uid)

HNext ==
    \/ \E r \in Req : NotedStep(r) \/ (OtherStep(r) /\ UNCHANGED history)
    \/ \E u \in User : MarkRead(u) /\ NoteReset(u)
    \/ ChangeMembers /\ UNCHANGED history

HSpec == HInit /\ [][HNext]_<<vars, history>>

-----------------------------------------------------------------------------
(* The room list's preview may go back to an older message only if its     *)
(* send overlapped the newer one's: a message whose send was past          *)
(* TouchRoom before the newer one was inserted never covers it, whatever   *)
(* is recalled meanwhile and whatever calls fail.                          *)
PreviewOlderOnlyByOverlap ==
    \A id \in touched : lastMsgId < id => lastMsgId \in openAtInsert[id]

(* The messages among ids that others than u have sent.                    *)
Foreign(ids, u) == {id \in ids : message[id].from # u}

(* Nobody's unread count exceeds the messages others have sent that were   *)
(* inserted since it was last reset, or were still on their way to it      *)
(* then: no message counts twice, a sender's own never counts, and a       *)
(* recall adds nothing.                                                    *)
UnreadNeverOvercounts ==
    \A u \in User : unread[u] <= Cardinality(Foreign(sinceReset[u] \cup openAtReset[u], u))

(* Whoever stays a participant has every message of others counted that    *)
(* was inserted since the last reset and has reached BumpUnread, however   *)
(* old the member lists in use are and whoever else comes and goes.        *)
UnreadNeverUndercounts ==
    kind # "hot" =>
        \A u \in members \cap (IF kind = "friend" THEN User ELSE Stay) :
            unread[u] >= Cardinality(Foreign(sinceReset[u] \cap bumped, u))

=============================================================================
