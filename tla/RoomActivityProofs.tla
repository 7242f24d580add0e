------------------------- MODULE RoomActivityProofs -------------------------
(***************************************************************************)
(* What sending and recalling do to a room's preview and to its unread     *)
(* counts, for any number of users, handlers, messages and faults; then,   *)
(* that GroupRoom implements RoomActivity and MemberCache.                 *)
(***************************************************************************)
EXTENDS GroupRoom, FiniteSetTheorems, SequenceTheorems, TLAPS

Request == Send \cup Recall \cup {Idle}

(* TypeOK, the stores' part of it and the handlers'.                       *)
StoreType ==
    /\ kind \in Kind /\ members \in SUBSET User
    /\ lists \subseteq SUBSET User /\ members \in lists
    /\ message \in Seq(Message) /\ Len(message) <= MaxMsg
    /\ lastMsgId \in 0..Len(message)
    /\ unread \in [User -> Nat]
    /\ faults \in 0..MaxFaults

RequestType ==
    /\ req \in [Req -> Request]
    /\ \A r \in Req : req[r] # Idle => req[r].msg \in {0} \cup DOMAIN message

(* The handler in slot r has inserted its message.                         *)
Posted(r) == req[r] # Idle /\ req[r].op = "send" /\ req[r].pc # "insert"

(* Those who are participants throughout.                                  *)
Lasting == IF kind = "friend" THEN members ELSE Stay

(* They are in every list the room has had.                                *)
ListInv == \A uids \in lists : Lasting \subseteq uids

HistoryType ==
    /\ touched \subseteq DOMAIN message /\ bumped \subseteq DOMAIN message
    /\ openAtInsert \in [MsgId -> SUBSET MsgId]
    /\ sinceReset \in [User -> SUBSET DOMAIN message]
    /\ openAtReset \in [User -> SUBSET DOMAIN message]

(* The messages inserted since u's count was reset, or on their way then.  *)
Due(u) == sinceReset[u] \cup openAtReset[u]

(* What a send knows of its message: until TouchRoom, that every newer     *)
(* message was inserted while it was on its way; until BumpUnread, that it *)
(* is due to everybody and counted for nobody; at BumpUnread, that the     *)
(* list in hand lacks the sender alone of those who stay.                  *)
SendInv(r) ==
    Posted(r) =>
        /\ req[r].msg \in DOMAIN message /\ message[req[r].msg].from = req[r].uid
        /\ req[r].pc \in {"broadcast", "touch"} =>
               \A id \in DOMAIN message : req[r].msg < id => req[r].msg \in openAtInsert[id]
        /\ req[r].pc # "reset" =>
               req[r].msg \notin bumped /\ \A u \in User : req[r].msg \in Due(u)
        /\ req[r].pc = "bump" =>
               req[r].uid \notin req[r].others /\ Lasting \ {req[r].uid} \subseteq req[r].others

Distinct ==
    \A r, s \in Req : Posted(r) /\ Posted(s) /\ req[r].msg = req[s].msg => r = s

(* How many messages among ids others than u have sent, of those counted.  *)
Count(ids, counted, u) == Cardinality(Foreign(ids \cap counted, u))

(* The counts, bounded by the messages that BumpUnread has counted.        *)
CountedFor(ids, u) == Foreign(ids \cap bumped, u)

CountInv ==
    /\ \A u \in User : unread[u] <= Cardinality(CountedFor(Due(u), u))
    /\ \A u \in Lasting : Cardinality(CountedFor(sinceReset[u], u)) <= unread[u]

IInv ==
    /\ TypeOK /\ HistoryType /\ ListInv
    /\ \A r \in Req : SendInv(r)
    /\ Distinct /\ CountInv /\ PreviewOlderOnlyByOverlap

-----------------------------------------------------------------------------
(* Handlers.                                                               *)

LEMMA TypeIs == TypeOK <=> StoreType /\ RequestType
  BY DEF TypeOK, StoreType, RequestType, Request

LEMMA AtSend ==
    ASSUME RequestType, NEW r \in Req, NEW pc, At(r, "send", pc)
    PROVE  req[r] \in Send /\ req[r] # Idle /\ req[r].op = "send" /\ req[r].pc = pc
  BY DEF RequestType, Request, At, Recall

LEMMA AtRecall ==
    ASSUME RequestType, NEW r \in Req, NEW pc, At(r, "recall", pc)
    PROVE  /\ req[r] \in Recall /\ req[r] # Idle /\ req[r].pc = pc
           /\ req[r].msg \in DOMAIN message
  <1>1. req[r] \in Recall /\ req[r] # Idle /\ req[r].pc = pc
    BY DEF RequestType, Request, At, Send
  <1>2. req[r].msg \in MsgId /\ req[r].msg \in {0} \cup DOMAIN message
    BY <1>1 DEF Recall, RequestType
  <1>3. 0 \notin MsgId
    BY DEF MsgId
  <1> QED  BY <1>1, <1>2, <1>3

(* Slot r gets a request that refers to a message in the table, if to any. *)
LEMMA PutRequest ==
    ASSUME RequestType, NEW r \in Req, NEW q \in Request, req' = [req EXCEPT ![r] = q],
           q # Idle => q.msg \in {0} \cup DOMAIN message',
           DOMAIN message \subseteq DOMAIN message'
    PROVE  /\ RequestType'
           /\ req'[r] = q /\ \A s \in Req \ {r} : req'[s] = req[s]
  <1>1. req' \in [Req -> Request]
    BY DEF RequestType
  <1>2. req'[r] = q /\ \A s \in Req \ {r} : req'[s] = req[s]
    BY DEF RequestType
  <1>3. ASSUME NEW s \in Req, req'[s] # Idle PROVE req'[s].msg \in {0} \cup DOMAIN message'
    BY <1>2, <1>3 DEF RequestType
  <1> QED  BY <1>1, <1>2, <1>3 DEF RequestType

(* The lists a handler can be given have those who stay.                   *)
LEMMA ResolveList ==
    ASSUME StoreType, ListInv, NEW uids \in SUBSET User, Resolve(uids)
    PROVE  Lasting \subseteq uids
  BY DEF Resolve, GroupMemberUIDs, FriendUIDs, StoreType, ListInv

-----------------------------------------------------------------------------
(* The steps that leave the preview, the counts and their history alone.   *)

(* q is not a send past its INSERT, or it is r's at its next call.         *)
KeepsOn(r, q) ==
    \/ q = Idle \/ q.op = "recall" \/ q.pc = "insert"
    \/ /\ Posted(r) /\ q.op = "send" /\ q.msg = req[r].msg /\ q.uid = req[r].uid
       /\ q.pc \in {"broadcast", "touch"} => req[r].pc \in {"broadcast", "touch"}
       /\ q.pc # "reset" => req[r].pc # "reset"
       /\ q.pc = "bump" => q.uid \notin q.others /\ Lasting \ {q.uid} \subseteq q.others

MovesOn(r, q) ==
    /\ req' = [req EXCEPT ![r] = q] /\ KeepsOn(r, q)
    /\ q # Idle => q.msg \in {0} \cup DOMAIN message

LEMMA Responds ==
    ASSUME NEW r \in Req, Respond(r)
    PROVE  \E q \in Request : MovesOn(r, q)
  BY DEF Respond, MovesOn, KeepsOn, Request

(* A send past its INSERT that goes on to a later call.                    *)
LEMMA SendGoesOn ==
    ASSUME RequestType, NEW r \in Req, NEW from, At(r, "send", from), from \notin {"insert", "reset"},
           NEW q \in Send, q.msg = req[r].msg, q.uid = req[r].uid,
           req' = [req EXCEPT ![r] = q],
           q.pc \in {"broadcast", "touch"} => from \in {"broadcast", "touch"},
           q.pc = "bump" => q.uid \notin q.others /\ Lasting \ {q.uid} \subseteq q.others
    PROVE  \E p \in Request : MovesOn(r, p)
  <1>1. req[r] \in Send /\ req[r] # Idle /\ req[r].op = "send" /\ req[r].pc = from
    BY AtSend
  <1>2. q.op = "send" /\ q.msg \in {0} \cup DOMAIN message
    BY <1>1 DEF RequestType, Send
  <1>3. KeepsOn(r, q)
    BY <1>1, <1>2 DEF KeepsOn, Posted
  <1> QED  BY <1>2, <1>3 DEF MovesOn, Request

(* It keeps its message and its list at its next call.                     *)
LEMMA SendGoto ==
    ASSUME RequestType, NEW r \in Req, NEW from, At(r, "send", from), from \notin {"insert", "reset"},
           NEW pc \in {"touch", "resolve"}, Goto(r, pc), pc = "touch" => from = "broadcast"
    PROVE  \E q \in Request : MovesOn(r, q)
  <1> DEFINE q == [req[r] EXCEPT !.pc = pc]
  <1>1. req[r] \in Send
    BY AtSend
  <1>2. q \in Send /\ q.msg = req[r].msg /\ q.uid = req[r].uid /\ q.pc = pc
    BY <1>1 DEF Send, SendPC
  <1>3. req' = [req EXCEPT ![r] = q]
    BY DEF Goto
  <1> HIDE DEF q
  <1> QED  BY <1>2, <1>3, SendGoesOn

(* A recall goes on to any of its calls.                                   *)
LEMMA RecallGoto ==
    ASSUME RequestType, NEW r \in Req, NEW from, At(r, "recall", from),
           NEW pc \in RecallPC, Goto(r, pc)
    PROVE  \E q \in Request : MovesOn(r, q)
  <1> DEFINE q == [req[r] EXCEPT !.pc = pc]
  <1>1. req[r] \in Recall /\ req[r].msg \in DOMAIN message
    BY AtRecall
  <1>2. q \in Recall /\ q.msg = req[r].msg /\ q.op = "recall"
    BY <1>1 DEF Recall
  <1>3. req' = [req EXCEPT ![r] = q]
    BY DEF Goto
  <1> HIDE DEF q
  <1> QED  BY <1>1, <1>2, <1>3 DEF MovesOn, KeepsOn, Request

(* The send skips the bump, or has made it: its list is dropped.           *)
LEMMA SendPastBump ==
    ASSUME RequestType, NEW r \in Req, At(r, "send", "bump"),
           req' = [req EXCEPT ![r].pc = "reset", ![r].others = {}]
    PROVE  \E q \in Request : MovesOn(r, q) /\ q.op = "send" /\ q.pc = "reset"
  <1> DEFINE q == [req[r] EXCEPT !.pc = "reset", !.others = {}]
  <1>1. req[r] \in Send /\ req[r] # Idle /\ req[r].op = "send" /\ req[r].pc = "bump"
    BY AtSend
  <1>2. q \in Send /\ q.msg = req[r].msg /\ q.uid = req[r].uid /\ q.pc = "reset" /\ q.op = "send"
    BY <1>1 DEF Send, SendPC
  <1>3. req' = [req EXCEPT ![r] = q]
    OBVIOUS
  <1> HIDE DEF q
  <1>4. q.msg \in {0} \cup DOMAIN message
    BY <1>1, <1>2 DEF RequestType
  <1> QED  BY <1>1, <1>2, <1>3, <1>4 DEF MovesOn, KeepsOn, Request, Posted

(* What the other steps do to the slot that makes them.                    *)
LEMMA OtherRequest ==
    ASSUME StoreType, RequestType, ListInv, NEW r \in Req, OtherStep(r)
    PROVE  \E q \in Request : MovesOn(r, q)
  <1>1. ASSUME NEW u \in User, SendReceive(r, u) PROVE \E q \in Request : MovesOn(r, q)
    <2> DEFINE q == [op |-> "send", pc |-> "insert", uid |-> u, msg |-> 0, others |-> {}]
    <2>1. q \in Request
      BY BoundAssumption DEF Request, Send, SendPC
    <2> QED  BY <1>1, <2>1 DEF SendReceive, Accept, MovesOn, KeepsOn
  <1>2. CASE Broadcast(r)
    BY <1>2, SendGoto DEF Broadcast
  <1>3. CASE ResolveOthers(r)
    <2>1. PICK uids \in SUBSET User :
            /\ Resolve(uids)
            /\ req' = [req EXCEPT ![r].pc = "bump", ![r].others = uids \ {req[r].uid}]
      BY <1>3 DEF ResolveOthers, TakeOthers
    <2>2. At(r, "send", "resolve") /\ req[r] \in Send
      BY <1>3, AtSend DEF ResolveOthers, TakeOthers
    <2> DEFINE q == [req[r] EXCEPT !.pc = "bump", !.others = uids \ {req[r].uid}]
    <2>3. /\ q \in Send /\ q.msg = req[r].msg /\ q.uid = req[r].uid /\ q.pc = "bump"
          /\ q.others = uids \ {req[r].uid}
      BY <2>2 DEF Send, SendPC
    <2>4. req' = [req EXCEPT ![r] = q]
      BY <2>1
    <2> HIDE DEF q
    <2>5. q.uid \notin q.others /\ Lasting \ {q.uid} \subseteq q.others
      BY <2>1, <2>3, ResolveList
    <2> QED  BY <2>2, <2>3, <2>4, <2>5, SendGoesOn
  <1>4. CASE CallFails(r)
    <2>1. CASE At(r, "send", "broadcast") /\ Goto(r, "touch")
      BY <2>1, SendGoto
    <2>2. CASE At(r, "send", "touch") /\ AfterTouch(r)
      BY <2>2, SendGoto, Responds DEF AfterTouch
    <2>3. CASE At(r, "send", "bump") /\ req' = [req EXCEPT ![r].pc = "reset", ![r].others = {}]
      BY <2>3, SendPastBump
    <2> QED  BY <1>4, <2>1, <2>2, <2>3, Responds DEF CallFails
  <1>5. ASSUME NEW id \in MsgId, RecallReceive(r, id) PROVE \E q \in Request : MovesOn(r, q)
    <2> DEFINE q == [op |-> "recall", pc |-> "check", msg |-> id]
    <2>1. q \in Request
      BY DEF Request, Recall, RecallPC
    <2> QED  BY <1>5, <2>1 DEF RecallReceive, Stored, MovesOn, KeepsOn
  <1>6. CASE RecallCheck(r)
    BY <1>6, RecallGoto, Responds DEF RecallCheck, RecallPC
  <1>7. CASE SetStatus(r)
    BY <1>7, RecallGoto DEF SetStatus, RecallPC
  <1>8. CASE RecallBroadcast(r) \/ Abort(r)
    BY <1>8, Responds DEF RecallBroadcast, Abort
  <1> QED  BY <1>1, <1>2, <1>3, <1>4, <1>5, <1>6, <1>7, <1>8
       DEF OtherStep, ListStep, FaultStep, RecallStep

(* Messages neither come nor go, nor change their senders.                 *)
SameSenders ==
    /\ DOMAIN message' = DOMAIN message
    /\ \A id \in DOMAIN message : message'[id].from = message[id].from

LEMMA UpdateStatusKeeps ==
    ASSUME StoreType, NEW id \in DOMAIN message, UpdateStatus(id, "deleted")
    PROVE  message' \in Seq(Message) /\ Len(message') = Len(message) /\ SameSenders
  <1> DEFINE row == [message[id] EXCEPT !.status = "deleted"]
  <1>1. message \in Seq(Message) /\ id \in 1..Len(message)
    BY LenProperties DEF StoreType
  <1>2. message[id] \in Message
    BY <1>1, ElementOfSeq
  <1>3. row \in Message /\ row.from = message[id].from
    BY <1>2 DEF Message
  <1>4. message' = [message EXCEPT ![id] = row]
    BY DEF UpdateStatus
  <1> HIDE DEF row
  <1>5. /\ message' \in Seq(Message) /\ Len(message') = Len(message)
        /\ \A j \in 1..Len(message) : message'[j] = IF j = id THEN row ELSE message[j]
    BY <1>1, <1>3, <1>4, ExceptSeq
  <1>6. DOMAIN message = 1..Len(message) /\ DOMAIN message' = 1..Len(message)
    BY <1>1, <1>5, LenProperties
  <1> QED  BY <1>3, <1>5, <1>6 DEF SameSenders

(* What the other steps, and the room's changes, do to the stores.         *)
QuietStore ==
    /\ StoreType' /\ ListInv' /\ Lasting' = Lasting /\ SameSenders
    /\ UNCHANGED <<lastMsgId, unread>>

LEMMA SameStore ==
    ASSUME StoreType, ListInv, UNCHANGED <<room, message, lastMsgId, unread>>, faults' \in 0..MaxFaults
    PROVE  QuietStore
  BY DEF StoreType, ListInv, Lasting, room, QuietStore, SameSenders

LEMMA OtherStore ==
    ASSUME StoreType, RequestType, ListInv, NEW r \in Req, OtherStep(r)
    PROVE  QuietStore
  <1>1. ASSUME NEW u \in User, SendReceive(r, u) PROVE QuietStore
    BY <1>1, SameStore DEF SendReceive, Accept, StoreType
  <1>2. CASE Broadcast(r)
    BY <1>2, SameStore DEF Broadcast, StoreType
  <1>3. CASE ResolveOthers(r)
    BY <1>3, SameStore DEF ResolveOthers, TakeOthers, StoreType
  <1>4. CASE CallFails(r) \/ Abort(r)
    <2>1. faults' \in 0..MaxFaults
      BY <1>4, BoundAssumption DEF CallFails, Abort, Fault, StoreType
    <2> QED  BY <1>4, <2>1, SameStore DEF CallFails, Abort
  <1>5. ASSUME NEW id \in MsgId, RecallReceive(r, id) PROVE QuietStore
    BY <1>5, SameStore DEF RecallReceive, StoreType
  <1>6. CASE RecallCheck(r)
    BY <1>6, SameStore DEF RecallCheck, StoreType
  <1>7. CASE SetStatus(r)
    <2>1. req[r].msg \in DOMAIN message
      BY <1>7, AtRecall DEF SetStatus
    <2>2. message' \in Seq(Message) /\ Len(message') = Len(message) /\ SameSenders
      BY <1>7, <2>1, UpdateStatusKeeps DEF SetStatus
    <2> QED  BY <1>7, <2>2 DEF SetStatus, StoreType, ListInv, Lasting, room, QuietStore
  <1>8. CASE RecallBroadcast(r)
    BY <1>8, SameStore DEF RecallBroadcast, StoreType
  <1> QED  BY <1>1, <1>2, <1>3, <1>4, <1>5, <1>6, <1>7, <1>8
       DEF OtherStep, ListStep, FaultStep, RecallStep

LEMMA ChangeStore ==
    ASSUME StoreType, ListInv, ChangeMembers
    PROVE  QuietStore /\ UNCHANGED req
  <1>1. PICK u \in User \ Stay :
          members' = IF u \in members THEN members \ {u} ELSE members \cup {u}
    BY DEF ChangeMembers
  <1>2. /\ kind # "friend" /\ lists' = lists \cup {members'}
        /\ UNCHANGED <<kind, message, lastMsgId, unread, req, faults>>
    BY DEF ChangeMembers
  <1>3. Lasting = Stay /\ Lasting' = Stay /\ Stay \subseteq members
    BY <1>2 DEF Lasting, ListInv, StoreType
  <1>4. members' \in SUBSET User /\ Stay \subseteq members'
    BY <1>1, <1>3 DEF StoreType
  <1> QED  BY <1>2, <1>3, <1>4 DEF StoreType, ListInv, QuietStore, SameSenders

-----------------------------------------------------------------------------
(* What is counted.                                                        *)

LEMMA FiniteIds ==
    ASSUME StoreType, NEW ids \in SUBSET DOMAIN message
    PROVE  IsFiniteSet(ids) /\ Cardinality(ids) \in Nat
  <1>1. DOMAIN message = 1..Len(message) /\ Len(message) \in Nat
    BY LenProperties DEF StoreType
  <1>2. IsFiniteSet(DOMAIN message)
    BY <1>1, FS_Interval
  <1> QED  BY <1>2, FS_Subset, FS_CardinalityType

LEMMA DueType ==
    ASSUME HistoryType, NEW u \in User
    PROVE  Due(u) \in SUBSET DOMAIN message /\ sinceReset[u] \in SUBSET DOMAIN message
  BY DEF HistoryType, Due

(* What a set of messages counts for u depends on their senders alone.     *)
LEMMA CountedType ==
    ASSUME StoreType, NEW ids \in SUBSET DOMAIN message, NEW u \in User
    PROVE  /\ CountedFor(ids, u) \in SUBSET DOMAIN message
           /\ Cardinality(CountedFor(ids, u)) \in Nat
  <1>1. CountedFor(ids, u) \in SUBSET DOMAIN message
    BY DEF CountedFor, Foreign
  <1> QED  BY <1>1, FiniteIds

(* One message more adds at most one, and exactly one if it was not among  *)
(* those counted and another has sent it; one's own adds nothing.          *)
LEMMA CountOneMore ==
    ASSUME StoreType, NEW ids \in SUBSET DOMAIN message, NEW counted \in SUBSET DOMAIN message,
           NEW m \in DOMAIN message, NEW u \in User
    PROVE  /\ Count(ids, counted, u) \in Nat /\ Count(ids, counted \cup {m}, u) \in Nat
           /\ Count(ids, counted, u) <= Count(ids, counted \cup {m}, u)
           /\ Count(ids, counted \cup {m}, u) <= Count(ids, counted, u) + 1
           /\ message[m].from = u => Count(ids, counted \cup {m}, u) = Count(ids, counted, u)
           /\ m \in ids /\ m \notin counted /\ message[m].from # u =>
                  Count(ids, counted \cup {m}, u) = Count(ids, counted, u) + 1
  <1> DEFINE Old == Foreign(ids \cap counted, u)
             New == Foreign(ids \cap (counted \cup {m}), u)
  <1>1. IsFiniteSet(Old) /\ Cardinality(Old) \in Nat
    <2>1. Old \in SUBSET DOMAIN message
      BY DEF Foreign
    <2> QED  BY <2>1, FiniteIds
  <1>2. CASE m \notin ids \/ message[m].from = u
    <2>1. New = Old
      BY <1>2 DEF Foreign
    <2>2. message[m].from = u \/ m \notin ids
      BY <1>2
    <2> QED  BY <1>1, <2>1, <2>2 DEF Count
  <1>3. CASE m \in ids /\ message[m].from # u
    <2>1. New = Old \cup {m}
      BY <1>3 DEF Foreign
    <2>2. m \in Old <=> m \in counted
      BY <1>3 DEF Foreign
    <2> HIDE DEF Old, New
    <2>3. Cardinality(New) = IF m \in Old THEN Cardinality(Old) ELSE Cardinality(Old) + 1
      BY <1>1, <2>1, FS_AddElement
    <2> USE DEF Old, New
    <2> QED  BY <1>1, <1>3, <2>2, <2>3 DEF Count
  <1> QED  BY <1>2, <1>3

-----------------------------------------------------------------------------
(* What becomes of the sends past their INSERT.                            *)

(* Such a send was one before, at the same call or at an earlier one.      *)
LEMMA PostedStays ==
    ASSUME RequestType, NEW r \in Req, NEW q \in Request, MovesOn(r, q), NEW s \in Req, Posted(s)'
    PROVE  /\ Posted(s) /\ req'[s].msg = req[s].msg /\ req'[s].uid = req[s].uid
           /\ req'[s].pc \in {"broadcast", "touch"} => req[s].pc \in {"broadcast", "touch"}
           /\ req'[s].pc # "reset" => req[s].pc # "reset"
           /\ req'[s].pc = "bump" =>
                  \/ req'[s] = req[s]
                  \/ /\ req'[s].uid \notin req'[s].others
                     /\ Lasting \ {req'[s].uid} \subseteq req'[s].others
  <1>1. req'[s] = IF s = r THEN q ELSE req[s]
    BY DEF MovesOn, RequestType
  <1>2. CASE s # r
    BY <1>1, <1>2 DEF Posted
  <1>3. CASE s = r
    <2>1. req'[s] = q /\ q # Idle /\ q.op = "send" /\ q.pc # "insert"
      BY <1>1, <1>3 DEF Posted
    <2> QED  BY <1>3, <2>1 DEF MovesOn, KeepsOn
  <1> QED  BY <1>2, <1>3

LEMMA SendsMoveOn ==
    ASSUME RequestType, \A s \in Req : SendInv(s), Distinct,
           NEW r \in Req, NEW q \in Request, MovesOn(r, q),
           SameSenders, Lasting' = Lasting, UNCHANGED openAtInsert,
           \A s \in Req : Posted(s)' /\ req'[s].pc # "reset" =>
               req[s].msg \notin bumped' /\ \A u \in User : req[s].msg \in Due(u)'
    PROVE  RequestType' /\ (\A s \in Req : SendInv(s)') /\ Distinct'
  <1>1. RequestType'
    BY PutRequest DEF MovesOn, SameSenders
  <1>2. Distinct'
    BY PostedStays DEF Distinct
  <1>3. ASSUME NEW s \in Req, Posted(s)' PROVE SendInv(s)'
    <2>1. Posted(s) /\ req'[s].msg = req[s].msg /\ req'[s].uid = req[s].uid
      BY <1>3, PostedStays
    <2>2. req'[s].msg \in DOMAIN message' /\ message'[req'[s].msg].from = req'[s].uid
      BY <2>1 DEF SendInv, SameSenders
    <2>3. req'[s].pc \in {"broadcast", "touch"} =>
            \A id \in DOMAIN message' : req'[s].msg < id => req'[s].msg \in openAtInsert'[id]
      BY <1>3, <2>1, PostedStays DEF SendInv, SameSenders
    <2>4. req'[s].pc = "bump" =>
            req'[s].uid \notin req'[s].others /\ Lasting' \ {req'[s].uid} \subseteq req'[s].others
      BY <1>3, <2>1, PostedStays DEF SendInv
    <2> QED  BY <1>3, <2>1, <2>2, <2>3, <2>4 DEF SendInv
  <1> QED  BY <1>1, <1>2, <1>3 DEF SendInv

-----------------------------------------------------------------------------
(* The steps.                                                              *)

LEMMA InitIInv == HInit => IInv
  <1> SUFFICES ASSUME HInit PROVE IInv
    OBVIOUS
  <1>1. /\ message = <<>> /\ req = [r \in Req |-> Idle] /\ unread = [u \in User |-> 0]
        /\ touched = {} /\ bumped = {} /\ lists = {members}
    BY DEF HInit, Init
  <1>2. Len(message) = 0 /\ message \in Seq(Message) /\ DOMAIN message = {}
    BY <1>1
  <1>3. \A r \in Req : req[r] = Idle
    BY <1>1
  <1>4. TypeOK
    <2>1. members \in SUBSET User /\ kind \in Kind /\ lastMsgId = 0 /\ faults = 0
      BY DEF HInit, Init
    <2> QED  BY <1>1, <1>2, <2>1, BoundAssumption DEF TypeOK
  <1>5. HistoryType
    BY <1>1, <1>2 DEF HInit, HistoryType
  <1>6. ListInv
    BY <1>1 DEF HInit, Init, ListInv, Lasting
  <1>7. CountInv
    <2>1. \A ids, u : CountedFor(ids, u) = {}
      BY <1>1 DEF CountedFor, Foreign
    <2>2. \A u \in User : unread[u] = 0
      BY <1>1
    <2>3. Lasting \subseteq User
      BY <1>4, BoundAssumption DEF Lasting, TypeOK
    <2> QED  BY <2>1, <2>2, <2>3, FS_EmptySet DEF CountInv
  <1> QED  BY <1>1, <1>3, <1>4, <1>5, <1>6, <1>7
           DEF IInv, SendInv, Posted, Distinct, PreviewOlderOnlyByOverlap

(* A quiet step counts nothing and touches nothing.                        *)
LEMMA QuietCounts ==
    ASSUME IInv, QuietStore, UNCHANGED history
    PROVE  HistoryType' /\ CountInv' /\ PreviewOlderOnlyByOverlap'
  <1>1. UNCHANGED <<touched, openAtInsert, bumped, sinceReset, openAtReset, unread, lastMsgId>>
    BY DEF history, activity, QuietStore
  <1>2. HistoryType'
    BY <1>1 DEF IInv, HistoryType, QuietStore, SameSenders
  <1>3. CountInv'
    <2>1. \A u \in User : /\ CountedFor(Due(u), u)' = CountedFor(Due(u), u)
                         /\ CountedFor(sinceReset[u], u)' = CountedFor(sinceReset[u], u)
      <3>1. bumped \subseteq DOMAIN message
        BY DEF IInv, HistoryType
      <3> QED  BY <1>1, <3>1 DEF CountedFor, Foreign, Due, QuietStore, SameSenders
    <2>2. Lasting' = Lasting /\ Lasting \subseteq User
      BY BoundAssumption DEF QuietStore, Lasting, IInv, TypeOK
    <2> QED  BY <1>1, <2>1, <2>2 DEF IInv, CountInv
  <1> QED  BY <1>1, <1>2, <1>3 DEF IInv, PreviewOlderOnlyByOverlap

LEMMA QuietStep ==
    ASSUME IInv, NEW r \in Req, OtherStep(r), UNCHANGED history
    PROVE  IInv'
  <1>1. StoreType /\ RequestType /\ ListInv
    BY TypeIs DEF IInv
  <1>2. QuietStore
    BY <1>1, OtherStore
  <1>3. PICK q \in Request : MovesOn(r, q)
    BY <1>1, OtherRequest
  <1>4. HistoryType' /\ CountInv' /\ PreviewOlderOnlyByOverlap'
    BY <1>2, QuietCounts
  <1>5. ASSUME NEW s \in Req, Posted(s)', req'[s].pc # "reset"
        PROVE  req[s].msg \notin bumped' /\ \A u \in User : req[s].msg \in Due(u)'
    <2>1. Posted(s) /\ req[s].pc # "reset"
      BY <1>1, <1>3, <1>5, PostedStays
    <2>2. SendInv(s)
      BY DEF IInv
    <2> QED  BY <2>1, <2>2 DEF SendInv, Due, history, activity
  <1>6. RequestType' /\ (\A s \in Req : SendInv(s)') /\ Distinct'
    <2>1. (\A s \in Req : SendInv(s)) /\ Distinct
      BY DEF IInv
    <2>2. SameSenders /\ Lasting' = Lasting /\ UNCHANGED openAtInsert
      BY <1>2 DEF QuietStore, history, activity
    <2> QED  BY <1>1, <1>3, <1>5, <2>1, <2>2, SendsMoveOn
  <1>7. TypeOK'
    BY <1>2, <1>6 DEF QuietStore, TypeOK, StoreType, RequestType, Request
  <1> QED  BY <1>2, <1>4, <1>6, <1>7 DEF IInv, QuietStore

LEMMA RoomStep ==
    ASSUME IInv, ChangeMembers, UNCHANGED history
    PROVE  IInv'
  <1>1. StoreType /\ RequestType /\ ListInv
    BY TypeIs DEF IInv
  <1>2. QuietStore /\ UNCHANGED req
    BY <1>1, ChangeStore
  <1>3. HistoryType' /\ CountInv' /\ PreviewOlderOnlyByOverlap'
    BY <1>2, QuietCounts
  <1>4. UNCHANGED <<openAtInsert, bumped, sinceReset, openAtReset>>
    BY DEF history, activity
  <1>5. Distinct' /\ \A s \in Req : SendInv(s)'
    <2>1. Distinct /\ \A s \in Req : SendInv(s)
      BY DEF IInv
    <2>2. SameSenders /\ Lasting' = Lasting
      BY <1>2 DEF QuietStore
    <2> QED  BY <1>2, <1>4, <2>1, <2>2 DEF SendInv, Distinct, Posted, Due, SameSenders
  <1>6. TypeOK'
    <2>1. RequestType'
      BY <1>1, <1>2 DEF RequestType, QuietStore, SameSenders
    <2>2. StoreType'
      BY <1>2 DEF QuietStore
    <2> QED  BY <2>1, <2>2 DEF TypeOK, StoreType, RequestType, Request
  <1> QED  BY <1>2, <1>3, <1>5, <1>6 DEF IInv, QuietStore

(* A message is inserted: it is newer than all, counted for nobody, and    *)
(* due to everybody.                                                       *)
LEMMA InsertStep ==
    ASSUME IInv, NEW r \in Req, Insert(r), NoteInsert
    PROVE  IInv'
  <1> DEFINE id == Len(message) + 1
             q == [req[r] EXCEPT !.pc = "broadcast", !.msg = id]
             row == [from |-> req[r].uid, status |-> "normal"]
  <1>1. StoreType /\ RequestType /\ ListInv
    BY TypeIs DEF IInv
  <1>2. req[r] \in Send /\ req[r].pc = "insert" /\ req[r] # Idle
    BY <1>1, AtSend DEF Insert
  <1>3. row \in Message /\ row.from = req[r].uid
    BY <1>2 DEF Send, Message
  <1>4. message' = Append(message, row) /\ Len(message) < MaxMsg
    BY DEF Insert, InsertMessage
  <1> HIDE DEF row
  <1>5. /\ message' \in Seq(Message) /\ Len(message') = id
        /\ \A n \in 1..Len(message) : message'[n] = message[n]
        /\ message'[id].from = req[r].uid
    BY <1>1, <1>3, <1>4, AppendProperties DEF StoreType
  <1>6. /\ DOMAIN message = 1..Len(message) /\ DOMAIN message' = 1..id
        /\ Len(message) \in Nat /\ id \in MsgId
    <2>1. Len(message) \in Nat /\ DOMAIN message = 1..Len(message)
      BY <1>1, LenProperties DEF StoreType
    <2>2. DOMAIN message' = 1..id
      BY <1>5, LenProperties
    <2> QED  BY <1>4, <2>1, <2>2, BoundAssumption DEF MsgId
  <1>7. /\ q \in Send /\ q.msg = id /\ q.uid = req[r].uid /\ q.pc = "broadcast" /\ q.op = "send"
        /\ req' = [req EXCEPT ![r] = q]
    <2>1. id \in 0..MaxMsg
      BY <1>6 DEF MsgId
    <2> QED  BY <1>2, <2>1 DEF Insert, Send, SendPC
  <1>8. /\ openAtInsert' = [openAtInsert EXCEPT ![id] = Untouched]
        /\ sinceReset' = [u \in User |-> sinceReset[u] \cup {id}]
        /\ UNCHANGED <<touched, bumped, openAtReset, kind, members, lists, lastMsgId, unread, faults>>
    BY <1>5 DEF NoteInsert, Insert, room
  <1> HIDE DEF q, id
  <1>9. id \notin DOMAIN message /\ (\A n \in DOMAIN message : n < id) /\ DOMAIN message' = DOMAIN message \cup {id}
    BY <1>6 DEF id
  <1>10. RequestType' /\ req'[r] = q /\ \A s \in Req \ {r} : req'[s] = req[s]
    BY <1>1, <1>6, <1>7, <1>9, PutRequest DEF Request
  <1>11. ASSUME NEW s \in Req \ {r}, Posted(s)'
         PROVE  Posted(s) /\ req'[s] = req[s] /\ req[s].msg \in DOMAIN message /\ SendInv(s)
    BY <1>10, <1>11 DEF Posted, SendInv, IInv
  <1>12. StoreType'
    <2>1. lastMsgId' \in 0..Len(message')
      BY <1>1, <1>5, <1>6, <1>8 DEF StoreType, id
    <2>2. Len(message') <= MaxMsg
      BY <1>5, <1>6 DEF MsgId
    <2> QED  BY <1>1, <1>5, <1>8, <2>1, <2>2 DEF StoreType
  <1>13. HistoryType'
    <2>1. Untouched \in SUBSET MsgId
      <3>1. ASSUME NEW s \in Req, NEW pc \in {"broadcast", "touch"}, At(s, "send", pc)
            PROVE  req[s].msg \in MsgId
        <4>1. SendInv(s)
          BY DEF IInv
        <4>2. req[s].msg \in DOMAIN message
          BY <3>1, <4>1 DEF SendInv, Posted, At
        <4>3. Len(message) <= MaxMsg
          BY <1>1 DEF StoreType
        <4> QED  BY <1>6, <4>2, <4>3, BoundAssumption DEF MsgId
      <3> QED  BY <3>1 DEF Untouched, InFlight
    <2> QED  BY <1>6, <1>8, <1>9, <2>1 DEF HistoryType, IInv
  <1>14. ListInv'
    BY <1>1, <1>8 DEF ListInv, Lasting
  <1>15. \A s \in Req : SendInv(s)'
    <2>1. SendInv(r)'
      <3>1. id \in DOMAIN message' /\ message'[id].from = req[r].uid
        BY <1>5, <1>9 DEF id
      <3>2. \A n \in DOMAIN message' : ~(id < n)
        BY <1>6, <1>9 DEF MsgId
      <3>3. id \notin bumped' /\ \A u \in User : id \in Due(u)'
        BY <1>8, <1>9 DEF Due, IInv, HistoryType
      <3> QED  BY <1>7, <1>10, <3>1, <3>2, <3>3 DEF SendInv
    <2>2. ASSUME NEW s \in Req \ {r}, Posted(s)' PROVE SendInv(s)'
      <3>1. Posted(s) /\ req'[s] = req[s] /\ req[s].msg \in DOMAIN message /\ SendInv(s)
        BY <1>11, <2>2
      <3>2. req[s].msg \in DOMAIN message' /\ message'[req[s].msg].from = req[s].uid
        BY <1>5, <1>6, <1>9, <3>1 DEF SendInv
      <3>3. req[s].pc \in {"broadcast", "touch"} =>
              \A n \in DOMAIN message' : req[s].msg < n => req[s].msg \in openAtInsert'[n]
        <4>1. req[s].pc \in {"broadcast", "touch"} => req[s].msg \in Untouched
          BY <1>1, <3>1 DEF Untouched, InFlight, At, Posted
        <4>2. /\ openAtInsert'[id] = Untouched
              /\ \A n \in DOMAIN message : openAtInsert'[n] = openAtInsert[n]
          <5>1. openAtInsert \in [MsgId -> SUBSET MsgId]
            BY DEF IInv, HistoryType
          <5>2. DOMAIN message \subseteq MsgId
            BY <1>1, <1>6, BoundAssumption DEF StoreType, MsgId
          <5> QED  BY <1>6, <1>8, <1>9, <5>1, <5>2
        <4> QED  BY <1>9, <3>1, <4>1, <4>2 DEF SendInv
      <3>4. /\ req[s].pc # "reset" =>
                  req[s].msg \notin bumped' /\ \A u \in User : req[s].msg \in Due(u)'
            /\ req[s].pc = "bump" =>
                  req[s].uid \notin req[s].others /\ Lasting' \ {req[s].uid} \subseteq req[s].others
        BY <1>8, <3>1 DEF SendInv, Due, Lasting
      <3> QED  BY <3>1, <3>2, <3>3, <3>4 DEF SendInv
    <2> QED  BY <2>1, <2>2 DEF SendInv
  <1>16. Distinct'
    <2>1. \A s \in Req \ {r} : Posted(s)' => req'[s].msg # id
      BY <1>9, <1>11
    <2>2. req'[r].msg = id
      BY <1>7, <1>10
    <2>3. ASSUME NEW s \in Req \ {r}, NEW t \in Req \ {r}, Posted(s)', Posted(t)',
                 req'[s].msg = req'[t].msg
          PROVE  s = t
      <3>1. Posted(s) /\ Posted(t) /\ req[s].msg = req[t].msg
        BY <1>11, <2>3
      <3> QED  BY <3>1 DEF IInv, Distinct
    <2> QED  BY <2>1, <2>2, <2>3 DEF Distinct
  <1>17. CountInv'
    <2>1. ASSUME NEW u \in User
          PROVE  /\ CountedFor(Due(u), u)' = CountedFor(Due(u), u)
                 /\ CountedFor(sinceReset[u], u)' = CountedFor(sinceReset[u], u)
      <3>1. bumped \subseteq DOMAIN message
        BY DEF IInv, HistoryType
      <3>2. \A n \in bumped : n # id /\ message'[n] = message[n]
        BY <1>5, <1>6, <1>9, <3>1
      <3>3. sinceReset'[u] = sinceReset[u] \cup {id} /\ openAtReset'[u] = openAtReset[u] /\ bumped' = bumped
        BY <1>8
      <3> QED  BY <3>2, <3>3 DEF CountedFor, Foreign, Due
    <2>2. Lasting' = Lasting /\ Lasting \subseteq User
      BY <1>8, BoundAssumption DEF Lasting, IInv, TypeOK
    <2> QED  BY <1>8, <2>1, <2>2 DEF IInv, CountInv
  <1>18. PreviewOlderOnlyByOverlap'
    <2>1. touched \subseteq DOMAIN message /\ openAtInsert \in [MsgId -> SUBSET MsgId]
      BY DEF IInv, HistoryType
    <2>2. \A n \in touched : openAtInsert'[n] = openAtInsert[n]
      <3>1. DOMAIN message \subseteq MsgId
        BY <1>1, <1>6, BoundAssumption DEF StoreType, MsgId
      <3> QED  BY <1>8, <1>9, <2>1, <3>1
    <2> QED  BY <1>8, <2>2 DEF IInv, PreviewOlderOnlyByOverlap
  <1>19. TypeOK'
    BY <1>10, <1>12 DEF TypeOK, StoreType, RequestType, Request
  <1> QED  BY <1>13, <1>14, <1>15, <1>16, <1>17, <1>18, <1>19 DEF IInv

(* TouchRoom: every newer message was inserted while this one was on its   *)
(* way.                                                                    *)
LEMMA TouchStep ==
    ASSUME IInv, NEW r \in Req, TouchRoom(r), touched' = touched \cup {req[r].msg},
           UNCHANGED <<openAtInsert, bumped, sinceReset, openAtReset>>
    PROVE  IInv'
  <1> DEFINE m == req[r].msg
  <1>1. StoreType /\ RequestType /\ ListInv /\ HistoryType /\ SendInv(r)
    BY TypeIs DEF IInv
  <1>2. Posted(r) /\ req[r].pc = "touch"
    BY <1>1, AtSend DEF TouchRoom, Posted
  <1>3. m \in DOMAIN message /\ \A id \in DOMAIN message : m < id => m \in openAtInsert[id]
    BY <1>1, <1>2 DEF SendInv
  <1>4. PICK q \in Request : MovesOn(r, q)
    BY <1>1, SendGoto, Responds DEF TouchRoom, AfterTouch
  <1>5. lastMsgId' = m /\ UNCHANGED <<kind, members, lists, message, unread, faults>>
    BY DEF TouchRoom, SetLastMsg, room
  <1> HIDE DEF m
  <1>6. SameSenders /\ Lasting' = Lasting /\ ListInv'
    BY <1>1, <1>5 DEF SameSenders, Lasting, ListInv
  <1>7. RequestType' /\ (\A s \in Req : SendInv(s)') /\ Distinct'
    <2>1. (\A s \in Req : SendInv(s)) /\ Distinct
      BY DEF IInv
    <2>2. ASSUME NEW s \in Req, Posted(s)', req'[s].pc # "reset"
          PROVE  req[s].msg \notin bumped' /\ \A u \in User : req[s].msg \in Due(u)'
      <3>1. Posted(s) /\ req[s].pc # "reset"
        BY <1>1, <1>4, <2>2, PostedStays
      <3> QED  BY <2>1, <3>1 DEF SendInv, Due
    <2> QED  BY <1>1, <1>4, <1>6, <2>1, <2>2, SendsMoveOn
  <1>8. StoreType'
    <2>1. m \in 0..Len(message)
      BY <1>1, <1>3, LenProperties DEF StoreType
    <2> QED  BY <1>1, <1>5, <2>1 DEF StoreType
  <1>9. HistoryType' /\ CountInv'
    <2>1. HistoryType'
      BY <1>1, <1>3, <1>5 DEF HistoryType, m
    <2>2. CountInv'
      BY <1>5, <1>6 DEF IInv, CountInv, CountedFor, Foreign, Due
    <2> QED  BY <2>1, <2>2
  <1>10. PreviewOlderOnlyByOverlap'
    <2>1. ASSUME NEW id \in touched', m < id PROVE m \in openAtInsert[id]
      <3>1. m \in Nat
        BY <1>1, <1>3, LenProperties DEF StoreType
      <3>2. id # m
        BY <2>1, <3>1
      <3>3. id \in DOMAIN message
        BY <1>1, <3>2 DEF HistoryType, m
      <3> QED  BY <1>3, <2>1, <3>3
    <2> QED  BY <1>5, <2>1 DEF PreviewOlderOnlyByOverlap
  <1>11. TypeOK'
    BY <1>7, <1>8 DEF TypeOK, StoreType, RequestType, Request
  <1> QED  BY <1>6, <1>7, <1>9, <1>10, <1>11 DEF IInv

(* BumpUnread counts its message, due to all and counted for nobody, for   *)
(* others than the sender, and for all of them who stay.                   *)
LEMMA BumpStep ==
    ASSUME IInv, NEW r \in Req, BumpUnread(r), bumped' = bumped \cup {req[r].msg},
           UNCHANGED <<touched, openAtInsert, sinceReset, openAtReset>>
    PROVE  IInv'
  <1> DEFINE m == req[r].msg
             others == req[r].others
  <1>1. StoreType /\ RequestType /\ ListInv /\ HistoryType /\ SendInv(r)
    BY TypeIs DEF IInv
  <1>2. Posted(r) /\ req[r].pc = "bump" /\ req[r] \in Send
    BY <1>1, AtSend DEF BumpUnread, Posted
  <1>3. /\ m \in DOMAIN message /\ message[m].from = req[r].uid
        /\ m \notin bumped /\ \A u \in User : m \in Due(u)
        /\ req[r].uid \notin others /\ Lasting \ {req[r].uid} \subseteq others
    BY <1>1, <1>2 DEF SendInv
  <1>4. PICK q \in Request : MovesOn(r, q) /\ q.op = "send" /\ q.pc = "reset"
    BY <1>1, SendPastBump DEF BumpUnread
  <1>5. /\ unread' = [u \in User |-> IF u \in others THEN unread[u] + 1 ELSE unread[u]]
        /\ UNCHANGED <<kind, members, lists, message, lastMsgId, faults>>
    BY DEF BumpUnread, CountOne, room
  <1>6. SameSenders /\ Lasting' = Lasting /\ ListInv' /\ Lasting \subseteq User
    BY <1>1, <1>5, BoundAssumption DEF SameSenders, Lasting, ListInv, StoreType
  <1>7. RequestType' /\ (\A s \in Req : SendInv(s)') /\ Distinct'
    <2>1. (\A s \in Req : SendInv(s)) /\ Distinct
      BY DEF IInv
    <2>2. ASSUME NEW s \in Req, Posted(s)', req'[s].pc # "reset"
          PROVE  req[s].msg \notin bumped' /\ \A u \in User : req[s].msg \in Due(u)'
      <3>1. Posted(s) /\ req[s].pc # "reset"
        BY <1>1, <1>4, <2>2, PostedStays
      <3>2. req'[r] = q
        BY <1>1, <1>4 DEF MovesOn, RequestType
      <3>3. s # r
        BY <1>4, <2>2, <3>2
      <3>4. req[s].msg # m
        BY <1>2, <2>1, <3>1, <3>3 DEF Distinct
      <3> QED  BY <2>1, <3>1, <3>4 DEF SendInv, Due
    <2> QED  BY <1>1, <1>4, <1>6, <2>1, <2>2, SendsMoveOn
  <1>8. StoreType'
    BY <1>1, <1>5 DEF StoreType
  <1>9. HistoryType'
    BY <1>1, <1>3, <1>5 DEF HistoryType
  <1>10. CountInv'
    <2> DEFINE Old(ids, u) == Count(ids, bumped, u)
               New(ids, u) == Count(ids, bumped \cup {m}, u)
    <2>1. \A u \in User, ids \in SUBSET DOMAIN message :
            /\ Old(ids, u) \in Nat /\ New(ids, u) \in Nat
            /\ Old(ids, u) <= New(ids, u) /\ New(ids, u) <= Old(ids, u) + 1
            /\ message[m].from = u => New(ids, u) = Old(ids, u)
            /\ m \in ids /\ message[m].from # u => New(ids, u) = Old(ids, u) + 1
      <3> SUFFICES ASSUME NEW u \in User, NEW ids \in SUBSET DOMAIN message
                   PROVE  /\ Old(ids, u) \in Nat /\ New(ids, u) \in Nat
                          /\ Old(ids, u) <= New(ids, u) /\ New(ids, u) <= Old(ids, u) + 1
                          /\ message[m].from = u => New(ids, u) = Old(ids, u)
                          /\ m \in ids /\ message[m].from # u => New(ids, u) = Old(ids, u) + 1
        OBVIOUS
      <3>1. bumped \in SUBSET DOMAIN message
        BY <1>1 DEF HistoryType
      <3> HIDE DEF m
      <3> QED  BY <1>1, <1>3, <3>1, CountOneMore
    <2>2. ASSUME NEW u \in User
          PROVE  /\ Cardinality(CountedFor(Due(u), u))' = New(Due(u), u)
                 /\ Cardinality(CountedFor(sinceReset[u], u))' = New(sinceReset[u], u)
      BY <1>5 DEF Count, CountedFor, Foreign, Due
    <2>3. \A u \in User : Due(u) \in SUBSET DOMAIN message /\ sinceReset[u] \in SUBSET DOMAIN message
      BY <1>1, DueType
    <2>4. \A u \in User : /\ unread[u] \in Nat
                         /\ unread'[u] = IF u \in others THEN unread[u] + 1 ELSE unread[u]
      BY <1>1, <1>5 DEF StoreType
    <2>5. /\ \A u \in User : unread[u] <= Old(Due(u), u)
          /\ \A u \in Lasting : Old(sinceReset[u], u) <= unread[u]
      BY DEF IInv, CountInv, Count, CountedFor
    <2> HIDE DEF m, others, Old, New
    <2>6. ASSUME NEW u \in User PROVE unread'[u] <= Cardinality(CountedFor(Due(u), u))'
      <3>1. u \in others => message[m].from # u
        BY <1>3
      <3>2. /\ unread[u] <= Old(Due(u), u) /\ Old(Due(u), u) \in Nat /\ New(Due(u), u) \in Nat
            /\ Old(Due(u), u) <= New(Due(u), u)
            /\ u \in others => New(Due(u), u) = Old(Due(u), u) + 1
        BY <1>3, <2>1, <2>3, <2>5, <3>1
      <3>3. unread'[u] <= New(Due(u), u)
        BY <2>4, <3>2
      <3> QED  BY <2>2, <3>3
    <2>7. ASSUME NEW u \in Lasting PROVE Cardinality(CountedFor(sinceReset[u], u))' <= unread'[u]
      <3>1. u \in User /\ (u \notin others => message[m].from = u)
        BY <1>3, <1>6
      <3>2. /\ Old(sinceReset[u], u) <= unread[u]
            /\ Old(sinceReset[u], u) \in Nat /\ New(sinceReset[u], u) \in Nat
            /\ New(sinceReset[u], u) <= Old(sinceReset[u], u) + 1
            /\ u \notin others => New(sinceReset[u], u) = Old(sinceReset[u], u)
        BY <2>1, <2>3, <2>5, <3>1
      <3>3. New(sinceReset[u], u) <= unread'[u]
        BY <2>4, <3>1, <3>2
      <3> QED  BY <2>2, <3>1, <3>3
    <2> QED  BY <1>6, <2>6, <2>7 DEF CountInv
  <1>11. PreviewOlderOnlyByOverlap'
    BY <1>5 DEF IInv, PreviewOlderOnlyByOverlap
  <1>12. TypeOK'
    BY <1>7, <1>8 DEF TypeOK, StoreType, RequestType, Request
  <1> QED  BY <1>6, <1>7, <1>9, <1>10, <1>11, <1>12 DEF IInv

(* u's count is reset: what is not bumped yet becomes what was open then.  *)
LEMMA ResetCounts ==
    ASSUME IInv, NEW u \in User, ResetCount(u), NoteReset(u),
           UNCHANGED <<kind, members, lists, message, lastMsgId, faults>>
    PROVE  /\ StoreType' /\ ListInv' /\ HistoryType' /\ CountInv' /\ PreviewOlderOnlyByOverlap'
           /\ SameSenders /\ Lasting' = Lasting /\ UNCHANGED openAtInsert
           /\ \A s \in Req : Posted(s) /\ req[s].pc # "reset" =>
                  req[s].msg \notin bumped' /\ \A v \in User : req[s].msg \in Due(v)'
  <1>1. StoreType /\ RequestType /\ ListInv /\ HistoryType /\ \A s \in Req : SendInv(s)
    BY TypeIs DEF IInv
  <1>2. /\ unread' = [unread EXCEPT ![u] = 0]
        /\ sinceReset' = [sinceReset EXCEPT ![u] = {}]
        /\ openAtReset' = [openAtReset EXCEPT ![u] = Unbumped]
        /\ UNCHANGED <<touched, openAtInsert, bumped>>
    BY DEF ResetCount, NoteReset, activity
  <1>3. ASSUME NEW s \in Req, Posted(s), req[s].pc # "reset" PROVE req[s].msg \in Unbumped
    <2>1. req[s].pc \in {"broadcast", "touch", "resolve", "bump"}
      BY <1>1, <1>3 DEF Posted, RequestType, Request, Send, Recall, SendPC
    <2> QED  BY <1>3, <2>1 DEF Posted, Unbumped, InFlight, At
  <1>4. Unbumped \in SUBSET DOMAIN message
    BY <1>1 DEF Unbumped, InFlight, At, SendInv, Posted
  <1>5. ListInv' /\ SameSenders /\ Lasting' = Lasting /\ Lasting \subseteq User
    BY <1>1, BoundAssumption DEF SameSenders, Lasting, ListInv, StoreType
  <1>6. StoreType' /\ HistoryType'
    BY <1>1, <1>2, <1>4 DEF StoreType, HistoryType
  <1>7. ASSUME NEW s \in Req, Posted(s), req[s].pc # "reset"
        PROVE  req[s].msg \notin bumped' /\ \A v \in User : req[s].msg \in Due(v)'
    <2>1. req[s].msg \in Unbumped
      BY <1>3, <1>7
    <2>2. req[s].msg \notin bumped /\ \A v \in User : req[s].msg \in Due(v)
      BY <1>1, <1>7 DEF SendInv
    <2> QED  BY <1>1, <1>2, <2>1, <2>2 DEF Due, HistoryType
  <1>8. CountInv'
    <2>1. ASSUME NEW v \in User \ {u}
          PROVE  /\ unread'[v] = unread[v]
                 /\ CountedFor(Due(v), v)' = CountedFor(Due(v), v)
                 /\ CountedFor(sinceReset[v], v)' = CountedFor(sinceReset[v], v)
      <3>1. unread'[v] = unread[v] /\ sinceReset'[v] = sinceReset[v] /\ openAtReset'[v] = openAtReset[v]
        BY <1>1, <1>2 DEF StoreType, HistoryType
      <3> QED  BY <1>2, <3>1 DEF CountedFor, Foreign, Due
    <2>2. unread'[u] = 0 /\ sinceReset'[u] = {}
      BY <1>1, <1>2 DEF StoreType, HistoryType
    <2>3. unread'[u] <= Cardinality(CountedFor(Due(u), u))'
      <3>1. CountedFor(Due(u), u)' \in SUBSET DOMAIN message
        BY <1>4, <1>1, <1>2, <1>6 DEF CountedFor, Foreign, HistoryType
      <3>2. Cardinality(CountedFor(Due(u), u)') \in Nat
        BY <1>1, <3>1, FiniteIds
      <3> QED  BY <2>2, <3>2
    <2>4. Cardinality(CountedFor(sinceReset[u], u))' = 0
      <3>1. CountedFor(sinceReset[u], u)' = {}
        BY <2>2 DEF CountedFor, Foreign
      <3> QED  BY <3>1, FS_EmptySet
    <2> QED  BY <1>5, <2>1, <2>2, <2>3, <2>4 DEF IInv, CountInv
  <1>9. PreviewOlderOnlyByOverlap'
    BY <1>2 DEF IInv, PreviewOlderOnlyByOverlap
  <1> QED  BY <1>2, <1>5, <1>6, <1>7, <1>8, <1>9

(* The sender's own count, at the end of a send.                           *)
LEMMA ResetStep ==
    ASSUME IInv, NEW r \in Req, ResetUnread(r), NoteReset(req[r].uid)
    PROVE  IInv'
  <1>1. StoreType /\ RequestType /\ ListInv /\ Distinct /\ \A s \in Req : SendInv(s)
    BY TypeIs DEF IInv
  <1>2. req[r].uid \in User
    BY <1>1, AtSend DEF ResetUnread, Send
  <1>3. UNCHANGED <<kind, members, lists, message, lastMsgId, faults>> /\ ResetCount(req[r].uid)
    BY DEF ResetUnread, room
  <1>4. /\ StoreType' /\ ListInv' /\ HistoryType' /\ CountInv' /\ PreviewOlderOnlyByOverlap'
        /\ SameSenders /\ Lasting' = Lasting /\ UNCHANGED openAtInsert
        /\ \A s \in Req : Posted(s) /\ req[s].pc # "reset" =>
               req[s].msg \notin bumped' /\ \A v \in User : req[s].msg \in Due(v)'
    BY <1>2, <1>3, ResetCounts
  <1>5. PICK q \in Request : MovesOn(r, q)
    BY Responds DEF ResetUnread
  <1>6. RequestType' /\ (\A s \in Req : SendInv(s)') /\ Distinct'
    <2>1. \A s \in Req : Posted(s)' /\ req'[s].pc # "reset" =>
            req[s].msg \notin bumped' /\ \A v \in User : req[s].msg \in Due(v)'
      BY <1>1, <1>4, <1>5, PostedStays
    <2> QED  BY <1>1, <1>4, <1>5, <2>1, SendsMoveOn
  <1>7. TypeOK'
    BY <1>4, <1>6 DEF TypeOK, StoreType, RequestType, Request
  <1> QED  BY <1>4, <1>6, <1>7 DEF IInv

LEMMA MarkReadStep ==
    ASSUME IInv, NEW u \in User, MarkRead(u), NoteReset(u)
    PROVE  IInv'
  <1>1. StoreType /\ RequestType /\ Distinct /\ \A s \in Req : SendInv(s)
    BY TypeIs DEF IInv
  <1>2. UNCHANGED <<kind, members, lists, message, lastMsgId, faults, req>> /\ ResetCount(u)
    BY DEF MarkRead, room
  <1>3. /\ StoreType' /\ ListInv' /\ HistoryType' /\ CountInv' /\ PreviewOlderOnlyByOverlap'
        /\ SameSenders /\ Lasting' = Lasting /\ UNCHANGED openAtInsert
        /\ \A s \in Req : Posted(s) /\ req[s].pc # "reset" =>
               req[s].msg \notin bumped' /\ \A v \in User : req[s].msg \in Due(v)'
    BY <1>2, ResetCounts
  <1>4. Distinct' /\ \A s \in Req : SendInv(s)'
    BY <1>1, <1>2, <1>3 DEF SendInv, Distinct, Posted, SameSenders
  <1>5. TypeOK'
    BY <1>1, <1>2, <1>3 DEF TypeOK, StoreType, RequestType, Request
  <1> QED  BY <1>3, <1>4, <1>5 DEF IInv

-----------------------------------------------------------------------------
(* Every step keeps the invariant.                                         *)
LEMMA NextIInv == IInv /\ [HNext]_<<vars, history>> => IInv'
  <1> SUFFICES ASSUME IInv, [HNext]_<<vars, history>> PROVE IInv'
    OBVIOUS
  <1>1. ASSUME NEW r \in Req, Insert(r), NoteInsert PROVE IInv'
    BY <1>1, InsertStep
  <1>2. ASSUME NEW r \in Req, TouchRoom(r), touched' = touched \cup {req[r].msg},
               UNCHANGED <<openAtInsert, bumped, sinceReset, openAtReset>>
        PROVE  IInv'
    BY <1>2, TouchStep
  <1>3. ASSUME NEW r \in Req, BumpUnread(r), bumped' = bumped \cup {req[r].msg},
               UNCHANGED <<touched, openAtInsert, sinceReset, openAtReset>>
        PROVE  IInv'
    BY <1>3, BumpStep
  <1>4. ASSUME NEW r \in Req, ResetUnread(r), NoteReset(req[r].uid) PROVE IInv'
    BY <1>4, ResetStep
  <1>5. ASSUME NEW r \in Req, OtherStep(r), UNCHANGED history PROVE IInv'
    BY <1>5, QuietStep
  <1>6. ASSUME NEW u \in User, MarkRead(u), NoteReset(u) PROVE IInv'
    BY <1>6, MarkReadStep
  <1>7. CASE ChangeMembers /\ UNCHANGED history
    BY <1>7, RoomStep
  <1>8. CASE UNCHANGED <<vars, history>>
    <2>1. StoreType /\ ListInv
      BY TypeIs DEF IInv
    <2>2. QuietStore
      BY <1>8, <2>1, SameStore DEF vars, StoreType
    <2>3. HistoryType' /\ CountInv' /\ PreviewOlderOnlyByOverlap'
      BY <1>8, <2>2, QuietCounts
    <2> QED  BY <1>8, <2>2, <2>3
             DEF vars, room, history, activity, IInv, TypeOK, ListInv, Lasting, SendInv, Distinct, Posted, Due
  <1> QED  BY <1>1, <1>2, <1>3, <1>4, <1>5, <1>6, <1>7, <1>8 DEF HNext, NotedStep

THEOREM SpecIInv == HSpec => []IInv
  BY InitIInv, NextIInv, PTL DEF HSpec

(* The variables have their types: neither the preview, nor a recall, nor  *)
(* a handler refers to a message that is not in the table, for any number  *)
(* of users, handlers, messages and faults.                                *)
THEOREM SpecTypeOK == HSpec => []TypeOK
  <1>1. IInv => TypeOK
    BY DEF IInv
  <1> QED  BY <1>1, SpecIInv, PTL

(* The preview goes back to an older message only if its send overlapped   *)
(* the newer one's.                                                        *)
THEOREM SpecPreviewOlderOnlyByOverlap == HSpec => []PreviewOlderOnlyByOverlap
  <1>1. IInv => PreviewOlderOnlyByOverlap
    BY DEF IInv
  <1> QED  BY <1>1, SpecIInv, PTL

(* No message counts twice, none counts for its sender, and none that was  *)
(* past BumpUnread at a reset counts after it.                             *)
THEOREM SpecUnreadNeverOvercounts == HSpec => []UnreadNeverOvercounts
  <1>1. IInv => UnreadNeverOvercounts
    <2> SUFFICES ASSUME IInv, NEW u \in User
                 PROVE  unread[u] <= Cardinality(Foreign(Due(u), u))
      BY DEF UnreadNeverOvercounts, Due
    <2>1. StoreType /\ HistoryType
      BY TypeIs DEF IInv
    <2>2. Foreign(Due(u), u) \in SUBSET DOMAIN message
      BY <2>1, DueType DEF Foreign
    <2>3. CountedFor(Due(u), u) \in SUBSET Foreign(Due(u), u)
      BY DEF CountedFor, Foreign
    <2>4. Cardinality(CountedFor(Due(u), u)) <= Cardinality(Foreign(Due(u), u))
      BY <2>1, <2>2, <2>3, FiniteIds, FS_Subset
    <2>5. unread[u] <= Cardinality(CountedFor(Due(u), u)) /\ unread[u] \in Nat
      BY <2>1 DEF IInv, CountInv, StoreType
    <2>6. /\ Cardinality(CountedFor(Due(u), u)) \in Nat
          /\ Cardinality(Foreign(Due(u), u)) \in Nat
      BY <2>1, <2>2, DueType, CountedType, FiniteIds
    <2> QED  BY <2>4, <2>5, <2>6
  <1> QED  BY <1>1, SpecIInv, PTL

(* Whoever stays has every message of others counted that has reached      *)
(* BumpUnread since the last reset, however old the lists in use are.      *)
THEOREM SpecUnreadNeverUndercounts == HSpec => []UnreadNeverUndercounts
  <1>1. IInv => UnreadNeverUndercounts
    <2> SUFFICES ASSUME IInv, NEW u \in members \cap (IF kind = "friend" THEN User ELSE Stay)
                 PROVE  unread[u] >= Cardinality(Foreign(sinceReset[u] \cap bumped, u))
      BY DEF UnreadNeverUndercounts
    <2>1. StoreType /\ HistoryType
      BY TypeIs DEF IInv
    <2>2. u \in Lasting /\ u \in User
      BY <2>1 DEF Lasting, StoreType
    <2>3. Cardinality(CountedFor(sinceReset[u], u)) <= unread[u] /\ unread[u] \in Nat
      BY <2>1, <2>2 DEF IInv, CountInv, StoreType
    <2>4. Cardinality(CountedFor(sinceReset[u], u)) \in Nat
      BY <2>1, <2>2, DueType, CountedType
    <2> QED  BY <2>3, <2>4 DEF CountedFor
  <1> QED  BY <1>1, SpecIInv, PTL

-----------------------------------------------------------------------------
(* GroupRoom: its cache is that of MemberCache.                            *)

(* A step of the room touches the cache by ending the handler's call, or   *)
(* not at all.                                                             *)
LEMMA CacheStep == [RNext]_<<vars, history, cacheVars>> => [Cache!Next]_(Cache!vars)
  <1> SUFFICES ASSUME [RNext]_<<vars, history, cacheVars>>
               PROVE  Cache!Next \/ UNCHANGED Cache!vars
    OBVIOUS
  <1>1. ASSUME NEW r \in Req, Cache!Read(r) PROVE Cache!Next
    BY <1>1 DEF Cache!Next
  <1>2. ASSUME NEW r \in Req, Cache!Finish(r) PROVE Cache!Next
    BY <1>1, <1>2 DEF Cache!Read
  <1>3. ASSUME UNCHANGED room, UNCHANGED cacheVars PROVE UNCHANGED Cache!vars
    BY <1>3 DEF room, cacheVars, Cache!vars
  <1>4. ASSUME NEW r \in Req, HandlerStep(r) PROVE Cache!Next \/ UNCHANGED Cache!vars
    <2>1. CASE Ask(r) \/ Fetch(r)
      BY <1>1, <2>1 DEF Ask, Fetch, Cache!Read
    <2>2. CASE UseList(r) \/ Refuse(r)
      BY <1>2, <2>2 DEF UseList, Refuse
    <2>3. CASE Fail(r)
      BY <1>2, <1>3, <2>3
         DEF Fail, FaultStep, CallFails, Abort, room
    <2>4. CASE Work(r)
      BY <1>3, <2>4
         DEF Work, NotedStep, Insert, TouchRoom, BumpUnread, ResetUnread, RecallStep,
             RecallReceive, RecallCheck, SetStatus
    <2> QED  BY <1>4, <2>1, <2>2, <2>3, <2>4 DEF HandlerStep
  <1>5. ASSUME NEW u \in User, MarkRead(u), UNCHANGED cacheVars PROVE UNCHANGED Cache!vars
    BY <1>3, <1>5 DEF MarkRead
  <1>6. ASSUME NEW w \in Writer, MemberChange(w) PROVE Cache!Next
    BY <1>6 DEF MemberChange, Cache!Next
  <1>7. CASE Cache!Tick
    BY <1>7 DEF Cache!Next
  <1>8. CASE UNCHANGED <<vars, history, cacheVars>>
    BY <1>3, <1>8 DEF vars
  <1> QED  BY <1>4, <1>5, <1>6, <1>7, <1>8 DEF RNext

(* A group's room with its cache is one of MemberCache's.                  *)
THEOREM SpecCache == RSpec => Cache!Spec
  <1>1. RInit => Cache!Init
    BY DEF RInit
  <1> QED  BY <1>1, CacheStep, PTL DEF RSpec, Cache!Spec

(* What is proved of MemberCache, in which nobody calls here.              *)
Proved == INSTANCE MemberCacheProofs WITH
    Reader   <- Req,
    CallReq  <- {},
    GrantTTL <- 0,
    call     <- <<>>,
    grant    <- [u \in User |-> 0]

LEMMA SameCache == Cache!Spec => Proved!Spec
  <1>1. Cache!Init => Proved!Init
    BY DEF Cache!Init, Proved!Init, Cache!NoEntry, Proved!NoEntry, Cache!Idle, Proved!Idle,
           Cache!Never, Proved!Never, Cache!MaxAge, Proved!MaxAge
  <1>2. Cache!Next => Proved!Next
    <2>1. ASSUME NEW w \in Writer, Cache!Change(w) PROVE Proved!Change(w)
      BY <2>1
         DEF Cache!Change, Proved!Change, Cache!AddMember, Proved!AddMember,
             Cache!RemoveMember, Proved!RemoveMember, Cache!RemoveNobody,
             Proved!RemoveNobody, Cache!InvalidateCache, Proved!InvalidateCache,
             Cache!InvalidateLost, Proved!InvalidateLost, Cache!Invalidate,
             Proved!Invalidate, Cache!NoEntry, Proved!NoEntry, Cache!Race, Proved!Race
    <2>2. ASSUME NEW r \in Req, Cache!Read(r) PROVE Proved!Read(r)
      BY <2>2
         DEF Cache!Read, Proved!Read, Cache!Start, Proved!Start, Cache!GetHit,
             Proved!GetHit, Cache!GetMiss, Proved!GetMiss, Cache!ListMembers,
             Proved!ListMembers, Cache!SetCache, Proved!SetCache, Cache!SetFails,
             Proved!SetFails, Cache!Finish, Proved!Finish, Cache!Proceed,
             Proved!Proceed, Cache!Set, Proved!Set, Cache!Cached, Proved!Cached,
             Cache!NoEntry, Proved!NoEntry, Cache!Idle, Proved!Idle, Cache!Never,
             Proved!Never, Cache!MaxAge, Proved!MaxAge
    <2>3. Cache!Tick => Proved!Tick
      BY DEF Cache!Tick, Proved!Tick, Cache!Idle, Proved!Idle
    <2> QED  BY <2>1, <2>2, <2>3 DEF Cache!Next, Proved!Next
  <1> QED  BY <1>1, <1>2, PTL DEF Cache!Spec, Proved!Spec, Cache!vars, Proved!vars

LEMMA CacheInvariants == RSpec => [](Cache!TypeOK /\ Cache!StalenessBounded)
  <1>1. Proved!Spec => []Proved!TypeOK
    BY Proved!SpecTypeOK, TimeAssumption, FaultsAssumption
  <1>2. Proved!Spec => []Proved!StalenessBounded
    BY Proved!SpecStalenessBounded, TimeAssumption, FaultsAssumption
  <1>3. Proved!TypeOK => Cache!TypeOK
    BY DEF Cache!TypeOK, Proved!TypeOK, Cache!Entry, Proved!Entry, Cache!NoEntry,
           Proved!NoEntry, Cache!Call, Proved!Call, Cache!Idle, Proved!Idle, Cache!Time,
           Proved!Time, Cache!Never, Proved!Never, Cache!MaxAge, Proved!MaxAge
  <1>4. Proved!StalenessBounded => Cache!StalenessBounded
    BY DEF Cache!StalenessBounded, Proved!StalenessBounded, Cache!MaxAge, Proved!MaxAge,
           Cache!WrongFor, Proved!WrongFor
  <1> QED  BY <1>1, <1>2, <1>3, <1>4, SpecCache, SameCache, PTL

-----------------------------------------------------------------------------
(* GroupRoom: every list on its way is one that the room has had.          *)

HeldInv ==
    /\ kind = "group" /\ members \in lists /\ Stay \subseteq members
    /\ entry # Cache!NoEntry => entry.uids \in lists
    /\ \A r \in Req : reader[r].pc \in {"set", "done"} => reader[r].uids \in lists

LEMMA InitHeldInv == RInit => HeldInv
  BY DEF RInit, HInit, Init, HeldInv, Cache!Init, Cache!Idle, Cache!NoEntry

(* The calls of groupMemberUIDs pass on what they were given, or list the  *)
(* table.                                                                  *)
LEMMA ReadKeepsHeld ==
    ASSUME Cache!TypeOK, HeldInv, NEW r \in Req, Cache!Read(r), UNCHANGED <<kind, lists>>
    PROVE  HeldInv'
  <1>1. UNCHANGED members /\ \A s \in Req \ {r} : reader'[s] = reader[s]
    BY DEF Cache!Read, Cache!Start, Cache!GetHit, Cache!GetMiss, Cache!ListMembers,
           Cache!SetCache, Cache!SetFails, Cache!Finish, Cache!Proceed, Cache!TypeOK
  <1>2. /\ entry' # Cache!NoEntry => entry'.uids \in lists
        /\ reader'[r].pc \in {"set", "done"} => reader'[r].uids \in lists
    <2>1. reader \in [Req -> Cache!Call \cup {Cache!Idle}]
      BY DEF Cache!TypeOK
    <2>2. CASE Cache!Start(r) \/ Cache!GetMiss(r) \/ Cache!Finish(r)
      BY <2>1, <2>2
         DEF Cache!Start, Cache!GetMiss, Cache!Finish, Cache!Proceed, Cache!Idle, Cache!Call,
             HeldInv
    <2>3. CASE Cache!GetHit(r)
      BY <2>1, <2>3 DEF Cache!GetHit, Cache!Cached, Cache!Proceed, Cache!Call, Cache!Idle, HeldInv
    <2>4. CASE Cache!ListMembers(r)
      BY <2>1, <2>4 DEF Cache!ListMembers, Cache!Proceed, Cache!Call, Cache!Idle, HeldInv
    <2>5. CASE Cache!SetCache(r) \/ Cache!SetFails(r)
      BY <2>1, <2>5
         DEF Cache!SetCache, Cache!SetFails, Cache!Set, Cache!Proceed, Cache!Call, Cache!Idle,
             HeldInv
    <2> QED  BY <2>2, <2>3, <2>4, <2>5 DEF Cache!Read
  <1> QED  BY <1>1, <1>2 DEF HeldInv

(* A change adds to the lists, and leaves those on their way alone.        *)
LEMMA ChangeKeepsHeld ==
    ASSUME Cache!TypeOK, HeldInv, NEW w \in Writer, MemberChange(w)
    PROVE  HeldInv'
  <1>1. Cache!Change(w) /\ Stay \subseteq members' /\ lists' = lists \cup {members'}
    BY DEF MemberChange
  <1>2. \A r \in Req : reader'[r].pc = reader[r].pc /\ reader'[r].uids = reader[r].uids
    <2>1. CASE UNCHANGED reader
      BY <2>1
    <2>2. CASE Cache!Race
      <3> SUFFICES ASSUME NEW r \in Req
                   PROVE  reader'[r].pc = reader[r].pc /\ reader'[r].uids = reader[r].uids
        OBVIOUS
      <3>1. reader'[r] = IF reader[r].pc = "set" THEN [reader[r] EXCEPT !.raced = TRUE]
                                                 ELSE reader[r]
        BY <2>2 DEF Cache!Race
      <3>2. reader[r].pc = "set" => reader[r] \in Cache!Call
        BY DEF Cache!TypeOK, Cache!Idle
      <3> QED  BY <3>1, <3>2 DEF Cache!Call
    <2> QED  BY <1>1, <2>1, <2>2
             DEF Cache!Change, Cache!AddMember, Cache!RemoveMember, Cache!RemoveNobody,
                 Cache!InvalidateCache, Cache!InvalidateLost
  <1>3. entry' # Cache!NoEntry => entry # Cache!NoEntry /\ entry'.uids = entry.uids
    BY <1>1
       DEF Cache!Change, Cache!AddMember, Cache!RemoveMember, Cache!RemoveNobody,
           Cache!InvalidateCache, Cache!Invalidate, Cache!InvalidateLost, Cache!TypeOK,
           Cache!Entry
  <1> QED  BY <1>1, <1>2, <1>3 DEF HeldInv, MemberChange

(* The messages' part of the steps that do not touch the lists.            *)
LEMMA RoomStays ==
    ASSUME NEW r \in Req, NotedStep(r) \/ OtherStep(r)
    PROVE  UNCHANGED <<kind, members, lists>>
  BY DEF NotedStep, Insert, TouchRoom, BumpUnread, ResetUnread, OtherStep, ListStep, FaultStep,
         RecallStep, SendReceive, Accept, Broadcast, ResolveOthers, TakeOthers, RecallBroadcast,
         CallFails, Abort, RecallReceive, RecallCheck, SetStatus, room

(* A list brought back is one that Messaging allows.                       *)
LEMMA UseListMaps ==
    ASSUME Cache!TypeOK, HeldInv, NEW r \in Req, UseList(r)
    PROVE  OtherStep(r) /\ UNCHANGED history /\ Cache!Read(r)
  <1> DEFINE uids == reader[r].uids
  <1>1. reader[r].pc = "done" /\ Cache!Finish(r) /\ UNCHANGED history
    BY DEF UseList
  <1>2. uids \in SUBSET User
    BY <1>1 DEF Cache!TypeOK, Cache!Call, Cache!Idle
  <1>3. Resolve(uids)
    BY <1>1 DEF HeldInv, Resolve, GroupMemberUIDs
  <1>4. ASSUME NEW u \in User, Contains(uids, u), Accept(r, u) PROVE ListStep(r)
    BY <1>2, <1>3, <1>4 DEF ListStep, SendReceive, CanPost
  <1>5. ASSUME TakeOthers(r, uids) PROVE ListStep(r)
    BY <1>2, <1>3, <1>5 DEF ListStep, ResolveOthers
  <1>6. ListStep(r)
    BY <1>4, <1>5 DEF UseList, ListStep
  <1> QED  BY <1>1, <1>6 DEF OtherStep, Cache!Read

(* A handler's step is one of RoomActivity or leaves its variables alone.  *)
LEMMA HandlerMaps ==
    ASSUME Cache!TypeOK, HeldInv, NEW r \in Req, HandlerStep(r)
    PROVE  /\ HNext \/ UNCHANGED <<vars, history>>
           /\ UNCHANGED <<kind, members, lists>>
           /\ Cache!Read(r) \/ UNCHANGED cacheVars
  <1>1. CASE (Ask(r) \/ Fetch(r)) /\ UNCHANGED <<vars, history>>
    BY <1>1 DEF Ask, Fetch, Cache!Read, vars, room
  <1>2. CASE UseList(r)
    BY <1>2, UseListMaps, RoomStays DEF HNext
  <1>3. CASE Refuse(r)
    BY <1>3 DEF Refuse, Cache!Read, vars, room
  <1>4. CASE Fail(r)
    <2>1. OtherStep(r) /\ UNCHANGED history
      BY <1>4 DEF Fail, OtherStep
    <2>2. Cache!Read(r) \/ UNCHANGED cacheVars
      BY <1>4 DEF Fail, Cache!Read
    <2> QED  BY <2>1, <2>2, RoomStays DEF HNext
  <1>5. CASE Work(r)
    <2>1. NotedStep(r) \/ (OtherStep(r) /\ UNCHANGED history)
      BY <1>5 DEF Work, OtherStep
    <2>2. UNCHANGED cacheVars
      BY <1>5 DEF Work
    <2> QED  BY <2>1, <2>2, RoomStays DEF HNext
  <1> QED  BY <1>1, <1>2, <1>3, <1>4, <1>5 DEF HandlerStep

(* A change of the table is one of a user who does not stay; a change that *)
(* finds nothing to do, and an invalidation, are no step of the room.      *)
LEMMA MemberChangeMaps ==
    ASSUME HeldInv, NEW w \in Writer, MemberChange(w)
    PROVE  HNext \/ UNCHANGED <<vars, history>>
  <1>1. /\ Cache!Change(w) /\ Stay \subseteq members' /\ lists' = lists \cup {members'}
        /\ UNCHANGED <<kind, message, lastMsgId, unread, faults, req, history>>
    BY DEF MemberChange
  <1>2. CASE UNCHANGED members
    BY <1>1, <1>2 DEF HeldInv, vars, room
  <1>3. ASSUME NEW u \in User, Cache!AddMember(w, u) PROVE ChangeMembers
    <2>1. u \notin members /\ members' = members \cup {u}
      BY <1>3 DEF Cache!AddMember
    <2>2. u \in User \ Stay
      BY <2>1 DEF HeldInv
    <2> QED  BY <1>1, <2>1, <2>2 DEF ChangeMembers, HeldInv
  <1>4. ASSUME NEW u \in User, Cache!RemoveMember(w, u) PROVE ChangeMembers
    <2>1. u \in members /\ members' = members \ {u}
      BY <1>4 DEF Cache!RemoveMember
    <2>2. u \in User \ Stay
      BY <1>1, <2>1
    <2> QED  BY <1>1, <2>1, <2>2 DEF ChangeMembers, HeldInv
  <1>5. UNCHANGED members \/ ChangeMembers
    BY <1>1, <1>3, <1>4
       DEF Cache!Change, Cache!RemoveNobody, Cache!InvalidateCache, Cache!InvalidateLost
  <1> QED  BY <1>1, <1>2, <1>5 DEF HNext

(* HeldInv is kept, and with it every step is one of RoomActivity or a     *)
(* stutter.                                                                *)
LEMMA RoomMaps ==
    Cache!TypeOK /\ HeldInv /\ [RNext]_<<vars, history, cacheVars>> =>
        HeldInv' /\ [HNext]_<<vars, history>>
  <1> SUFFICES ASSUME Cache!TypeOK, HeldInv, [RNext]_<<vars, history, cacheVars>>
               PROVE  HeldInv' /\ (HNext \/ UNCHANGED <<vars, history>>)
    OBVIOUS
  <1>1. ASSUME UNCHANGED <<kind, members, lists>>, UNCHANGED <<entry, reader>> PROVE HeldInv'
    BY <1>1 DEF HeldInv
  <1>2. ASSUME NEW r \in Req, HandlerStep(r)
        PROVE  HeldInv' /\ (HNext \/ UNCHANGED <<vars, history>>)
    BY <1>1, <1>2, HandlerMaps, ReadKeepsHeld DEF cacheVars
  <1>3. ASSUME NEW u \in User, MarkRead(u), NoteReset(u), UNCHANGED cacheVars
        PROVE  HeldInv' /\ HNext
    BY <1>1, <1>3 DEF MarkRead, room, cacheVars, HNext
  <1>4. ASSUME NEW w \in Writer, MemberChange(w)
        PROVE  HeldInv' /\ (HNext \/ UNCHANGED <<vars, history>>)
    BY <1>4, MemberChangeMaps, ChangeKeepsHeld
  <1>5. CASE Cache!Tick /\ UNCHANGED <<vars, history>>
    BY <1>1, <1>5 DEF Cache!Tick, vars, room
  <1>6. CASE UNCHANGED <<vars, history, cacheVars>>
    BY <1>1, <1>6 DEF vars, room, cacheVars
  <1> QED  BY <1>2, <1>3, <1>4, <1>5, <1>6 DEF RNext

LEMMA SpecHeldInv == RSpec => []HeldInv
  BY InitHeldInv, RoomMaps, CacheInvariants, PTL DEF RSpec

(* A group's room with the real cache of its member lists does nothing     *)
(* that RoomActivity, in which any list the room has had may be used, does *)
(* not, for any number of users, handlers, changes and messages.           *)
THEOREM SpecImplementsRoomActivity == RSpec => ImplementsRoomActivity
  <1>1. RInit => HInit
    BY DEF RInit
  <1> QED  BY <1>1, RoomMaps, SpecHeldInv, CacheInvariants, PTL
           DEF RSpec, ImplementsRoomActivity, HSpec

(* So the unread counts and the preview are as good beside the real cache. *)
THEOREM SpecRoomBesideCache ==
    RSpec => [](PreviewOlderOnlyByOverlap /\ UnreadNeverOvercounts /\ UnreadNeverUndercounts)
  BY SpecImplementsRoomActivity, SpecPreviewOlderOnlyByOverlap, SpecUnreadNeverOvercounts,
     SpecUnreadNeverUndercounts, PTL
     DEF ImplementsRoomActivity

-----------------------------------------------------------------------------
(* GroupRoom: what the age of a list means for who posts and who is        *)
(* counted.                                                                *)

(* Only a list in hand starts a send, or gives one its recipients.         *)
LEMMA ListInHand ==
    ASSUME [RNext]_<<vars, history, cacheVars>>, NEW r \in Req, req'[r] # req[r],
           \/ req[r] = Idle /\ req'[r].op = "send"
           \/ At(r, "send", "resolve") /\ req'[r].pc = "bump",
           RequestType
    PROVE  /\ reader[r].pc = "done"
           /\ \/ \E u \in User : Contains(reader[r].uids, u) /\ Accept(r, u)
              \/ TakeOthers(r, reader[r].uids)
  <1>1. ASSUME NEW s \in Req, HandlerStep(s), s # r PROVE req'[r] = req[r]
    BY <1>1
       DEF HandlerStep, UseList, Refuse, Fail, Work, FaultStep, CallFails, Abort, NotedStep,
           Insert, TouchRoom, AfterTouch, BumpUnread, ResetUnread, RecallStep, RecallReceive,
           RecallCheck, SetStatus, Accept, Broadcast, RecallBroadcast, TakeOthers, Goto,
           Respond, vars, RequestType
  <1>2. HandlerStep(r)
    <2>1. ASSUME UNCHANGED req PROVE FALSE
      BY <2>1
    <2>2. ASSUME NEW s \in Req, HandlerStep(s) PROVE HandlerStep(r)
      BY <1>1, <2>2
    <2> QED  BY <2>1, <2>2 DEF RNext, MarkRead, MemberChange, vars
  <1>3. req'[r] # Idle
    BY DEF Idle, At
  <1>4. CASE (Ask(r) \/ Fetch(r)) /\ UNCHANGED <<vars, history>>
    BY <1>4 DEF vars
  <1>5. CASE Refuse(r)
    BY <1>5 DEF Refuse, vars
  <1>6. ASSUME Respond(r) PROVE FALSE
    BY <1>3, <1>6 DEF Respond, RequestType
  <1>7. CASE Fail(r)
    BY <1>6, <1>7
       DEF Fail, FaultStep, CallFails, Abort, AfterTouch, Goto, At, RequestType, Idle
  <1>8. CASE Work(r)
    BY <1>6, <1>8
       DEF Work, NotedStep, Insert, TouchRoom, AfterTouch, BumpUnread, ResetUnread, RecallStep,
           RecallReceive, RecallCheck, SetStatus, Goto, At, RequestType, Idle
  <1>9. CASE UseList(r)
    BY <1>6, <1>9 DEF UseList, Broadcast, RecallBroadcast, Goto, At, RequestType, Idle
  <1> QED  BY <1>2, <1>4, <1>5, <1>7, <1>8, <1>9 DEF HandlerStep

LEMMA RequestTypes == RSpec => []RequestType
  <1>1. TypeOK => RequestType
    BY TypeIs
  <1> QED  BY <1>1, SpecImplementsRoomActivity, SpecTypeOK, PTL DEF ImplementsRoomActivity

(* Someone who is not a member begins to send only within MaxAge of        *)
(* leaving, for any number of users, handlers and changes, any lifetime of *)
(* a list and any time a handler may take.                                 *)
THEOREM SpecPostingBounded == RSpec => PostingBounded
  <1> DEFINE Bounded(r) ==
        req[r] = Idle /\ At(r, "send", "insert")' =>
            req'[r].uid \in members \/ now < changedAt[req'[r].uid] + Cache!MaxAge
  <1>1. ASSUME RequestType, Cache!StalenessBounded, [RNext]_<<vars, history, cacheVars>>,
               NEW r \in Req, req[r] = Idle, At(r, "send", "insert")'
        PROVE  req'[r].uid \in members \/ now < changedAt[req'[r].uid] + Cache!MaxAge
    <2>1. req'[r] # req[r] /\ req'[r].op = "send" /\ ~At(r, "send", "resolve")
      BY <1>1 DEF At
    <2>2. reader[r].pc = "done" /\ ~TakeOthers(r, reader[r].uids)
      BY <1>1, <2>1, ListInHand DEF TakeOthers
    <2>3. PICK u \in User : Contains(reader[r].uids, u) /\ Accept(r, u)
      BY <1>1, <2>1, <2>2, ListInHand
    <2>4. req'[r].uid = u
      BY <1>1, <2>3 DEF Accept, RequestType
    <2> QED  BY <1>1, <2>2, <2>3, <2>4 DEF Contains, Cache!StalenessBounded, Cache!WrongFor
  <1>2. RequestType /\ Cache!StalenessBounded /\ [RNext]_<<vars, history, cacheVars>> =>
            [\A r \in Req : Bounded(r)]_req
    BY <1>1
  <1> QED  BY <1>2, RequestTypes, CacheInvariants, PTL DEF RSpec, PostingBounded

(* A message is counted for whoever is a member when its recipients are    *)
(* looked up, and for nobody else, but for those who came or went within   *)
(* MaxAge.                                                                 *)
THEOREM SpecCountingBounded == RSpec => CountingBounded
  <1> DEFINE Bounded(r, u) ==
        /\ At(r, "send", "resolve") /\ At(r, "send", "bump")' /\ u # req[r].uid
        /\ Cache!WrongFor(u, req'[r].others)
        => now < changedAt[u] + Cache!MaxAge
  <1>1. ASSUME RequestType, Cache!StalenessBounded, [RNext]_<<vars, history, cacheVars>>,
               NEW r \in Req, NEW u \in User,
               At(r, "send", "resolve"), At(r, "send", "bump")', u # req[r].uid,
               Cache!WrongFor(u, req'[r].others)
        PROVE  now < changedAt[u] + Cache!MaxAge
    <2>1. req'[r] # req[r] /\ req'[r].pc = "bump" /\ req[r] # Idle
      BY <1>1 DEF At
    <2>2. reader[r].pc = "done" /\ TakeOthers(r, reader[r].uids)
      BY <1>1, <2>1, ListInHand DEF Accept
    <2>3. req'[r].others = reader[r].uids \ {req[r].uid}
      <3>1. req[r] \in Send
        BY <1>1, AtSend
      <3> DEFINE q == [req[r] EXCEPT !.pc = "bump", !.others = reader[r].uids \ {req[r].uid}]
      <3>2. q.others = reader[r].uids \ {req[r].uid}
        BY <3>1 DEF Send
      <3>3. req' = [req EXCEPT ![r] = q]
        BY <2>2 DEF TakeOthers
      <3> HIDE DEF q
      <3> QED  BY <1>1, <3>2, <3>3 DEF RequestType
    <2>4. Cache!WrongFor(u, reader[r].uids)
      BY <1>1, <2>3 DEF Cache!WrongFor
    <2> QED  BY <1>1, <2>2, <2>4 DEF Cache!StalenessBounded
  <1>2. RequestType /\ Cache!StalenessBounded /\ [RNext]_<<vars, history, cacheVars>> =>
            [\A r \in Req, u \in User : Bounded(r, u)]_req
    BY <1>1
  <1> QED  BY <1>2, RequestTypes, CacheInvariants, PTL DEF RSpec, CountingBounded

=============================================================================
