----------------------------- MODULE FriendRooms -----------------------------
(***************************************************************************)
(* One-to-one rooms: createFriendRoom and GetOrCreateFriendRoom.  The      *)
(* lookup of the pair's room and the transaction that creates it are       *)
(* separate, and no unique key of room_friend stops a second row for the   *)
(* same pair.                                                              *)
(***************************************************************************)
EXTENDS Integers, FiniteSets

CONSTANTS
    User,       \* uids, which are numbers
    Req,        \* slots for concurrently running handlers
    MaxRoom     \* bound on the ids room's AUTO_INCREMENT hands out

ASSUME UserAssumption == User \subseteq Nat

ASSUME BoundAssumption == MaxRoom \in Nat

VARIABLES
    room,       \* the ids of the committed rows of room
    friend,     \* the committed rows of room_friend
    nextId,     \* room's AUTO_INCREMENT
    req         \* req[r]: the handler running in slot r

vars == <<room, friend, nextId, req>>

RoomId == 1..MaxRoom

Row == [room : RoomId, uid1 : User, uid2 : User]

(* uid is the caller and peer the uid in the body; uid1 and uid2 are the   *)
(* pair as GetOrCreateFriendRoom stores it; id is the room created, or the *)
(* answer, or 0.  known is history: whether the pair had a committed room  *)
(* when the handler was called.                                            *)
Request ==
    [pc: {"select", "insertRoom", "insertFriend", "commit", "answer"},
     uid: User, peer: User, uid1: User, uid2: User, id: 0..MaxRoom, known: BOOLEAN]

Idle == [pc |-> "idle"]

Init ==
    /\ room = {}
    /\ friend = {}
    /\ nextId = 1
    /\ req = [r \in Req |-> Idle]

-----------------------------------------------------------------------------
Normalised_AsGiven(a, b) == <<a, b>>

Normalised(a, b) == IF a > b THEN <<b, a>> ELSE <<a, b>>

RoomsOf(u, v) == {f \in friend : {f.uid1, f.uid2} = {u, v}}

Matches(u, v) == {f \in friend : f.uid1 = u /\ f.uid2 = v}

(* createFriendRoom turns a request for a room with oneself away, and      *)
(* GetOrCreateFriendRoom orders the pair.                                  *)
Receive(r, u, v) ==
    /\ req[r] = Idle
    /\ u # v
    /\ LET pair == Normalised(u, v)
       IN  req' = [req EXCEPT ![r] =
            [pc |-> "select", uid |-> u, peer |-> v, uid1 |-> pair[1], uid2 |-> pair[2],
             id |-> 0, known |-> RoomsOf(u, v) # {}]]
    /\ UNCHANGED <<room, friend, nextId>>

(* The SELECT sees committed rows; of several matching ones it returns any.*)
Select(r) ==
    /\ req[r].pc = "select"
    /\ LET found == Matches(req[r].uid1, req[r].uid2)
       IN  IF found = {} THEN req' = [req EXCEPT ![r].pc = "insertRoom"]
           ELSE \E f \in found : req' = [req EXCEPT ![r].pc = "answer", ![r].id = f.room]
    /\ UNCHANGED <<room, friend, nextId>>

(* The rows of the transaction stay invisible to the others until Commit;  *)
(* its id is taken for good.                                               *)
InsertRoom(r) ==
    /\ req[r].pc = "insertRoom"
    /\ nextId <= MaxRoom
    /\ req' = [req EXCEPT ![r].pc = "insertFriend", ![r].id = nextId]
    /\ nextId' = nextId + 1
    /\ UNCHANGED <<room, friend>>

InsertFriend(r) ==
    /\ req[r].pc = "insertFriend"
    /\ req' = [req EXCEPT ![r].pc = "commit"]
    /\ UNCHANGED <<room, friend, nextId>>

NewRow(q) == [room |-> q.id, uid1 |-> q.uid1, uid2 |-> q.uid2]

Commit(r) ==
    /\ req[r].pc = "commit"
    /\ room' = room \cup {req[r].id}
    /\ friend' = friend \cup {NewRow(req[r])}
    /\ req' = [req EXCEPT ![r].pc = "answer"]
    /\ UNCHANGED nextId

(* The handler answers, or it fails: an error, the end of its context or a *)
(* crash, after which an open transaction is rolled back.                  *)
End_Committing(r) ==
    /\ req[r] # Idle
    /\ room' = IF req[r].pc \in {"insertFriend", "commit"} THEN room \cup {req[r].id} ELSE room
    /\ req' = [req EXCEPT ![r] = Idle]
    /\ UNCHANGED <<friend, nextId>>

End(r) ==
    /\ req[r] # Idle
    /\ req' = [req EXCEPT ![r] = Idle]
    /\ UNCHANGED <<room, friend, nextId>>

Step(r) ==
    \/ \E u, v \in User : Receive(r, u, v)
    \/ Select(r) \/ InsertRoom(r) \/ InsertFriend(r) \/ Commit(r)
    \/ End(r)

Next == \E r \in Req : Step(r)

Spec == Init /\ [][Next]_vars

-----------------------------------------------------------------------------
(* The tables and handlers have their types, and a pair is stored with the *)
(* smaller uid first.                                                      *)
TypeOK ==
    /\ room \subseteq 1..(nextId - 1)
    /\ friend \subseteq Row /\ \A f \in friend : f.uid1 <= f.uid2
    /\ nextId \in 1..(MaxRoom + 1)
    /\ req \in [Req -> Request \cup {Idle}]

(* Every one-to-one room has exactly one pair of participants, two         *)
(* different users, however many handlers fail half-way: canPost and       *)
(* resolveRecipients find the row of any room that exists.                 *)
RoomHasItsPair ==
    /\ \A id \in room : \E f \in friend : f.room = id
    /\ \A f, g \in friend : f.room = g.room => f = g
    /\ \A f \in friend : f.room \in room /\ f.uid1 # f.uid2

(* Whoever asks for the room with a peer when one exists gets one of the   *)
(* two users' rooms, whichever of them asks and whoever created it.        *)
ExistingRoomIsReused ==
    \A r \in Req : req[r].pc # "idle" /\ req[r].known =>
        /\ req[r].pc \in {"select", "answer"}
        /\ req[r].pc = "answer" =>
               \E f \in RoomsOf(req[r].uid, req[r].peer) : f.room = req[r].id

(* GetOrCreateFriendRoom for the same pair "must return the same room, not *)
(* create a duplicate" (room/store_test.go:81, room/handler_test.go:275).  *)
OneRoomPerPair == \A u, v \in User : Cardinality(RoomsOf(u, v)) <= 1

=============================================================================
