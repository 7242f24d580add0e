--------------------------- MODULE FriendRoomsProofs ---------------------------
(***************************************************************************)
(* What createFriendRoom promises although nothing is locked between its   *)
(* lookup and its transaction, for any users, handlers and rooms.          *)
(***************************************************************************)
EXTENDS FriendRooms, TLAPS

InTransaction(r) == req[r].pc \in {"insertFriend", "commit"}

(* What a running handler relies on: the pair it stores is its caller and  *)
(* peer, smaller uid first; the id of its open transaction was handed out  *)
(* and names no committed room; and a room its pair had is still there.    *)
Running(r) ==
    req[r] # Idle =>
        /\ req[r].uid # req[r].peer
        /\ req[r].uid1 <= req[r].uid2
        /\ {req[r].uid1, req[r].uid2} = {req[r].uid, req[r].peer}
        /\ InTransaction(r) => req[r].id \in 1..(nextId - 1) /\ req[r].id \notin room
        /\ req[r].known => \E f \in friend : f.uid1 = req[r].uid1 /\ f.uid2 = req[r].uid2

(* No two open transactions share an id.                                   *)
OwnIds ==
    \A r, s \in Req : r # s /\ InTransaction(r) /\ InTransaction(s) => req[r].id # req[s].id

IInv ==
    /\ TypeOK
    /\ RoomHasItsPair
    /\ \A r \in Req : Running(r)
    /\ OwnIds
    /\ ExistingRoomIsReused

-----------------------------------------------------------------------------
(* Idle is no request.                                                     *)
LEMMA IdleType ==
    /\ Idle.pc = "idle"
    /\ Idle \notin Request
    /\ \A q \in Request : q # Idle /\ q.pc # "idle"
  BY DEF Idle, Request

(* A handler that is past a guard is running.                              *)
LEMMA RunningType ==
    ASSUME TypeOK, NEW r \in Req, req[r].pc # "idle"
    PROVE  req[r] \in Request /\ req[r] # Idle
  BY IdleType DEF TypeOK

(* The normalised pair is the pair, in order.                              *)
LEMMA NormalisedPair ==
    ASSUME NEW u \in User, NEW v \in User
    PROVE  /\ Normalised(u, v)[1] \in User /\ Normalised(u, v)[2] \in User
           /\ Normalised(u, v)[1] <= Normalised(u, v)[2]
           /\ {Normalised(u, v)[1], Normalised(u, v)[2]} = {u, v}
  <1>1. u \in Nat /\ v \in Nat
    BY UserAssumption
  <1>2. CASE u > v
    BY <1>1, <1>2 DEF Normalised
  <1>3. CASE ~(u > v)
    BY <1>1, <1>3 DEF Normalised
  <1> QED  BY <1>2, <1>3

(* The SELECT's condition on the ordered columns finds the rooms of the    *)
(* pair, and nothing else.                                                 *)
LEMMA SelectFindsPair ==
    ASSUME TypeOK, NEW u \in User, NEW v \in User, NEW u1 \in User, NEW u2 \in User,
           u1 <= u2, {u1, u2} = {u, v}
    PROVE  Matches(u1, u2) = RoomsOf(u, v)
  <1>1. ASSUME NEW f \in friend, {f.uid1, f.uid2} = {u, v}
        PROVE  f.uid1 = u1 /\ f.uid2 = u2
    <2>1. f.uid1 \in Nat /\ f.uid2 \in Nat /\ f.uid1 <= f.uid2 /\ u1 \in Nat /\ u2 \in Nat
      BY UserAssumption DEF TypeOK, Row
    <2>2. \/ f.uid1 = u1 /\ f.uid2 = u2
          \/ f.uid1 = u2 /\ f.uid2 = u1
      BY <1>1
    <2> QED  BY <2>1, <2>2
  <1>2. ASSUME NEW f \in friend, f.uid1 = u1, f.uid2 = u2
        PROVE  {f.uid1, f.uid2} = {u, v}
    BY <1>2
  <1> QED  BY <1>1, <1>2 DEF Matches, RoomsOf

LEMMA InitIInv == Init => IInv
  <1> SUFFICES ASSUME Init PROVE IInv
    OBVIOUS
  <1>1. TypeOK
    BY BoundAssumption DEF Init, TypeOK
  <1>2. RoomHasItsPair
    BY DEF Init, RoomHasItsPair
  <1>3. \A r \in Req : Running(r)
    BY DEF Init, Running
  <1>4. OwnIds /\ ExistingRoomIsReused
    BY DEF Init, OwnIds, ExistingRoomIsReused, InTransaction, Idle
  <1> QED  BY <1>1, <1>2, <1>3, <1>4 DEF IInv

-----------------------------------------------------------------------------
(* The steps that leave the tables alone move one handler.                 *)
LEMMA MoveKeeps ==
    ASSUME IInv, NEW r \in Req, NEW q \in Request \cup {Idle},
           req' = [req EXCEPT ![r] = q],
           room' = room, friend' = friend, nextId' = nextId,
           Running(r)',
           InTransaction(r)' => InTransaction(r) /\ q.id = req[r].id,
           q # Idle /\ q.known =>
               /\ q.pc \in {"select", "answer"}
               /\ q.pc = "answer" => \E f \in RoomsOf(q.uid, q.peer) : f.room = q.id
    PROVE  IInv'
  <1>1. /\ req'[r] = q
        /\ \A s \in Req \ {r} : req'[s] = req[s]
    BY DEF IInv, TypeOK
  <1>2. TypeOK'
    BY DEF IInv, TypeOK
  <1>3. RoomHasItsPair'
    BY DEF IInv, RoomHasItsPair
  <1>4. \A s \in Req : Running(s)'
    <2> SUFFICES ASSUME NEW s \in Req, s # r PROVE Running(s)'
      OBVIOUS
    <2> QED  BY <1>1 DEF IInv, Running, InTransaction
  <1>5. OwnIds'
    BY <1>1 DEF IInv, OwnIds, InTransaction
  <1>6. ExistingRoomIsReused'
    <2> SUFFICES ASSUME NEW s \in Req, req'[s].pc # "idle", req'[s].known
                 PROVE  /\ req'[s].pc \in {"select", "answer"}
                        /\ req'[s].pc = "answer" =>
                               \E f \in RoomsOf(req'[s].uid, req'[s].peer) : f.room = req'[s].id
      BY DEF ExistingRoomIsReused, RoomsOf
    <2>1. CASE s = r
      BY <1>1, <2>1, IdleType
    <2>2. CASE s # r
      BY <1>1, <2>2 DEF IInv, ExistingRoomIsReused, RoomsOf
    <2> QED  BY <2>1, <2>2
  <1> QED  BY <1>2, <1>3, <1>4, <1>5, <1>6 DEF IInv

(* A handler that ends leaves nothing behind.                              *)
LEMMA EndKeeps ==
    ASSUME IInv, NEW r \in Req, End(r)
    PROVE  IInv'
  <1>1. req'[r] = Idle
    BY DEF End, IInv, TypeOK
  <1>2. Running(r)' /\ ~InTransaction(r)'
    BY <1>1 DEF Running, InTransaction, Idle
  <1> QED  BY <1>2, MoveKeeps DEF End

(* A request arrives, with the pair in order.                              *)
LEMMA ReceiveKeeps ==
    ASSUME IInv, NEW r \in Req, NEW u \in User, NEW v \in User, Receive(r, u, v)
    PROVE  IInv'
  <1> DEFINE pair == Normalised(u, v)
             q == [pc |-> "select", uid |-> u, peer |-> v, uid1 |-> pair[1], uid2 |-> pair[2],
                   id |-> 0, known |-> RoomsOf(u, v) # {}]
  <1>1. /\ req' = [req EXCEPT ![r] = q] /\ u # v
        /\ room' = room /\ friend' = friend /\ nextId' = nextId
    BY DEF Receive
  <1>2. q \in Request
    BY NormalisedPair, BoundAssumption DEF Request
  <1>3. req'[r] = q
    BY <1>1 DEF IInv, TypeOK
  <1>4. RoomsOf(u, v) # {} => \E f \in friend : f.uid1 = pair[1] /\ f.uid2 = pair[2]
    <2>1. Matches(pair[1], pair[2]) = RoomsOf(u, v)
      <3>1. /\ pair[1] \in User /\ pair[2] \in User /\ pair[1] <= pair[2]
            /\ {pair[1], pair[2]} = {u, v}
        BY NormalisedPair
      <3> HIDE DEF pair
      <3> QED  BY <3>1, SelectFindsPair DEF IInv
    <2> QED  BY <2>1 DEF Matches
  <1>5. Running(r)'
    <2>1. /\ req'[r].uid = u /\ req'[r].peer = v /\ req'[r].uid1 = pair[1] /\ req'[r].uid2 = pair[2]
          /\ req'[r].pc = "select" /\ req'[r].known = (RoomsOf(u, v) # {})
      BY <1>3
    <2>2. pair[1] <= pair[2] /\ {pair[1], pair[2]} = {u, v}
      BY NormalisedPair
    <2> HIDE DEF pair
    <2> QED  BY <1>1, <1>4, <2>1, <2>2 DEF Running, InTransaction
  <1>6. ~InTransaction(r)'
    BY <1>3 DEF InTransaction
  <1> QED  BY <1>1, <1>2, <1>5, <1>6, MoveKeeps

(* The SELECT finds a room if the pair has one.                            *)
LEMMA SelectKeeps ==
    ASSUME IInv, NEW r \in Req, Select(r)
    PROVE  IInv'
  <1>1. req[r] \in Request /\ req[r] # Idle /\ TypeOK /\ Running(r)
    BY RunningType DEF Select, IInv
  <1>2. Matches(req[r].uid1, req[r].uid2) = RoomsOf(req[r].uid, req[r].peer)
    <2>1. /\ req[r].uid \in User /\ req[r].peer \in User /\ req[r].uid1 \in User /\ req[r].uid2 \in User
          /\ req[r].uid1 <= req[r].uid2
          /\ {req[r].uid1, req[r].uid2} = {req[r].uid, req[r].peer}
      BY <1>1 DEF Running, Request
    <2> QED  BY <1>1, <2>1, SelectFindsPair
  <1>3. CASE Matches(req[r].uid1, req[r].uid2) = {}
    <2> DEFINE q == [req[r] EXCEPT !.pc = "insertRoom"]
    <2>1. /\ req' = [req EXCEPT ![r] = q]
          /\ room' = room /\ friend' = friend /\ nextId' = nextId
      BY <1>3 DEF Select
    <2>2. /\ q \in Request /\ q.pc = "insertRoom" /\ q.known = req[r].known
          /\ q.uid = req[r].uid /\ q.peer = req[r].peer
          /\ q.uid1 = req[r].uid1 /\ q.uid2 = req[r].uid2
      BY <1>1 DEF Request
    <2>3. req'[r] = q
      BY <1>1, <2>1 DEF TypeOK
    <2>4. ~q.known
      BY <1>1, <1>3, <2>2 DEF Running, Matches
    <2>5. ~InTransaction(r)'
      BY <2>2, <2>3 DEF InTransaction
    <2>6. Running(r)'
      BY <1>1, <2>2, <2>3, <2>4, <2>5 DEF Running
    <2> HIDE DEF q
    <2> QED  BY <2>1, <2>2, <2>4, <2>5, <2>6, MoveKeeps
  <1>4. ASSUME NEW f \in Matches(req[r].uid1, req[r].uid2),
               req' = [req EXCEPT ![r].pc = "answer", ![r].id = f.room]
        PROVE  IInv'
    <2> DEFINE q == [req[r] EXCEPT !.pc = "answer", !.id = f.room]
    <2>1. /\ req' = [req EXCEPT ![r] = q]
          /\ room' = room /\ friend' = friend /\ nextId' = nextId
      BY <1>1, <1>4 DEF Select, TypeOK
    <2>2. f.room \in 0..MaxRoom
      BY <1>1, BoundAssumption DEF Matches, TypeOK, Row, RoomId
    <2>3. /\ q \in Request /\ q.pc = "answer" /\ q.known = req[r].known /\ q.id = f.room
          /\ q.uid = req[r].uid /\ q.peer = req[r].peer
          /\ q.uid1 = req[r].uid1 /\ q.uid2 = req[r].uid2
      BY <1>1, <2>2 DEF Request
    <2>4. req'[r] = q
      BY <1>1, <2>1 DEF TypeOK
    <2>5. ~InTransaction(r)'
      BY <2>3, <2>4 DEF InTransaction
    <2>6. Running(r)'
      BY <1>1, <2>1, <2>3, <2>4, <2>5 DEF Running
    <2>7. f \in RoomsOf(q.uid, q.peer)
      BY <1>2, <1>4, <2>3
    <2> HIDE DEF q
    <2> QED  BY <2>1, <2>3, <2>5, <2>6, <2>7, MoveKeeps
  <1> QED  BY <1>3, <1>4 DEF Select

-----------------------------------------------------------------------------
(* The transaction takes a fresh id.                                       *)
LEMMA InsertRoomKeeps ==
    ASSUME IInv, NEW r \in Req, InsertRoom(r)
    PROVE  IInv'
  <1> DEFINE q == [req[r] EXCEPT !.pc = "insertFriend", !.id = nextId]
  <1>1. req[r] \in Request /\ req[r] # Idle /\ TypeOK /\ Running(r)
    BY RunningType DEF InsertRoom, IInv
  <1>2. /\ req' = [req EXCEPT ![r] = q] /\ nextId' = nextId + 1 /\ nextId \in 1..MaxRoom
        /\ room' = room /\ friend' = friend /\ req[r].pc = "insertRoom"
    <2>1. nextId \in 1..MaxRoom
      BY <1>1, BoundAssumption DEF InsertRoom, TypeOK
    <2>2. req' = [req EXCEPT ![r] = q]
      BY <1>1 DEF InsertRoom, TypeOK
    <2> QED  BY <2>1, <2>2 DEF InsertRoom
  <1>3. /\ q \in Request /\ q.pc = "insertFriend" /\ q.known = req[r].known /\ q.id = nextId
        /\ q.uid = req[r].uid /\ q.peer = req[r].peer
        /\ q.uid1 = req[r].uid1 /\ q.uid2 = req[r].uid2
    <2>1. nextId \in 0..MaxRoom
      BY <1>2, BoundAssumption
    <2> QED  BY <1>1, <2>1 DEF Request
  <1>4. ~q.known
    BY <1>1, <1>2, <1>3 DEF IInv, ExistingRoomIsReused
  <1> HIDE DEF q
  <1>5. /\ req'[r] = q
        /\ \A s \in Req \ {r} : req'[s] = req[s]
    BY <1>1, <1>2 DEF TypeOK
  <1>6. nextId \notin room
    BY <1>1, <1>2 DEF TypeOK
  <1>7. TypeOK'
    BY <1>1, <1>2, <1>3, BoundAssumption DEF TypeOK
  <1>8. RoomHasItsPair'
    BY <1>2 DEF IInv, RoomHasItsPair
  <1>9. ASSUME NEW s \in Req PROVE Running(s)'
    <2>1. CASE s = r
      BY <1>1, <1>2, <1>3, <1>4, <1>5, <1>6, <2>1 DEF Running, InTransaction
    <2>2. CASE s # r
      BY <1>2, <1>5, <2>2 DEF IInv, Running, InTransaction
    <2> QED  BY <2>1, <2>2
  <1>10. OwnIds'
    <2>1. \A s \in Req : InTransaction(s) => req[s].id # nextId
      <3> SUFFICES ASSUME NEW s \in Req, InTransaction(s) PROVE req[s].id # nextId
        OBVIOUS
      <3>1. req[s] # Idle
        BY DEF InTransaction, Idle
      <3>2. req[s].id \in 1..(nextId - 1)
        BY <3>1 DEF IInv, Running
      <3> QED  BY <1>2, <3>2
    <2> QED  BY <1>3, <1>5, <2>1 DEF IInv, OwnIds, InTransaction
  <1>11. ExistingRoomIsReused'
    BY <1>2, <1>3, <1>4, <1>5 DEF IInv, ExistingRoomIsReused, RoomsOf
  <1> QED  BY <1>7, <1>8, <1>9, <1>10, <1>11 DEF IInv

(* The second insertion is as invisible to the others as the first.        *)
LEMMA InsertFriendKeeps ==
    ASSUME IInv, NEW r \in Req, InsertFriend(r)
    PROVE  IInv'
  <1> DEFINE q == [req[r] EXCEPT !.pc = "commit"]
  <1>1. req[r] \in Request /\ req[r] # Idle /\ TypeOK /\ Running(r)
    BY RunningType DEF InsertFriend, IInv
  <1>2. /\ req' = [req EXCEPT ![r] = q] /\ InTransaction(r)
        /\ room' = room /\ friend' = friend /\ nextId' = nextId
    BY DEF InsertFriend, InTransaction
  <1>3. /\ q \in Request /\ q.pc = "commit" /\ q.known = req[r].known /\ q.id = req[r].id
        /\ q.uid = req[r].uid /\ q.peer = req[r].peer
        /\ q.uid1 = req[r].uid1 /\ q.uid2 = req[r].uid2
    BY <1>1 DEF Request
  <1>4. ~q.known
    BY <1>1, <1>2, <1>3 DEF IInv, ExistingRoomIsReused, InTransaction
  <1> HIDE DEF q
  <1>5. req'[r] = q
    BY <1>1, <1>2 DEF TypeOK
  <1>6. Running(r)'
    BY <1>1, <1>2, <1>3, <1>4, <1>5 DEF Running, InTransaction
  <1> QED  BY <1>2, <1>3, <1>4, <1>6, MoveKeeps

(* The commit makes a room and its pair visible together, under an id that *)
(* no committed room and no other transaction has.                         *)
LEMMA CommitKeeps ==
    ASSUME IInv, NEW r \in Req, Commit(r)
    PROVE  IInv'
  <1> DEFINE q == [req[r] EXCEPT !.pc = "answer"]
             row == NewRow(req[r])
  <1>1. /\ req[r] \in Request /\ req[r] # Idle /\ TypeOK /\ Running(r)
        /\ InTransaction(r) /\ RoomHasItsPair
    BY RunningType DEF Commit, IInv, InTransaction
  <1>2. /\ req' = [req EXCEPT ![r] = q] /\ nextId' = nextId
        /\ room' = room \cup {req[r].id} /\ friend' = friend \cup {row}
    BY DEF Commit
  <1>3. /\ q \in Request /\ q.pc = "answer" /\ q.known = req[r].known /\ q.id = req[r].id
        /\ q.uid = req[r].uid /\ q.peer = req[r].peer
        /\ q.uid1 = req[r].uid1 /\ q.uid2 = req[r].uid2
    BY <1>1 DEF Request
  <1>4. ~q.known
    BY <1>1, <1>3 DEF IInv, ExistingRoomIsReused, InTransaction
  <1>5. /\ req[r].id \in 1..(nextId - 1) /\ req[r].id \notin room
        /\ req[r].uid1 \in User /\ req[r].uid2 \in User
        /\ req[r].uid1 <= req[r].uid2 /\ req[r].uid1 # req[r].uid2
    BY <1>1 DEF Running, Request
  <1>6. row.room = req[r].id /\ row.uid1 = req[r].uid1 /\ row.uid2 = req[r].uid2
    BY DEF NewRow
  <1>7. row \in Row
    BY <1>1, <1>5, BoundAssumption DEF NewRow, Row, RoomId, TypeOK
  <1> HIDE DEF q, row
  <1>8. /\ req'[r] = q
        /\ \A s \in Req \ {r} : req'[s] = req[s]
    BY <1>1, <1>2 DEF TypeOK
  <1>9. TypeOK'
    BY <1>1, <1>2, <1>3, <1>5, <1>6, <1>7 DEF TypeOK
  <1>10. RoomHasItsPair'
    <2>1. \A f \in friend : f.room # row.room
      BY <1>1, <1>5, <1>6 DEF RoomHasItsPair
    <2>2. \A id \in room' : \E f \in friend' : f.room = id
      BY <1>1, <1>2, <1>6 DEF RoomHasItsPair
    <2>3. \A f, g \in friend' : f.room = g.room => f = g
      BY <1>1, <1>2, <2>1 DEF RoomHasItsPair
    <2>4. \A f \in friend' : f.room \in room' /\ f.uid1 # f.uid2
      BY <1>1, <1>2, <1>5, <1>6 DEF RoomHasItsPair
    <2> QED  BY <2>2, <2>3, <2>4 DEF RoomHasItsPair
  <1>11. ASSUME NEW s \in Req PROVE Running(s)'
    <2>1. CASE s = r
      BY <1>1, <1>3, <1>4, <1>8, <2>1 DEF Running, InTransaction
    <2>2. CASE s # r
      <3>1. Running(s) /\ (InTransaction(s) => req[s].id # req[r].id) /\ req'[s] = req[s]
        BY <1>1, <1>8, <2>2 DEF IInv, OwnIds
      <3> QED  BY <1>2, <3>1 DEF Running, InTransaction
    <2> QED  BY <2>1, <2>2
  <1>12. OwnIds'
    BY <1>3, <1>8 DEF IInv, OwnIds, InTransaction
  <1>13. ExistingRoomIsReused'
    BY <1>2, <1>3, <1>4, <1>8 DEF IInv, ExistingRoomIsReused, RoomsOf
  <1> QED  BY <1>9, <1>10, <1>11, <1>12, <1>13 DEF IInv

-----------------------------------------------------------------------------
(* Every step keeps the invariant.                                         *)
LEMMA NextIInv == IInv /\ [Next]_vars => IInv'
  <1> SUFFICES ASSUME IInv, [Next]_vars PROVE IInv'
    OBVIOUS
  <1>1. ASSUME NEW r \in Req, Step(r) PROVE IInv'
    BY <1>1, ReceiveKeeps, SelectKeeps, InsertRoomKeeps, InsertFriendKeeps, CommitKeeps, EndKeeps
       DEF Step
  <1>2. CASE UNCHANGED vars
    BY <1>2
       DEF vars, IInv, TypeOK, RoomHasItsPair, Running, OwnIds, ExistingRoomIsReused,
           InTransaction, RoomsOf
  <1> QED  BY <1>1, <1>2 DEF Next

THEOREM SpecIInv == Spec => []IInv
  BY InitIInv, NextIInv, PTL DEF Spec

(* The tables and handlers have their types, and a pair is stored with the *)
(* smaller uid first, whatever number of handlers run.                     *)
THEOREM SpecTypeOK == Spec => []TypeOK
  <1>1. IInv => TypeOK
    BY DEF IInv
  <1> QED  BY <1>1, SpecIInv, PTL

(* Every committed room has exactly one pair of two different users,       *)
(* whichever handlers fail half-way.                                       *)
THEOREM SpecRoomHasItsPair == Spec => []RoomHasItsPair
  <1>1. IInv => RoomHasItsPair
    BY DEF IInv
  <1> QED  BY <1>1, SpecIInv, PTL

(* createFriendRoom answers with a room of the two users whenever they had *)
(* one when it was called.                                                 *)
THEOREM SpecExistingRoomIsReused == Spec => []ExistingRoomIsReused
  <1>1. IInv => ExistingRoomIsReused
    BY DEF IInv
  <1> QED  BY <1>1, SpecIInv, PTL

===============================================================================
