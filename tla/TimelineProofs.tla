---------------------------- MODULE TimelineProofs ----------------------------
(***************************************************************************)
(* What a client gets to know of a room, for any number of messages, any   *)
(* page size, window, budget and precision of create_time.                 *)
(***************************************************************************)
EXTENDS Timeline, FiniteSetTheorems, TLAPS

(* TypeOK, the server's part of it and the client's.                       *)
TablesType ==
    /\ status \in [MsgId -> {"none", "normal", "deleted"}]
    /\ send \in [MsgId -> SendPC]
    /\ sentAt \in [MsgId -> 0..MaxTime]
    /\ recall \in [MsgId -> Admitted \cup [pc: {"none", "push", "pushed"}]]
    /\ now \in 0..MaxTime

ClientType ==
    /\ client \in Client
    /\ client.known \subseteq Rows /\ client.deleted \subseteq Deleted(Rows)

(* An admitted recall was in time when it was admitted, and its handler    *)
(* has not run longer than it may.                                         *)
Timely(id) ==
    recall[id].pc = "setStatus" =>
        /\ now <= recall[id].at + Budget
        /\ recall[id].by = "sender" => recall[id].at <= sentAt[id] + Window

(* How far the handlers are tells what is in the table: a message's row is *)
(* there from the end of its INSERT, and is recalled once SetStatus is     *)
(* past.                                                                   *)
RowInv ==
    \A id \in MsgId :
        /\ id \in Rows => send[id] \notin {"none", "insert"}
        /\ send[id] \in {"push", "pushed"} => id \in Rows
        /\ recall[id].pc # "none" => id \in Rows
        /\ recall[id].pc \in {"push", "pushed"} => status[id] = "deleted"
        /\ Timely(id)

(* The cursor separates what has been paged from what is still to come: no *)
(* message at or above it is left of those that were there at first, and   *)
(* none below it has come.                                                 *)
PageInv ==
    /\ ~client.repeated
    /\ client.first = NotYet => client.cursor = 0 /\ ~client.end
    /\ client.first # NotYet => client.first \subseteq Rows
    /\ client.first # NotYet => \A id \in client.first \ client.paged : id < client.cursor
    /\ client.cursor = 0 => client.paged = {}
    /\ \A id \in client.paged : client.cursor <= id
    /\ client.end => client.first \subseteq client.paged
    /\ client.paged \subseteq client.known

(* To a client that was registered at its first page, a message that has   *)
(* been pushed has come, or was there at that page; and a recall that has  *)
(* been pushed has come, or its row is still to be read.                   *)
PushInv ==
    client.covered =>
        /\ client.conn = "registered" /\ client.first # NotYet
        /\ \A id \in MsgId : send[id] = "pushed" => id \in client.first \cup client.known
        /\ \A id \in MsgId : recall[id].pc = "pushed" =>
               id \in client.deleted \cup (client.first \ client.paged)

IInv == TablesType /\ ClientType /\ RowInv /\ PageInv /\ PushInv

-----------------------------------------------------------------------------
(* A set of natural numbers that is not empty has a smallest member, and a *)
(* bounded one a greatest.                                                 *)
LEMMA HasSmallest ==
    ASSUME NEW S \in SUBSET Nat, S # {}
    PROVE  \E x \in S : \A y \in S : x <= y
  <1> DEFINE R == OpToRel(<, Nat)
  <1>1. IsWellFoundedOn(R, Nat)
    BY NatLessThanWellFounded
  <1>2. \A x, y \in Nat : <<x, y>> \in R <=> x < y
    BY DEF OpToRel
  <1> HIDE DEF R
  <1>3. PICK x \in S : \A y \in S : ~(<<y, x>> \in R)
    BY <1>1, WFMin
  <1>4. \A y \in S : y \in Nat /\ x \in Nat /\ ~(y < x)
    BY <1>2, <1>3
  <1> QED  BY <1>4

LEMMA HasGreatest ==
    ASSUME NEW n \in Nat, NEW S \in SUBSET (0..n), S # {}
    PROVE  \E x \in S : \A y \in S : y <= x
  <1> DEFINE T == {n - x : x \in S}
  <1>1. T \in SUBSET Nat
    OBVIOUS
  <1>2. T # {}
    OBVIOUS
  <1>3. PICK t \in T : \A u \in T : t <= u
    BY <1>1, <1>2, HasSmallest
  <1>4. PICK x \in S : t = n - x
    BY <1>3
  <1>5. \A y \in S : t <= n - y
    BY <1>3
  <1>6. \A y \in S : y \in 0..n /\ x \in 0..n
    BY <1>4
  <1> QED  BY <1>4, <1>5, <1>6

(* Min of such a set is its smallest member.                               *)
LEMMA MinIsSmallest ==
    ASSUME NEW S \in SUBSET Nat, S # {}
    PROVE  Min(S) \in S /\ \A y \in S : Min(S) <= y
  BY HasSmallest DEF Min

LEMMA FiniteIds ==
    ASSUME NEW ids \in SUBSET MsgId
    PROVE  IsFiniteSet(ids) /\ Cardinality(ids) \in Nat
  <1>1. IsFiniteSet(MsgId)
    BY LimitAssumption, FS_Interval DEF MsgId
  <1> QED  BY <1>1, FS_Subset, FS_CardinalityType

(* A page has every row above any row of it.                               *)
LEMMA NewestIsUpward ==
    ASSUME NEW ids \in SUBSET MsgId, NEW id \in Newest(ids), NEW n \in ids, n > id
    PROVE  n \in Newest(ids)
  <1> DEFINE Above(k) == {m \in ids : m > k}
  <1>1. id \in Nat /\ n \in Nat /\ \A m \in ids : m \in Nat
    BY LimitAssumption DEF Newest, MsgId
  <1>2. Above(n) \in SUBSET Above(id)
    <2> SUFFICES ASSUME NEW m \in ids, m > n PROVE m > id
      OBVIOUS
    <2> QED  BY <1>1
  <1>3. Above(id) \in SUBSET MsgId /\ Above(n) \in SUBSET MsgId
    OBVIOUS
  <1>4. Cardinality(Above(n)) <= Cardinality(Above(id))
    BY <1>2, <1>3, FiniteIds, FS_Subset
  <1>5. Cardinality(Above(n)) \in Nat /\ Cardinality(Above(id)) \in Nat
    BY <1>3, FiniteIds
  <1>6. Cardinality(Above(id)) < Limit
    BY DEF Newest
  <1>7. Cardinality(Above(n)) < Limit
    BY <1>4, <1>5, <1>6, LimitAssumption
  <1> QED  BY <1>7 DEF Newest

(* A page that is short has all the rows it is taken from: otherwise the   *)
(* greatest row left out has only rows of the page above it, fewer than    *)
(* Limit, and is on the page.                                              *)
LEMMA ShortPageIsAll ==
    ASSUME NEW ids \in SUBSET MsgId, Cardinality(Newest(ids)) < Limit
    PROVE  Newest(ids) = ids
  <1> DEFINE left == ids \ Newest(ids)
  <1> SUFFICES ASSUME left # {} PROVE FALSE
    BY DEF Newest
  <1>1. left \in SUBSET (0..MaxMsg) /\ MaxMsg \in Nat
    <2>1. MaxMsg \in Nat /\ MsgId \subseteq 0..MaxMsg
      BY LimitAssumption DEF MsgId
    <2> QED  BY <2>1
  <1>2. PICK m \in left : \A y \in left : y <= m
    BY <1>1, HasGreatest
  <1> DEFINE above == {n \in ids : n > m}
  <1>3. \A n \in ids : n \in Int /\ m \in Int
    BY <1>1 DEF MsgId
  <1>4. above \in SUBSET Newest(ids)
    BY <1>2, <1>3
  <1>5. Newest(ids) \in SUBSET MsgId /\ above \in SUBSET MsgId
    BY DEF Newest
  <1>6. Cardinality(above) <= Cardinality(Newest(ids))
    BY <1>4, <1>5, FiniteIds, FS_Subset
  <1>7. Cardinality(above) \in Nat /\ Cardinality(Newest(ids)) \in Nat
    BY <1>5, FiniteIds
  <1>8. Cardinality(above) < Limit
    BY <1>6, <1>7, LimitAssumption
  <1>9. m \in Newest(ids)
    BY <1>8 DEF Newest
  <1> QED  BY <1>2, <1>9

-----------------------------------------------------------------------------
LEMMA TypeIs == TablesType /\ ClientType <=> TypeOK
  BY DEF TablesType, ClientType, TypeOK

(* No message was read, sent or recalled at first.                         *)
LEMMA InitIInv == Init => IInv
  <1> SUFFICES ASSUME Init PROVE IInv
    OBVIOUS
  <1>1. TablesType
    BY ClockAssumption DEF Init, TablesType, SendPC, NoRecall
  <1>2. Away \in Client
    BY LimitAssumption DEF Away, Client, NotYet, MsgId
  <1>3. ClientType
    BY <1>2 DEF Init, ClientType, Away
  <1>4. RowInv
    BY DEF Init, RowInv, Rows, Timely, NoRecall
  <1>5. PageInv /\ PushInv
    BY DEF Init, PageInv, PushInv, Away
  <1> QED  BY <1>1, <1>3, <1>4, <1>5 DEF IInv

-----------------------------------------------------------------------------
(* The handlers.                                                           *)

(* The table only grows, and a recalled message stays recalled.            *)
TableGrows == Rows \subseteq Rows' /\ Deleted(Rows) \subseteq Deleted(Rows)'

(* create_time loses less than a second.                                   *)
LEMMA CreateTimeBounds ==
    ASSUME TablesType, NEW id \in MsgId
    PROVE  /\ CreateTime(id) \in Int
           /\ CreateTime(id) <= sentAt[id] /\ sentAt[id] < CreateTime(id) + Second
  <1>1. sentAt[id] \in Nat /\ Second \in Nat \ {0}
    BY ClockAssumption DEF TablesType
  <1>2. sentAt[id] % Second \in 0..(Second - 1)
    BY <1>1
  <1> QED  BY <1>1, <1>2 DEF CreateTime

(* What a handler does to the tables, without its push.                    *)
LEMMA TableStep ==
    ASSUME IInv,
           \/ \E id \in MsgId :
                \/ InsertStart(id) \/ InsertEnd(id) \/ SendStops(id)
                \/ \E by \in {"sender", "manager"} : RecallAdmit(id, by)
                \/ SetStatus(id) \/ RecallStops(id)
           \/ Tick
    PROVE  /\ TablesType' /\ RowInv' /\ TableGrows /\ client' = client
           /\ \A id \in MsgId : send'[id] = "pushed" => send[id] = "pushed"
           /\ \A id \in MsgId : recall'[id].pc = "pushed" => recall[id].pc = "pushed"
  <1> USE DEF IInv, TablesType, RowInv, TableGrows, Rows, Deleted, Timely
  <1>1. ASSUME NEW id \in MsgId, InsertStart(id)
        PROVE  /\ TablesType' /\ RowInv' /\ TableGrows /\ client' = client
               /\ \A n \in MsgId : send'[n] = "pushed" => send[n] = "pushed"
               /\ recall' = recall
    BY <1>1 DEF InsertStart, SendGoto, SendPC
  <1>2. ASSUME NEW id \in MsgId, InsertEnd(id)
        PROVE  /\ TablesType' /\ RowInv' /\ TableGrows /\ client' = client
               /\ \A n \in MsgId : send'[n] = "pushed" => send[n] = "pushed"
               /\ recall' = recall
    BY <1>2 DEF InsertEnd, SendGoto, SendPC
  <1>3. ASSUME NEW id \in MsgId, SendStops(id)
        PROVE  /\ TablesType' /\ RowInv' /\ TableGrows /\ client' = client
               /\ \A n \in MsgId : send'[n] = "pushed" => send[n] = "pushed"
               /\ recall' = recall
    BY <1>3 DEF SendStops, SendGoto, SendPC
  <1>4. ASSUME NEW id \in MsgId, NEW by \in {"sender", "manager"}, RecallAdmit(id, by)
        PROVE  /\ TablesType' /\ RowInv' /\ TableGrows /\ client' = client
               /\ send' = send
               /\ \A n \in MsgId : recall'[n].pc = "pushed" => recall[n].pc = "pushed"
    <2> DEFINE q == [pc |-> "setStatus", by |-> by, at |-> now]
    <2>1. /\ recall' = [recall EXCEPT ![id] = q] /\ id \in Rows
          /\ UNCHANGED <<status, send, sentAt, client, now>>
      BY <1>4 DEF RecallAdmit
    <2>2. q \in Admitted
      BY DEF Admitted
    <2>3. now <= now + Budget
      BY ClockAssumption
    <2>4. by = "sender" => now <= sentAt[id] + Window
      <3>1. by = "sender" => now - CreateTime(id) <= Window
        BY <1>4 DEF RecallAdmit, CanRecall
      <3> QED  BY <3>1, CreateTimeBounds, ClockAssumption
    <2>5. /\ recall'[id] = q
          /\ \A n \in MsgId \ {id} : recall'[n] = recall[n]
      BY <2>1
    <2> QED  BY <2>1, <2>2, <2>3, <2>4, <2>5
  <1>5. ASSUME NEW id \in MsgId, SetStatus(id)
        PROVE  /\ TablesType' /\ RowInv' /\ TableGrows /\ client' = client
               /\ send' = send
               /\ \A n \in MsgId : recall'[n].pc = "pushed" => recall[n].pc = "pushed"
    BY <1>5 DEF SetStatus, RecallGoto
  <1>6. ASSUME NEW id \in MsgId, RecallStops(id)
        PROVE  /\ TablesType' /\ RowInv' /\ TableGrows /\ client' = client
               /\ send' = send
               /\ \A n \in MsgId : recall'[n].pc = "pushed" => recall[n].pc = "pushed"
    BY <1>6 DEF RecallStops, NoRecall
  <1>7. CASE Tick
    <2>1. /\ now' = now + 1 /\ now < MaxTime
          /\ \A id \in MsgId : recall[id].pc = "setStatus" => now < recall[id].at + Budget
          /\ UNCHANGED <<status, send, sentAt, recall, client>>
      BY <1>7 DEF Tick
    <2>2. now' \in 0..MaxTime
      BY <2>1, ClockAssumption
    <2>3. ASSUME NEW id \in MsgId, recall[id].pc = "setStatus" PROVE now' <= recall[id].at + Budget
      <3>1. recall[id].at \in Nat
        BY <2>3, ClockAssumption DEF Admitted
      <3> QED  BY <2>1, <2>3, <3>1, ClockAssumption
    <2> QED  BY <2>1, <2>2, <2>3
  <1> QED  BY <1>1, <1>2, <1>3, <1>4, <1>5, <1>6, <1>7

(* The client does not notice such a step.                                 *)
LEMMA UnnoticedStep ==
    ASSUME IInv, TablesType', RowInv', TableGrows, client' = client,
           \A id \in MsgId : send'[id] = "pushed" => send[id] = "pushed",
           \A id \in MsgId : recall'[id].pc = "pushed" => recall[id].pc = "pushed"
    PROVE  IInv'
  <1>1. ClientType'
    BY DEF IInv, ClientType, TableGrows
  <1>2. PageInv'
    BY DEF IInv, PageInv, TableGrows
  <1>3. PushInv'
    BY DEF IInv, PushInv
  <1> QED  BY <1>1, <1>2, <1>3 DEF IInv

(* A pushed copy of a message in the table reaches the client, as recalled *)
(* only if it is, or the client is not registered.                         *)
LEMMA HearStep ==
    ASSUME IInv, NEW id \in Rows, NEW gone \in SUBSET {id}, Hear(id, gone),
           gone \subseteq Deleted(Rows),
           status' = status, sentAt' = sentAt, now' = now, TablesType', RowInv',
           \A n \in MsgId : send'[n] = "pushed" => send[n] = "pushed" \/ n = id,
           \A n \in MsgId : recall'[n].pc = "pushed" =>
               recall[n].pc = "pushed" \/ (n = id /\ gone = {id})
    PROVE  IInv'
  <1>1. Rows' = Rows /\ Deleted(Rows)' = Deleted(Rows)
    BY DEF Rows, Deleted
  <1>2. CASE client.conn # "registered"
    <2>1. client' = client /\ ~client.covered
      BY <1>2 DEF Hear, IInv, PushInv
    <2>2. ClientType' /\ PageInv' /\ PushInv'
      BY <1>1, <2>1 DEF IInv, ClientType, PageInv, PushInv
    <2> QED  BY <2>2 DEF IInv
  <1>3. CASE client.conn = "registered"
    <2> DEFINE c == [client EXCEPT !.known = client.known \cup {id},
                                   !.deleted = client.deleted \cup gone]
    <2>1. client' = c
      BY <1>3 DEF Hear
    <2>2. id \in MsgId /\ gone \subseteq MsgId /\ client \in Client
      BY DEF Rows, IInv, ClientType
    <2>3. /\ c \in Client
          /\ c.known = client.known \cup {id} /\ c.deleted = client.deleted \cup gone
          /\ c.conn = client.conn /\ c.cursor = client.cursor /\ c.end = client.end
          /\ c.paged = client.paged /\ c.first = client.first
          /\ c.covered = client.covered /\ c.repeated = client.repeated
      BY <2>2 DEF Client
    <2> HIDE DEF c
    <2>4. ClientType'
      BY <1>1, <2>1, <2>3 DEF IInv, ClientType
    <2>5. PageInv'
      BY <1>1, <2>1, <2>3 DEF IInv, PageInv
    <2>6. PushInv'
      BY <2>1, <2>3 DEF IInv, PushInv
    <2> QED  BY <2>4, <2>5, <2>6 DEF IInv
  <1> QED  BY <1>2, <1>3

(* The two pushes.                                                         *)
LEMMA PushStep ==
    ASSUME IInv, NEW id \in MsgId, Broadcast(id) \/ RecallBroadcast(id)
    PROVE  IInv'
  <1>1. CASE Broadcast(id)
    <2>1. /\ send[id] = "push" /\ send' = [send EXCEPT ![id] = "pushed"] /\ Hear(id, {})
          /\ UNCHANGED <<status, sentAt, recall, now>>
      BY <1>1 DEF Broadcast, SendGoto
    <2>2. id \in Rows
      BY <2>1 DEF IInv, RowInv
    <2>3. TablesType'
      BY <2>1 DEF IInv, TablesType, SendPC
    <2>4. RowInv'
      BY <2>1, <2>2 DEF IInv, TablesType, RowInv, Timely, Rows
    <2>5. \A n \in MsgId : send'[n] = "pushed" => send[n] = "pushed" \/ n = id
      BY <2>1 DEF IInv, TablesType
    <2> QED  BY <2>1, <2>2, <2>3, <2>4, <2>5, HearStep
  <1>2. CASE RecallBroadcast(id)
    <2>1. /\ recall[id].pc = "push" /\ recall' = [recall EXCEPT ![id] = [pc |-> "pushed"]]
          /\ Hear(id, {id}) /\ UNCHANGED <<status, send, sentAt, now>>
      BY <1>2 DEF RecallBroadcast, RecallGoto
    <2>2. id \in Rows /\ {id} \subseteq Deleted(Rows)
      BY <2>1 DEF IInv, RowInv, Deleted
    <2>3. /\ recall'[id] = [pc |-> "pushed"]
          /\ \A n \in MsgId \ {id} : recall'[n] = recall[n]
      BY <2>1 DEF IInv, TablesType
    <2>4. TablesType'
      BY <2>1 DEF IInv, TablesType
    <2>5. RowInv'
      BY <2>1, <2>2, <2>3 DEF IInv, RowInv, Timely, Rows, Deleted
    <2>6. \A n \in MsgId : recall'[n].pc = "pushed" => recall[n].pc = "pushed" \/ n = id
      BY <2>3
    <2> QED  BY <2>1, <2>2, <2>4, <2>5, <2>6, HearStep
  <1> QED  BY <1>1, <1>2

-----------------------------------------------------------------------------
(* The client.                                                             *)

(* What only the client does leaves the tables alone.                      *)
LEMMA TablesStay ==
    ASSUME IInv, NEW c, ClientStep(c)
    PROVE  /\ TablesType' /\ RowInv' /\ client' = c
           /\ UNCHANGED <<status, send, sentAt, recall, now>>
           /\ Rows' = Rows /\ Deleted(Rows)' = Deleted(Rows)
  BY DEF ClientStep, IInv, TablesType, RowInv, Timely, Rows, Deleted

(* Its connection opens and is registered, or ends.                        *)
LEMMA ConnectionStep ==
    ASSUME IInv, Upgrade \/ Register \/ Disconnect
    PROVE  IInv'
  <1>1. CASE Disconnect
    <2>1. ClientStep(Away)
      BY <1>1 DEF Disconnect
    <2>2. Away \in Client
      BY LimitAssumption DEF Away, Client, NotYet, MsgId
    <2>3. ClientType' /\ PageInv' /\ PushInv'
      BY <2>1, <2>2, TablesStay DEF ClientType, PageInv, PushInv, Away
    <2> QED  BY <2>1, <2>3, TablesStay DEF IInv
  <1>2. CASE Upgrade \/ Register
    <2>1. PICK conn \in {"upgraded", "registered"} : ClientStep([client EXCEPT !.conn = conn])
      BY <1>2 DEF Upgrade, Register
    <2>2. client.conn # "registered"
      BY <1>2 DEF Upgrade, Register
    <2> DEFINE c == [client EXCEPT !.conn = conn]
    <2>3. /\ c \in Client /\ c.conn = conn
          /\ c.known = client.known /\ c.deleted = client.deleted
          /\ c.cursor = client.cursor /\ c.end = client.end
          /\ c.paged = client.paged /\ c.first = client.first
          /\ c.covered = client.covered /\ c.repeated = client.repeated
      BY DEF IInv, ClientType, Client
    <2>4. ClientStep(c)
      BY <2>1
    <2> HIDE DEF c
    <2>5. ~client.covered
      BY <2>2 DEF IInv, PushInv
    <2>6. ClientType' /\ PageInv' /\ PushInv'
      BY <2>3, <2>4, <2>5, TablesStay DEF IInv, ClientType, PageInv, PushInv
    <2> QED  BY <2>4, <2>6, TablesStay DEF IInv
  <1> QED  BY <1>1, <1>2

(* What a page is, taken from below the cursor: it does not overlap with   *)
(* earlier ones, and what it leaves out of the messages that were there at *)
(* first is below it, or nothing if it is short.                           *)
LEMMA PageIs ==
    ASSUME IInv, NEW page, page = Newest(Before(client.cursor)),
           NEW first, first = IF client.first = NotYet THEN Rows ELSE client.first,
           NEW cursor, cursor = IF page = {} THEN client.cursor ELSE Min(page)
    PROVE  /\ page \subseteq Rows /\ client.paged \cap page = {}
           /\ first \subseteq Rows /\ first # NotYet
           /\ cursor \in 0..MaxMsg
           /\ cursor = 0 => client.paged = {} /\ page = {}
           /\ \A id \in client.paged \cup page : cursor <= id
           /\ \A id \in first \ (client.paged \cup page) : id < cursor
           /\ Cardinality(page) < Limit => first \subseteq client.paged \cup page
  <1> DEFINE ids == Before(client.cursor)
  <1>1. /\ ids \in SUBSET MsgId /\ page \subseteq ids /\ ids \subseteq Rows
        /\ Rows \subseteq MsgId
    BY DEF Before, Newest, Rows
  <1>2. MaxMsg \in Nat /\ MsgId = 1..MaxMsg /\ Limit \in Nat \ {0}
    BY LimitAssumption DEF MsgId
  <1>3. /\ client.cursor \in 0..MaxMsg /\ client.paged \subseteq MsgId
        /\ client.first # NotYet => client.first \subseteq Rows
        /\ client.first # NotYet => \A id \in client.first \ client.paged : id < client.cursor
        /\ client.first = NotYet => client.cursor = 0
        /\ client.cursor = 0 => client.paged = {}
        /\ \A id \in client.paged : client.cursor <= id
    BY DEF IInv, PageInv, ClientType, Client
  <1>4. \A id \in ids : client.cursor = 0 \/ id < client.cursor
    BY DEF Before
  <1>5. first \subseteq Rows /\ first # NotYet
    BY <1>1, <1>2, <1>3 DEF NotYet
  <1>6. \A id \in first \ client.paged : id \in ids
    BY <1>3, <1>5 DEF Before
  <1>7. client.paged \cap page = {}
    <2> SUFFICES ASSUME NEW id \in client.paged, id \in page PROVE FALSE
      OBVIOUS
    <2>1. id \in 1..MaxMsg /\ client.cursor <= id /\ client.cursor # 0 /\ id < client.cursor
      BY <1>1, <1>2, <1>3, <1>4
    <2> QED  BY <1>2, <1>3, <2>1
  <1>8. Cardinality(page) < Limit => page = ids
    BY <1>1, ShortPageIsAll
  <1>9. Cardinality(page) < Limit => first \subseteq client.paged \cup page
    BY <1>6, <1>8
  <1>10. CASE page = {}
    <2>1. Cardinality(page) < Limit
      BY <1>2, <1>10, FS_EmptySet
    <2> QED  BY <1>1, <1>3, <1>5, <1>7, <1>9, <1>10, <2>1
  <1>11. CASE page # {}
    <2>1. page \in SUBSET Nat
      BY <1>1, <1>2
    <2>2. cursor \in page /\ \A id \in page : cursor <= id
      BY <1>11, <2>1, MinIsSmallest
    <2>3. cursor \in 1..MaxMsg
      BY <1>1, <1>2, <2>2
    <2>4. \A id \in client.paged : cursor <= id
      <3> SUFFICES ASSUME NEW id \in client.paged PROVE cursor <= id
        OBVIOUS
      <3>1. id \in 1..MaxMsg /\ client.cursor <= id /\ cursor < client.cursor
        BY <1>1, <1>2, <1>3, <1>4, <2>2
      <3> QED  BY <1>2, <1>3, <2>3, <3>1
    <2>5. ASSUME NEW id \in first \ (client.paged \cup page) PROVE id < cursor
      <3>1. id \in ids /\ id \in 1..MaxMsg
        BY <1>1, <1>2, <1>6
      <3>2. id # cursor /\ ~(id > cursor)
        BY <1>1, <2>2, <2>5, <3>1, NewestIsUpward
      <3> QED  BY <1>2, <2>3, <3>1, <3>2
    <2>6. cursor # 0 /\ cursor \in 0..MaxMsg
      BY <1>2, <2>3
    <2> QED  BY <1>1, <1>5, <1>7, <1>9, <2>2, <2>4, <2>5, <2>6
  <1> QED  BY <1>10, <1>11

(* It reads a page.                                                        *)
LEMMA ReadStep ==
    ASSUME IInv, ReadPage
    PROVE  IInv'
  <1> DEFINE page == Newest(Before(client.cursor))
             first == IF client.first = NotYet THEN Rows ELSE client.first
             cursor == IF page = {} THEN client.cursor ELSE Min(page)
             covered == IF client.first = NotYet THEN client.conn = "registered"
                                                 ELSE client.covered
             short == Cardinality(page) < Limit
             again == client.repeated \/ client.paged \cap page # {}
             c == [client EXCEPT
                     !.cursor   = cursor,
                     !.end      = short,
                     !.paged    = client.paged \cup page,
                     !.known    = client.known \cup page,
                     !.deleted  = client.deleted \cup Deleted(page),
                     !.first    = first,
                     !.covered  = covered,
                     !.repeated = again]
  <1>1. ~client.end /\ ClientStep(c)
    BY DEF ReadPage
  <1>2. /\ page \subseteq Rows /\ client.paged \cap page = {}
        /\ first \subseteq Rows /\ first # NotYet
        /\ cursor \in 0..MaxMsg
        /\ cursor = 0 => client.paged = {} /\ page = {}
        /\ \A id \in client.paged \cup page : cursor <= id
        /\ \A id \in first \ (client.paged \cup page) : id < cursor
        /\ short => first \subseteq client.paged \cup page
    BY PageIs
  <1>3. covered \in BOOLEAN
    BY DEF IInv, ClientType, Client
  <1>4. short \in BOOLEAN
    OBVIOUS
  <1>5. again \in BOOLEAN
    OBVIOUS
  <1>6. ~again
    BY <1>2 DEF IInv, PageInv
  <1>7. /\ covered /\ client.first = NotYet => client.conn = "registered"
        /\ covered /\ client.first # NotYet => client.covered /\ first = client.first
        /\ client.first = NotYet => first = Rows
    OBVIOUS
  <1> HIDE DEF page, first, cursor, covered, short, again
  <1>8. Rows \subseteq MsgId /\ MsgId \subseteq 0..MaxMsg /\ Deleted(page) \subseteq Deleted(Rows)
    <2>1. Rows \subseteq MsgId
      BY DEF Rows
    <2>2. MsgId \subseteq 0..MaxMsg
      BY LimitAssumption DEF MsgId
    <2>3. Deleted(page) \subseteq Deleted(Rows)
      BY <1>2 DEF Deleted
    <2> QED  BY <2>1, <2>2, <2>3
  <1>9. client \in Client
    BY DEF IInv, ClientType
  <1>10. /\ c.conn = client.conn /\ c.cursor = cursor /\ c.end = short
        /\ c.paged = client.paged \cup page /\ c.known = client.known \cup page
        /\ c.deleted = client.deleted \cup Deleted(page)
        /\ c.first = first /\ c.covered = covered /\ c.repeated = again
    BY <1>9 DEF Client
  <1>11. c \in Client
    <2>1. Deleted(page) \subseteq MsgId /\ page \subseteq MsgId
      BY <1>2, <1>8 DEF Deleted
    <2>2. /\ client.paged \cup page \in SUBSET MsgId /\ client.known \cup page \in SUBSET MsgId
          /\ client.deleted \cup Deleted(page) \in SUBSET MsgId
      BY <1>9, <2>1 DEF Client
    <2>3. first \in SUBSET (0..MaxMsg)
      BY <1>2, <1>8
    <2> QED  BY <1>2, <1>3, <1>9, <1>4, <1>5, <2>2, <2>3 DEF Client
  <1> HIDE DEF c
  <1>12. client' = c /\ Rows' = Rows /\ Deleted(Rows)' = Deleted(Rows)
    BY <1>1 DEF ClientStep, Rows, Deleted
  <1>13. ClientType'
    <2>1. client.known \subseteq Rows /\ client.deleted \subseteq Deleted(Rows)
      BY DEF IInv, ClientType
    <2>2. c.known \subseteq Rows /\ c.deleted \subseteq Deleted(Rows)
      BY <1>2, <1>8, <1>10, <2>1
    <2>3. client'.known \subseteq Rows' /\ client'.deleted \subseteq Deleted(Rows)'
      BY <1>12, <2>2
    <2>4. client' \in Client
      BY <1>11, <1>12
    <2> QED  BY <2>3, <2>4 DEF ClientType
  <1>14. PageInv'
    <2>1. client.paged \subseteq client.known
      BY DEF IInv, PageInv
    <2>2. /\ ~c.repeated /\ c.first # NotYet /\ c.first \subseteq Rows
          /\ \A id \in c.first \ c.paged : id < c.cursor
          /\ c.cursor = 0 => c.paged = {}
          /\ \A id \in c.paged : c.cursor <= id
          /\ c.end => c.first \subseteq c.paged
          /\ c.paged \subseteq c.known
      BY <1>2, <1>10, <1>6, <2>1
    <2> QED  BY <1>12, <2>2 DEF PageInv
  <1>15. PushInv'
    <2> SUFFICES ASSUME covered
                 PROVE  /\ client.conn = "registered"
                        /\ \A id \in MsgId : send[id] = "pushed" =>
                               id \in first \cup client.known \cup page
                        /\ \A id \in MsgId : recall[id].pc = "pushed" =>
                               id \in client.deleted \cup Deleted(page)
                                        \cup (first \ (client.paged \cup page))
      BY <1>1, <1>2, <1>10, TablesStay DEF PushInv
    <2>1. CASE client.first = NotYet
      <3>1. /\ \A id \in MsgId : send[id] = "pushed" => id \in Rows
            /\ \A id \in MsgId : recall[id].pc = "pushed" => id \in Rows /\ status[id] = "deleted"
        BY DEF IInv, RowInv
      <3>2. client.paged = {}
        BY <2>1 DEF IInv, PageInv
      <3> QED  BY <1>7, <2>1, <3>1, <3>2 DEF Deleted
    <2>2. CASE client.first # NotYet
      <3>1. client.covered /\ first = client.first
        BY <1>7, <2>2
      <3>2. \A id \in MsgId : recall[id].pc = "pushed" => status[id] = "deleted"
        BY DEF IInv, RowInv
      <3> QED  BY <3>1, <3>2 DEF IInv, PushInv, Deleted
    <2> QED  BY <2>1, <2>2
  <1> QED  BY <1>1, <1>13, <1>14, <1>15, TablesStay DEF IInv

-----------------------------------------------------------------------------
(* Every step keeps the invariant.                                         *)
LEMMA NextIInv == IInv /\ [Next]_vars => IInv'
  <1> SUFFICES ASSUME IInv, [Next]_vars PROVE IInv'
    OBVIOUS
  <1>1. ASSUME NEW id \in MsgId, Broadcast(id) \/ RecallBroadcast(id) PROVE IInv'
    BY <1>1, PushStep
  <1>2. CASE Upgrade \/ Register \/ Disconnect
    BY <1>2, ConnectionStep
  <1>3. CASE ReadPage
    BY <1>3, ReadStep
  <1>4. CASE \/ \E id \in MsgId :
                  \/ InsertStart(id) \/ InsertEnd(id) \/ SendStops(id)
                  \/ \E by \in {"sender", "manager"} : RecallAdmit(id, by)
                  \/ SetStatus(id) \/ RecallStops(id)
             \/ Tick
    BY <1>4, TableStep, UnnoticedStep
  <1>5. CASE UNCHANGED vars
    BY <1>5 DEF vars, IInv, TablesType, ClientType, RowInv, Timely, PageInv, PushInv, Rows, Deleted
  <1> QED  BY <1>1, <1>2, <1>3, <1>4, <1>5 DEF Next

THEOREM SpecIInv == Spec => []IInv
  BY InitIInv, NextIInv, PTL DEF Spec

(* The variables have their types, and the client knows of no message that *)
(* is not in the table and of no recall that is not stored, for any number *)
(* of messages.                                                            *)
THEOREM SpecTypeOK == Spec => []TypeOK
  <1>1. IInv => TypeOK
    BY TypeIs DEF IInv
  <1> QED  BY <1>1, SpecIInv, PTL

(* For any page size, no message comes on two pages and a client that has  *)
(* read to the end has every message that was there when it began.         *)
THEOREM SpecPagesNeitherSkipNorRepeat == Spec => []PagesNeitherSkipNorRepeat
  <1>1. IInv => PagesNeitherSkipNorRepeat
    BY DEF IInv, PageInv, PagesNeitherSkipNorRepeat
  <1> QED  BY <1>1, SpecIInv, PTL

(* Pages and pushes together miss no message.                              *)
THEOREM SpecNothingMissed == Spec => []NothingMissed
  <1>1. IInv => NothingMissed
    BY DEF IInv, PageInv, PushInv, NothingMissed
  <1> QED  BY <1>1, SpecIInv, PTL

(* Pages and pushes together miss no recall.                               *)
THEOREM SpecRecallsSeen == Spec => []RecallsSeen
  <1>1. IInv => RecallsSeen
    BY DEF IInv, PageInv, PushInv, RecallsSeen
  <1> QED  BY <1>1, SpecIInv, PTL

(* A sender's recall takes effect within Window and Budget of the sending, *)
(* and one within Window less a second is admitted, whatever the precision *)
(* of create_time.                                                         *)
THEOREM SpecRecallInTime == Spec => RecallInTime
  <1> DEFINE A == \A id \in MsgId :
                    /\ recall[id].pc = "setStatus" /\ recall[id].by = "sender" /\ recall'[id].pc = "push"
                          => now <= sentAt[id] + Window + Budget
                    /\ id \in Rows /\ now <= sentAt[id] + Window - Second => CanRecall("sender", id)
  <1>1. IInv => A
    <2> SUFFICES ASSUME IInv, NEW id \in MsgId
                 PROVE  /\ recall[id].pc = "setStatus" /\ recall[id].by = "sender"
                              => now <= sentAt[id] + Window + Budget
                        /\ now <= sentAt[id] + Window - Second => CanRecall("sender", id)
      OBVIOUS
    <2>1. sentAt[id] \in Nat /\ now \in Nat /\ Window \in Nat /\ Budget \in Nat /\ Second \in Nat
      BY ClockAssumption DEF IInv, TablesType
    <2>2. ASSUME recall[id].pc = "setStatus", recall[id].by = "sender"
          PROVE  now <= sentAt[id] + Window + Budget
      <3>1. recall[id].at \in Nat
        BY <2>2, ClockAssumption DEF IInv, TablesType, Admitted
      <3>2. now <= recall[id].at + Budget /\ recall[id].at <= sentAt[id] + Window
        BY <2>2 DEF IInv, RowInv, Timely
      <3> QED  BY <2>1, <3>1, <3>2
    <2>3. ASSUME now <= sentAt[id] + Window - Second PROVE CanRecall("sender", id)
      BY <2>1, <2>3, CreateTimeBounds DEF IInv, CanRecall
    <2> QED  BY <2>2, <2>3
  <1>2. IInv /\ [Next]_vars => [A]_vars
    BY <1>1
  <1> QED  BY <1>2, SpecIInv, PTL DEF Spec, RecallInTime

===============================================================================
