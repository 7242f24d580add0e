------------------------------- MODULE HubProofs -------------------------------
(***************************************************************************)
(* The hub's lock and registry, for any users, connections, senders and    *)
(* buffers.                                                                *)
(***************************************************************************)
EXTENDS Hub, FiniteSetTheorems, TLAPS

(* The types, without the lock.                                            *)
VarsType ==
    /\ conns \in [User -> SUBSET Conn]
    /\ locked \subseteq Conn /\ locking \subseteq Conn /\ reading \subseteq Sender
    /\ server \in [Conn -> ServerPC]
    /\ owner \in [Conn -> User]
    /\ client \in [Conn -> {"away", "connected", "gone"}]
    /\ buffer \in [Conn -> 0..Capacity]
    /\ sender \in [Sender -> SenderPC]
    /\ uids \in [Sender -> SUBSET User]
    /\ written \in [Sender -> SUBSET Conn]
    /\ target \in [Sender -> SUBSET Conn]

(* One writer at most, and nobody beside it; only goroutines in Register   *)
(* or Unregister hold or await Lock, none both, and only those that loop over the     *)
(* registry hold RLock.                                                    *)
LockInv ==
    /\ \A c, d \in locked : c = d
    /\ locked # {} => reading = {}
    /\ locked \cap locking = {}
    /\ \A c \in locked \cup locking : server[c] \in {"registering", "unregistering"}
    /\ reading = {s \in Sender : sender[s] \in {"loop", "write"}}

IInv == VarsType /\ LockInv /\ RegistryIsServed

-----------------------------------------------------------------------------
(* LockInv's exclusion is TypeOK's.                                        *)
LEMMA IInvTypeOK == IInv => TypeOK
  <1> SUFFICES ASSUME IInv PROVE TypeOK
    OBVIOUS
  <1>1. Cardinality(locked) <= 1
    <2>1. CASE locked = {}
      BY <2>1, FS_EmptySet
    <2>2. CASE locked # {}
      <3>1. PICK c \in locked : locked = {c}
        BY <2>2 DEF IInv, LockInv
      <3> QED  BY <3>1, FS_Singleton
    <2> QED  BY <2>1, <2>2
  <1> QED  BY <1>1 DEF IInv, VarsType, LockInv, TypeOK

LEMMA InitIInv == Init => IInv
  <1> SUFFICES ASSUME Init PROVE IInv
    OBVIOUS
  <1>1. VarsType
    BY CapacityAssumption DEF Init, VarsType, ServerPC, SenderPC
  <1>2. LockInv
    BY DEF Init, LockInv
  <1>3. RegistryIsServed
    BY DEF Init, RegistryIsServed
  <1> QED  BY <1>1, <1>2, <1>3 DEF IInv

(* Unlock hands RLock to senders only, who were waiting for it.            *)
LEMMA UnlockKeeps ==
    ASSUME IInv, Unlock
    PROVE  /\ locked' = {}
           /\ reading' \subseteq Sender
           /\ sender' \in [Sender -> SenderPC]
           /\ reading' = {s \in Sender : sender'[s] \in {"loop", "write"}}
  <1>1. sender' \in [Sender -> SenderPC]
    BY DEF Unlock, IInv, VarsType, SenderPC
  <1>2. \A s \in Sender : sender'[s] = IF sender[s] = "rlock" THEN "loop" ELSE sender[s]
    BY DEF Unlock
  <1>3. \A s : s \in reading' <=> s \in reading \/ (s \in Sender /\ sender[s] = "rlock")
    BY DEF Unlock, WaitsForRLock
  <1>4. \A s : s \in reading' <=> s \in Sender /\ sender'[s] \in {"loop", "write"}
    BY <1>2, <1>3 DEF IInv, LockInv
  <1> QED  BY <1>1, <1>4 DEF Unlock

-----------------------------------------------------------------------------
(* serveWS.                                                                *)

(* Asking for the lock touches neither it nor the registry.                *)
LEMMA AskKeeps ==
    ASSUME IInv, NEW c \in Conn, Connect(c) \/ ReadFails(c)
    PROVE  IInv'
  <1>1. PICK pc \in {"registering", "unregistering"} :
            /\ server' = [server EXCEPT ![c] = pc]
            /\ server[c] \in {"serving", "unregistering"} <=> pc \in {"serving", "unregistering"}
    BY DEF Connect, ReadFails
  <1>2. /\ client' \in [Conn -> {"away", "connected", "gone"}]
        /\ locking' = locking \cup {c}
        /\ UNCHANGED <<conns, locked, reading, owner, buffer, sender, push>>
    BY DEF Connect, ReadFails, IInv, VarsType
  <1>3. /\ server'[c] = pc
        /\ \A d \in Conn \ {c} : server'[d] = server[d]
    BY <1>1 DEF IInv, VarsType
  <1>4. VarsType'
    BY <1>1, <1>2 DEF IInv, VarsType, ServerPC, push
  <1>5. LockInv'
    <2>1. \A d \in locked' \cup locking' : server'[d] \in {"registering", "unregistering"}
      BY <1>1, <1>2, <1>3 DEF IInv, VarsType, LockInv
    <2>2. c \notin locked
      BY DEF Connect, ReadFails, IInv, LockInv
    <2> QED  BY <1>2, <2>1, <2>2 DEF IInv, LockInv
  <1>6. RegistryIsServed'
    BY <1>1, <1>2, <1>3 DEF IInv, RegistryIsServed
  <1> QED  BY <1>4, <1>5, <1>6 DEF IInv

(* Lock comes when nobody holds it, in either way.                         *)
LEMMA AcquireKeeps ==
    ASSUME IInv, NEW c \in Conn, Acquire(c)
    PROVE  IInv'
  <1>1. /\ c \in locking /\ locked = {} /\ reading = {}
        /\ locking' = locking \ {c} /\ locked' = {c}
        /\ UNCHANGED <<conns, reading, server, owner, client, buffer, sender, push>>
    BY DEF Acquire, CanLock
  <1>2. VarsType'
    BY <1>1 DEF IInv, VarsType, push
  <1>3. LockInv'
    BY <1>1 DEF IInv, LockInv
  <1>4. RegistryIsServed'
    BY <1>1 DEF IInv, RegistryIsServed
  <1> QED  BY <1>2, <1>3, <1>4 DEF IInv

(* The registry changes under the lock, with what serveWS does next.       *)
LEMMA RegistryKeeps ==
    ASSUME IInv, NEW c \in Conn, Register(c) \/ Unregister(c)
    PROVE  IInv'
  <1>1. /\ c \in locked /\ Unlock
        /\ UNCHANGED <<locking, owner, client, buffer, push>>
    BY DEF Register, Unregister
  <1>2. \A d \in locked : d = c
    BY <1>1 DEF IInv, LockInv
  <1>3. \/ /\ conns' = [conns EXCEPT ![owner[c]] = conns[owner[c]] \cup {c}]
           /\ server' = [server EXCEPT ![c] = "serving"]
        \/ /\ conns' = [conns EXCEPT ![owner[c]] = conns[owner[c]] \ {c}]
           /\ server' = [server EXCEPT ![c] = "closed"]
    BY DEF Register, Unregister
  <1>4. /\ owner[c] \in User
        /\ \A d \in Conn \ {c} : server'[d] = server[d]
        /\ \A u \in User \ {owner[c]} : conns'[u] = conns[u]
    BY <1>3 DEF IInv, VarsType
  <1>5. conns' \in [User -> SUBSET Conn] /\ server' \in [Conn -> ServerPC]
    BY <1>3, <1>4 DEF IInv, VarsType, ServerPC
  <1>6. VarsType'
    BY <1>1, <1>5, UnlockKeeps DEF IInv, VarsType, push
  <1>7. c \notin locking
    BY <1>1 DEF IInv, LockInv
  <1>8. LockInv'
    <2>1. \A d \in locking : server'[d] \in {"registering", "unregistering"}
      BY <1>4, <1>7 DEF IInv, VarsType, LockInv
    <2> QED  BY <1>1, <2>1, UnlockKeeps DEF IInv, LockInv
  <1>9. ASSUME NEW d \in Conn, NEW u \in User
        PROVE  (d \in conns[u] <=> server[d] \in {"serving", "unregistering"} /\ owner[d] = u)'
    <2>1. d \in conns[u] <=> server[d] \in {"serving", "unregistering"} /\ owner[d] = u
      BY DEF IInv, RegistryIsServed
    <2>2. CASE d # c
      <3>1. d \in conns'[u] <=> d \in conns[u]
        BY <1>3, <1>4, <2>2 DEF IInv, VarsType
      <3> QED  BY <1>1, <1>4, <2>1, <2>2, <3>1
    <2>3. CASE d = c
      BY <1>1, <1>3, <1>4, <2>1, <2>3 DEF IInv, VarsType
    <2> QED  BY <2>2, <2>3
  <1> QED  BY <1>6, <1>8, <1>9 DEF IInv, RegistryIsServed

-----------------------------------------------------------------------------
(* The pushes.                                                             *)

(* RLock comes when no writer holds or awaits the lock.                    *)
LEMMA PushKeeps ==
    ASSUME IInv, NEW s \in Sender, NEW U \in SUBSET User, Push(s, U)
    PROVE  IInv'
  <1>1. /\ sender[s] = "idle" /\ uids' = [uids EXCEPT ![s] = U]
        /\ UNCHANGED <<conns, locked, locking, server, owner, client, buffer, written, target>>
    BY DEF Push
  <1>2. RegistryIsServed'
    BY <1>1 DEF IInv, RegistryIsServed
  <1>3. CASE CanRLock
    <2>1. /\ locked = {} /\ reading' = reading \cup {s}
          /\ sender' = [sender EXCEPT ![s] = "loop"]
      BY <1>3 DEF Push, CanRLock
    <2>2. VarsType'
      BY <1>1, <2>1 DEF IInv, VarsType, SenderPC
    <2>3. LockInv'
      BY <1>1, <2>1 DEF IInv, VarsType, LockInv
    <2> QED  BY <1>2, <2>2, <2>3 DEF IInv
  <1>4. CASE ~CanRLock
    <2>1. reading' = reading /\ sender' = [sender EXCEPT ![s] = "rlock"]
      BY <1>4 DEF Push
    <2>2. VarsType'
      BY <1>1, <2>1 DEF IInv, VarsType, SenderPC
    <2>3. LockInv'
      BY <1>1, <2>1 DEF IInv, VarsType, LockInv
    <2> QED  BY <1>2, <2>2, <2>3 DEF IInv
  <1> QED  BY <1>3, <1>4

(* Within the loop the sender keeps RLock, and a write fits the buffer.    *)
LEMMA LoopKeeps ==
    ASSUME IInv, NEW s \in Sender,
           (\E c \in Conn : BeginWrite(s, c)) \/ EndWrite(s)
    PROVE  IInv'
  <1>1. PICK pc \in {"loop", "write"} :
            sender[s] \in {"loop", "write"} /\ sender' = [sender EXCEPT ![s] = pc]
    BY DEF BeginWrite, EndWrite
  <1>2. /\ UNCHANGED <<conns, lock, server, owner, client, uids>>
        /\ written' \in [Sender -> SUBSET Conn]
        /\ target' \in [Sender -> SUBSET Conn]
    BY DEF BeginWrite, EndWrite, IInv, VarsType
  <1>3. buffer' \in [Conn -> 0..Capacity]
    <2>1. CASE \E c \in Conn : BeginWrite(s, c)
      BY <2>1 DEF BeginWrite, IInv, VarsType
    <2>2. CASE EndWrite(s)
      <3>1. \A c \in Conn : c \in target[s] /\ client[c] # "gone" => buffer[c] + 1 \in 0..Capacity
        BY <2>2, CapacityAssumption DEF EndWrite, IInv, VarsType
      <3> QED  BY <2>2, <3>1 DEF EndWrite, IInv, VarsType
    <2> QED  BY <2>1, <2>2
  <1>4. VarsType'
    BY <1>1, <1>2, <1>3 DEF IInv, VarsType, SenderPC, lock
  <1>5. LockInv'
    BY <1>1, <1>2 DEF IInv, VarsType, LockInv, lock
  <1>6. RegistryIsServed'
    BY <1>2 DEF IInv, RegistryIsServed
  <1> QED  BY <1>4, <1>5, <1>6 DEF IInv

(* RLock is given back with the end of the loop, a panic's too.            *)
LEMMA RUnlockKeeps ==
    ASSUME IInv, NEW s \in Sender, RUnlock(s)
    PROVE  IInv'
  <1>1. VarsType'
    BY DEF RUnlock, IInv, VarsType, SenderPC
  <1>2. LockInv'
    BY DEF RUnlock, IInv, VarsType, LockInv
  <1>3. RegistryIsServed'
    BY DEF RUnlock, IInv, RegistryIsServed
  <1> QED  BY <1>1, <1>2, <1>3 DEF IInv

(* The clients touch neither the lock nor the registry.                    *)
LEMMA ClientKeeps ==
    ASSUME IInv, NEW c \in Conn, Drain(c) \/ Disconnect(c)
    PROVE  IInv'
  <1>1. /\ buffer' \in [Conn -> 0..Capacity]
        /\ client' \in [Conn -> {"away", "connected", "gone"}]
    <2>1. CASE Drain(c)
      <3>1. buffer[c] - 1 \in 0..Capacity
        BY <2>1, CapacityAssumption DEF Drain, IInv, VarsType
      <3> QED  BY <2>1, <3>1 DEF Drain, IInv, VarsType
    <2>2. CASE Disconnect(c)
      BY <2>2, CapacityAssumption DEF Disconnect, IInv, VarsType
    <2> QED  BY <2>1, <2>2
  <1>2. UNCHANGED <<conns, lock, server, owner, sender, push>>
    BY DEF Drain, Disconnect
  <1> QED  BY <1>1, <1>2 DEF IInv, VarsType, LockInv, RegistryIsServed, lock, push

-----------------------------------------------------------------------------
(* Every step keeps the invariant.                                         *)
LEMMA NextIInv == IInv /\ [Next]_vars => IInv'
  <1> SUFFICES ASSUME IInv, [Next]_vars PROVE IInv'
    OBVIOUS
  <1>1. ASSUME NEW c \in Conn, Connect(c) \/ Serve(c) \/ Drain(c) \/ Disconnect(c)
        PROVE  IInv'
    BY <1>1, AskKeeps, AcquireKeeps, RegistryKeeps, ClientKeeps DEF Serve
  <1>2. ASSUME NEW s \in Sender, SendToUsers(s) \/ BroadcastAll(s) \/ Send(s)
        PROVE  IInv'
    <2>1. CASE SendToUsers(s) \/ BroadcastAll(s)
      BY <2>1, PushKeeps DEF SendToUsers, BroadcastAll
    <2>2. CASE Send(s)
      BY <2>2, LoopKeeps, RUnlockKeeps DEF Send, Panic, EndPush
    <2> QED  BY <1>2, <2>1, <2>2
  <1>3. CASE UNCHANGED vars
    BY <1>3 DEF IInv, VarsType, LockInv, RegistryIsServed, vars, lock, push
  <1> QED  BY <1>1, <1>2, <1>3 DEF Next

THEOREM SpecIInv == Spec => []IInv
  BY InitIInv, NextIInv, PTL DEF Spec

(* The variables have their types, and no writer holds the lock beside     *)
(* anyone else, for any number of goroutines.                              *)
THEOREM SpecTypeOK == Spec => []TypeOK
  BY SpecIInv, IInvTypeOK, PTL

(* The registry holds exactly the connections that are served, each under  *)
(* its own user, in whatever order they come and go.                       *)
THEOREM SpecRegistryIsServed == Spec => []RegistryIsServed
  <1>1. IInv => RegistryIsServed
    BY DEF IInv
  <1> QED  BY <1>1, SpecIInv, PTL

(* Only Register and Unregister change the registry, and they hold Lock.   *)
LEMMA StepStable == IInv /\ [Next]_vars => [reading # {} => UNCHANGED conns]_conns
  <1> SUFFICES ASSUME IInv, [Next]_vars, conns' # conns PROVE reading = {}
    OBVIOUS
  <1>1. PICK c \in Conn : Register(c) \/ Unregister(c)
    BY DEF Next, Connect, Serve, Acquire, ReadFails, Drain, Disconnect, SendToUsers, BroadcastAll,
           Push, Send, BeginWrite, EndWrite, Panic, EndPush, RUnlock, vars
  <1>2. c \in locked
    BY <1>1 DEF Register, Unregister
  <1> QED  BY <1>2 DEF IInv, LockInv

(* The registry never changes under a goroutine that loops over it.        *)
THEOREM SpecRegistryStableWhileRead == Spec => RegistryStableWhileRead
  <1>1. IInv /\ [Next]_vars => [reading # {} => UNCHANGED conns]_conns
    BY StepStable
  <1> QED  BY <1>1, SpecIInv, PTL DEF Spec, RegistryStableWhileRead

===============================================================================
