--------------------------------- MODULE Hub ---------------------------------
(***************************************************************************)
(* The WebSocket hub (internal/ws): its registry of connections, the       *)
(* RWMutex that guards it, the goroutine serveWS runs per connection, and  *)
(* the request goroutines that push payloads with SendToUsers or           *)
(* BroadcastAll.                                                           *)
(*                                                                         *)
(* The lock is Go's: a goroutine waiting for Lock keeps later RLocks out,  *)
(* and Unlock lets in every RLock that waits.  WriteMessage returns when   *)
(* the connection's buffer has taken the payload; a client drains its      *)
(* buffer, disconnects, or does neither.  A WriteMessage that begins while *)
(* another runs on the same connection is outside the contract of          *)
(* *websocket.Conn: it panics (net/http recovers it, ending the request)   *)
(* or the two writes go on side by side.                                   *)
(***************************************************************************)
EXTENDS Naturals, FiniteSets

CONSTANTS
    User,       \* uids
    Conn,       \* connections, each served by a goroutine of its own
    Sender,     \* request goroutines that push payloads
    Capacity    \* payloads a connection's buffer takes from a client that
                \*   does not read

ASSUME CapacityAssumption == Capacity \in Nat

ASSUME ProcAssumption == Conn \cap Sender = {}

VARIABLES
    conns,      \* conns[u]: the registered connections of u
    locked,     \* the goroutines that hold Lock
    locking,    \* the goroutines that wait for Lock
    reading,    \* the goroutines that hold RLock
    server,     \* server[c]: what serveWS does for c
    owner,      \* owner[c]: the uid of c's token
    client,     \* client[c]: whether c's client is connected
    buffer,     \* buffer[c]: payloads written to c and not read by its client
    sender,     \* sender[s]: what s does
    uids,       \* uids[s]: whom s sends to
    written,    \* written[s]: the connections s is done with
    target      \* target[s]: the connection in s's WriteMessage, a set of one

lock == <<locked, locking, reading>>
push == <<uids, written, target>>
vars == <<conns, lock, server, owner, client, buffer, sender, push>>

ServerPC == {"new", "registering", "serving", "unregistering", "closed"}
SenderPC == {"idle", "rlock", "loop", "write"}

Init ==
    /\ conns = [u \in User |-> {}]
    /\ locked = {} /\ locking = {} /\ reading = {}
    /\ server = [c \in Conn |-> "new"]
    /\ owner \in [Conn -> User]
    /\ client = [c \in Conn |-> "away"]
    /\ buffer = [c \in Conn |-> 0]
    /\ sender = [s \in Sender |-> "idle"]
    /\ uids = [s \in Sender |-> {}]
    /\ written = [s \in Sender |-> {}]
    /\ target = [s \in Sender |-> {}]

-----------------------------------------------------------------------------
(* sync.RWMutex.                                                           *)

WaitsForRLock == {s \in Sender : sender[s] = "rlock"}

CanRLock_Always == locked = {}

CanRLock == locked = {} /\ locking = {}

CanLock_BesideReaders == locked = {}

CanLock == locked = {} /\ reading = {}

-----------------------------------------------------------------------------
(* serveWS, one goroutine per connection.                                  *)

(* The client connects with a valid token; Register asks for the lock.     *)
Connect(c) ==
    /\ server[c] = "new"
    /\ server' = [server EXCEPT ![c] = "registering"]
    /\ client' = [client EXCEPT ![c] = "connected"]
    /\ locking' = locking \cup {c}
    /\ UNCHANGED <<conns, locked, reading, owner, buffer, sender, push>>

Acquire(c) ==
    /\ c \in locking
    /\ CanLock
    /\ locking' = locking \ {c}
    /\ locked' = {c}
    /\ UNCHANGED <<conns, reading, server, owner, client, buffer, sender, push>>

(* Unlock: the senders waiting for RLock hold it before another writer.    *)
Unlock ==
    /\ locked' = {}
    /\ reading' = reading \cup WaitsForRLock
    /\ sender' = [s \in Sender |-> IF sender[s] = "rlock" THEN "loop" ELSE sender[s]]

Register(c) ==
    /\ c \in locked /\ server[c] = "registering"
    /\ conns' = [conns EXCEPT ![owner[c]] = @ \cup {c}]
    /\ server' = [server EXCEPT ![c] = "serving"]
    /\ Unlock
    /\ UNCHANGED <<locking, owner, client, buffer, push>>

ReadFails_NoUnregister(c) ==
    /\ server[c] = "serving" /\ client[c] = "gone"
    /\ server' = [server EXCEPT ![c] = "closed"]
    /\ UNCHANGED <<conns, lock, owner, client, buffer, sender, push>>

(* ReadMessage fails once the client has disconnected; the deferred        *)
(* Unregister asks for the lock.                                           *)
ReadFails(c) ==
    /\ server[c] = "serving" /\ client[c] = "gone"
    /\ server' = [server EXCEPT ![c] = "unregistering"]
    /\ locking' = locking \cup {c}
    /\ UNCHANGED <<conns, locked, reading, owner, client, buffer, sender, push>>

Unregister_AllOfUser(c) ==
    /\ c \in locked /\ server[c] = "unregistering"
    /\ conns' = [conns EXCEPT ![owner[c]] = {}]
    /\ server' = [server EXCEPT ![c] = "closed"]
    /\ Unlock
    /\ UNCHANGED <<locking, owner, client, buffer, push>>

Unregister(c) ==
    /\ c \in locked /\ server[c] = "unregistering"
    /\ conns' = [conns EXCEPT ![owner[c]] = @ \ {c}]
    /\ server' = [server EXCEPT ![c] = "closed"]
    /\ Unlock
    /\ UNCHANGED <<locking, owner, client, buffer, push>>

-----------------------------------------------------------------------------
(* SendToUsers and BroadcastAll, which are one loop over different parts   *)
(* of the registry.                                                        *)

(* The connections left of the loop over the registry, which is read as it *)
(* goes; Go leaves the order of a map open.                                *)
Remaining(s) == UNION {conns[u] : u \in uids[s]} \ written[s]

(* A request goroutine that has a payload for the users in U asks for      *)
(* RLock, and has it at once unless a writer holds or awaits the lock.     *)
Push(s, U) ==
    /\ sender[s] = "idle"
    /\ IF CanRLock
       THEN reading' = reading \cup {s} /\ sender' = [sender EXCEPT ![s] = "loop"]
       ELSE UNCHANGED reading /\ sender' = [sender EXCEPT ![s] = "rlock"]
    /\ uids' = [uids EXCEPT ![s] = U]
    /\ UNCHANGED <<conns, locked, locking, server, owner, client, buffer, written, target>>

SendToUsers(s) == \E U \in SUBSET User : Push(s, U)

BroadcastAll(s) == Push(s, User)

(* The deferred RUnlock, after the loop or a panic.                        *)
RUnlock(s) ==
    /\ reading' = reading \ {s}
    /\ sender' = [sender EXCEPT ![s] = "idle"]
    /\ uids' = [uids EXCEPT ![s] = {}]
    /\ written' = [written EXCEPT ![s] = {}]
    /\ target' = [target EXCEPT ![s] = {}]
    /\ UNCHANGED <<conns, locked, locking, server, owner, client, buffer>>

BeginWrite(s, c) ==
    /\ sender[s] = "loop"
    /\ c \in Remaining(s)
    /\ sender' = [sender EXCEPT ![s] = "write"]
    /\ target' = [target EXCEPT ![s] = {c}]
    /\ UNCHANGED <<conns, lock, server, owner, client, buffer, uids, written>>

(* WriteMessage returns once the buffer has taken the payload, or with an  *)
(* error, which is ignored, when the client has disconnected.              *)
EndWrite(s) ==
    /\ sender[s] = "write"
    /\ \A c \in target[s] : client[c] = "gone" \/ buffer[c] < Capacity
    /\ buffer' = [c \in Conn |->
            IF c \in target[s] /\ client[c] # "gone" THEN buffer[c] + 1 ELSE buffer[c]]
    /\ sender' = [sender EXCEPT ![s] = "loop"]
    /\ written' = [written EXCEPT ![s] = @ \cup target[s]]
    /\ target' = [target EXCEPT ![s] = {}]
    /\ UNCHANGED <<conns, lock, server, owner, client, uids>>

Panic_KeepsRLock(s) ==
    /\ sender[s] = "write"
    /\ \E t \in Sender \ {s} : target[t] = target[s]
    /\ sender' = [sender EXCEPT ![s] = "idle"]
    /\ uids' = [uids EXCEPT ![s] = {}]
    /\ written' = [written EXCEPT ![s] = {}]
    /\ target' = [target EXCEPT ![s] = {}]
    /\ UNCHANGED <<conns, lock, server, owner, client, buffer>>

(* Two writes run on one connection: one of them panics.                   *)
Panic(s) ==
    /\ sender[s] = "write"
    /\ \E t \in Sender \ {s} : target[t] = target[s]
    /\ RUnlock(s)

EndPush(s) ==
    /\ sender[s] = "loop"
    /\ Remaining(s) = {}
    /\ RUnlock(s)

-----------------------------------------------------------------------------
(* The clients.                                                            *)

Drain(c) ==
    /\ client[c] = "connected" /\ buffer[c] > 0
    /\ buffer' = [buffer EXCEPT ![c] = @ - 1]
    /\ UNCHANGED <<conns, lock, server, owner, client, sender, push>>

Disconnect(c) ==
    /\ client[c] = "connected"
    /\ client' = [client EXCEPT ![c] = "gone"]
    /\ buffer' = [buffer EXCEPT ![c] = 0]
    /\ UNCHANGED <<conns, lock, server, owner, sender, push>>

Serve(c) ==
    \/ Acquire(c) \/ Register(c) \/ ReadFails(c) \/ Unregister(c)

Send(s) ==
    \/ \E c \in Conn : BeginWrite(s, c)
    \/ EndWrite(s) \/ Panic(s) \/ EndPush(s)

Next ==
    \/ \E c \in Conn : Connect(c) \/ Serve(c) \/ Drain(c) \/ Disconnect(c)
    \/ \E s \in Sender : SendToUsers(s) \/ BroadcastAll(s) \/ Send(s)

(* Goroutines that can go on do, and the mutex and the connections serve   *)
(* waiting goroutines in turn; nobody has to connect or to push.           *)
ServerFairness ==
    /\ \A c \in Conn : SF_vars(Acquire(c)) /\ WF_vars(Serve(c))
    /\ \A s \in Sender : SF_vars(EndWrite(s)) /\ WF_vars(Send(s))

(* Clients that stay connected read what they are sent.                    *)
ClientFairness == \A c \in Conn : WF_vars(Drain(c))

Spec == Init /\ [][Next]_vars

ServerSpec == Spec /\ ServerFairness

FairSpec == ServerSpec /\ ClientFairness

-----------------------------------------------------------------------------
(* The variables have their types, and the lock is never held by a writer  *)
(* beside anyone else.                                                     *)
TypeOK ==
    /\ conns \in [User -> SUBSET Conn]
    /\ locked \subseteq Conn /\ locking \subseteq Conn /\ reading \subseteq Sender
    /\ server \in [Conn -> ServerPC]
    /\ owner \in [Conn -> User]
    /\ client \in [Conn -> {"away", "connected", "gone"}]
    /\ buffer \in [Conn -> 0..Capacity]
    /\ sender \in [Sender -> SenderPC]
    /\ uids \in [Sender -> SUBSET User]
    /\ written \in [Sender -> SUBSET Conn]
    /\ target \in [Sender -> SUBSET Conn]
    /\ Cardinality(locked) <= 1 /\ (locked # {} => reading = {})

(* The registry holds exactly the connections that are served, each under  *)
(* its own user: a user's other devices stay when one disconnects, and a   *)
(* closed connection is not written to again.                              *)
RegistryIsServed ==
    \A c \in Conn, u \in User :
        c \in conns[u] <=> server[c] \in {"serving", "unregistering"} /\ owner[c] = u

(* The registry never changes under a goroutine that loops over it, which  *)
(* for a Go map would be a fatal error.                                    *)
RegistryStableWhileRead == [][reading # {} => UNCHANGED conns]_conns

(* If clients read, every new connection is registered in the end, however *)
(* many pushes there are: senders that come later do not keep it waiting.  *)
Registers == \A c \in Conn : server[c] = "registering" ~> server[c] = "serving"

(* If clients read, every push ends, one that panics included.             *)
PushesEnd == \A s \in Sender : sender[s] # "idle" ~> sender[s] = "idle"

(* If clients that stay connected read, the entry of one that has gone is  *)
(* removed in the end, whatever is being pushed and whoever else comes and *)
(* goes.  One that stays connected and never reads keeps it there.         *)
CleansUp == \A c \in Conn : client[c] = "gone" ~> \A u \in User : c \notin conns[u]

=============================================================================
