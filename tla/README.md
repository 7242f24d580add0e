# Verification of chatroom-server

TLA+ models of the chat room server (`src/`, Go), the TLC runs that check them
on small instances, and theorems that TLAPS checks for every value of the
constants. Source references are relative to `src/`; line numbers are those of
the commit beside this directory.

## 1. Inventory

The server is one process: HTTP handlers over MySQL, a Redis cache of group
member lists, a MinIO bucket for media, and an in-memory registry of WebSocket
connections. Handlers run concurrently, one goroutine per request. Apart from
three transactions (`CreateGroupRoom`, `GetOrCreateFriendRoom`, and what a single
statement gives) nothing is locked across two database calls, and every handler
has a context (5 s, 20 s for uploads) that may end it between any two of them.

| Component | State | Operations | Talks to | What is hard | What makes it correct |
|---|---|---|---|---|---|
| Group membership and roles (`internal/room`) | `group_member` rows | createGroup, addMember, removeMember, exitGroup, setAdmin, listMembers | MySQL; invalidates the member cache | checks and writes are separate calls; requests cut off | one owner, the creator; nobody else takes the role away; decisions on roles that were never true together need both rows to change |
| Member cache (`internal/cache`, `message.groupMemberUIDs`) | one Redis entry per group, 5 minutes | Get, Set, Invalidate; read-through fill | Redis, MySQL | fill races with change and invalidation; failing Redis; lost invalidation | a list is wrong for a bounded time, for known reasons |
| Messages (`internal/message`) | `message`, `message_mark` | send, recall, mark, page | rooms, cache, hub | best-effort calls after the INSERT; overlapping sends; the recall window against two clocks | a pushed recall is stored; a sender recalls in time |
| Room activity and unread counts (`internal/room/store.go`) | `room.last_msg_id`, `room.active_time`, `contact.unread_count` | TouchRoom, BumpUnread, ResetUnread, markRead, listRooms | called by send | sends and resets interleave on one row; touches out of order | counts neither double nor lose a message; the preview goes back only for a reason |
| One-to-one rooms | `room`, `room_friend` | createFriendRoom / GetOrCreateFriendRoom | MySQL | look-up and creation are separate; no unique key | a room has its pair; an existing room is found again |
| WebSocket hub (`internal/ws`) | `Hub.conns` under an RWMutex | Register, Unregister, SendToUsers, BroadcastAll, serveWS | send, recall, invite push through it | blocking writes under RLock; two writers on one connection; writer preference | the registry holds exactly the served connections; pushes and registrations end |
| Accounts and profiles (`internal/auth`) | `user` | register, login, lookup, updateProfile | MySQL | read-modify-write of a row | an update of a column is lost only to one that had read the row before it |
| Tokens and middleware (`internal/auth`) | none | GenerateToken, ParseToken, Middleware | all protected routes | – | – |
| Calls (`internal/call`) | none; grants outlive their requests | token, invite | rooms, hub, LiveKit | check and listing are separate calls; a grant is not revoked | an invitation is wrong only about who came or went meanwhile; a removed member can join for a bounded time |
| Media (`internal/media`) | objects in the bucket | upload, download | storage | either of two Puts fails, with effect or without | an id in an answer has its object |
| Object storage (`internal/storage`) | MinIO bucket | Put; Get, which changes nothing | MinIO | a Put that is reported as failed may have stored its object | see media |
| Paging and marks | `message`, `message_mark` | page, mark | MySQL | inserts between two pages, rows that appear out of the order of their ids; pushes before the connection is registered | pages neither skip nor repeat; pages and pushes together miss nothing |
| Start and shutdown (`cmd/server`) | process phase, running requests, hijacked connections | main | everything | 10 s limit against 5 s, 20 s and unlimited requests; hijacked connections; starts that are cut off | only a complete schema is served; Shutdown ends, and cuts off only what it must |
| Migrations (`internal/db`) | `schema_migrations` | Connect, Migrate | main, at every start | crash within a migration, whose statements are each final | what the mark says was done was done |
| Configuration (`internal/config`) | – | Load | once at start | – | – |

`PROJECT.json` lists the hazards at their lines, with the properties that cover
each, and for those no property covers, why.

## 2. Plan

Built in this order:

1. `Membership`, `RemovalAuthority`, proved in `GroupProofs`
2. `MemberCache`, proved in `MemberCacheProofs`
3. `Messaging`, `RoomActivity`, proved in `RoomActivityProofs`
4. `FriendRooms`, `FriendRoomsProofs`
5. `Hub`, `HubProofs`
6. `Profile`, `ProfileProofs`
7. `CachedGroup`: `Membership` composed with the readers of `MemberCache`, and
   shown to implement it, proved in `GroupProofs`
8. `Timeline`, `TimelineProofs`
9. `GroupCalls`, proved in `MemberCacheProofs`
10. `Lifecycle`, `LifecycleProofs`
11. `GroupRoom`: `RoomActivity` composed with `MemberCache`, and shown to implement
    it, proved in `RoomActivityProofs`

`CachedGroup` puts the real handlers in the place of `MemberCache`'s changes, and
`GroupRoom` the real senders in the place of its readers; `MemberCache` is what the
two have between them. What could come next is a module that has both at once,
and one that has the `Timeline` of a client in a room whose members change.

## 3. Modules

Requests are records in a function from slots (`Req`) to requests; `pc` names the
call a handler makes next, and one action is one call that another handler could
come between. `Idle` is a free slot. A slot is reused as soon as its handler has
answered, so a behaviour holds any number of requests, `Cardinality(Req)` at a
time. A definition with an underscore and a capital letter after a definition's
name (`Set_DoubleTTL`) is that definition with a plausible mistake; it is used by
nothing, and is there to show that the property it is paired with in
`PROJECT.json` notices.

### Membership

`groupMember[g][u]` is u's role in the row of g, or `NoRow` (`GetMember`'s
`ErrNotFound`); `creator[g]` remembers who ran the creating transaction. Each
handler of `internal/room/handler.go` is a chain of actions: `Receive`, the check
on what `GetMember` returns (`AddMemberCheck`, `ExitGroupCheck`, `SetAdminCheck`,
`RemoveMemberGetActor` followed by `RemoveMemberGetTarget`), the statement
(`AddMemberWrite`, `DeleteWrite`, `SetAdminWrite`), and `InvalidateCache` except for
setAdmin, whose last call is the UPDATE. `CreateGroup` is one transaction and
one action. `Abort` ends a handler before any of its calls: a database error, the
end of the context, a client that has left, a crash of the server (which aborts
them all).

`RemovalAuthority` adds history to each running request: whether the actor could
have removed the target at some instant, and whether the rows of either have
changed since.

### MemberCache

One group. `members` is the table, `entry` the Redis entry with its time of
expiry, `writer[w]` a change between its statement and its invalidation, `reader[r]`
a call of `groupMemberUIDs` at `get`, `list`, `set` or `done` (its caller is using
the list). `now` counts ticks; `Tick` may not pass the end of a running call's
context. `entry.listedAt`, `entry.raced` and `entry.missed`, and `changedAt[u]`, are
history. With `Faults`, `Get` and `Set` may fail (their errors are ignored) and
an invalidation may be lost (`_ = h.cache.Invalidate`, an INSERT that was executed
but reported as failed, a crash).

### CachedGroup

The handlers of `Membership`, call by call, beside the readers of `MemberCache` on
one of the groups. Members of the group are the users with a row; a handler owes an
invalidation while its next call is `InvalidateCache`. `Cache` is `MemberCache` with
these two in the place of its `members` and `writer`, and `ImplementsMemberCache`
says that the composition refines it: DeleteWrite is RemoveMember or, when there
is no row, RemoveNobody; AddMemberWrite on a missing row is AddMember; InvalidateCache
is itself; Abort before it is InvalidateLost; everything else, setAdmin's write
and all that happens to other groups included, leaves the table and the list
alone. Groups exist from the start: creating the group is what its first list
comes after, and creating another does not touch it.

### GroupCalls

`MemberCache` with the handlers of `internal/call` for a group room: `CallReceive`,
`CallCheck` (GetRoom, IsParticipant), then `ListOthers` and `Push` for invite or
`IssueToken` for token; `CallAbort` ends a handler anywhere. `grant[u]` is when
the last grant made for u expires; nothing revokes it. In a one-to-one room the
participants never change, so there is nothing to model; a hot room has everybody.

### Timeline

One room and one client that is in it. A row's id and create_time are taken when its
INSERT starts (`InsertStart`) and the row is visible when it ends (`InsertEnd`), so rows
may appear out of the order of their ids. `Broadcast` and `RecallBroadcast` reach the
client if its connection is registered. The client is `Upgrade`d (the handshake is
answered), `Register`ed by the server some time later, reads pages (`ReadPage`,
`ListByRoomCursor`) until one is short, and may `Disconnect` and start afresh. The
clock is there for `CanRecall`, which compares `create_time`, of whole seconds, with
the server's clock; `RecallAdmit` decides and `SetStatus` executes later, at most
Budget after it.

### Lifecycle

The process: `Start`, each migration as `MigrateBegin` (its version is marked dirty),
`Execute` for each of its statements and `MigrateEnd` (the mark is cleared), `Serve`, `StartShutdown` on SIGTERM, `Exit` when Shutdown
returns and main ends, `Crash` anywhere; then `Start` again. A request reads its body
(`HaveBody` is its end and makes the context), works under the context, answers
(`Finish`); an upload's calls of the store are `PutFile`, `PutThumb` and `PutFails`, which
may have stored its object or not. WebSocket connections are opened and closed beside
them. Time is what is left of each context and of Shutdown's 10 s; `Tick` may not
pass the end of one. golang-migrate's dirty flag, net/http's Shutdown and MinIO are
modelled from how the code uses them. `executed` is what the tables have been through,
`schema` what `schema_migrations` says about it, and the code sees only the latter. A
version that was left dirty stops every later start until somebody repairs it by hand,
which is outside of the model.

### Messaging and RoomActivity

One room of any kind. `send` is `SendReceive` (GetRoom, whose answer never
changes, and canPost), `Insert`, `Broadcast`, `TouchRoom`, `ResolveOthers`,
`BumpUnread`, `ResetUnread`; one who may not post changes nothing. The member list
of a group is resolved three times and may come from the cache. `lists` is every
list the room has had, and a handler may be given any of them: how old a list can
be is for `GroupRoom` to say, and nothing shown here depends on it. `recall` is
`RecallReceive`, `RecallCheck`, `SetStatus`, `RecallBroadcast`; which role the caller
has and whether the message is recent is left open, as is who the caller is until
the check. `markRead` is one action. `CallFails` lets one of the ignored calls fail
and the handler go on; `Abort` stops a handler. No code creates a hot room: such
rooms come with the data.

`RoomActivity` adds the history that says which sends overlapped.

### GroupRoom

`RoomActivity` with `MemberCache` beside it (`Cache`): the two share `members`, and the
slots of the message handlers are the readers of the cache. A handler that
`NeedsList` (canPost, before it has a request; broadcast; trackActivity) `Ask`s,
which starts a groupMemberUIDs call; `Fetch` is one of that call's steps, hit, miss,
listing or Set; and `UseList` ends it and does what the handler does with the very list
the call has brought back. canPost of one who is not on it, or without a list, is
`Refuse`. `Work` is what a handler does without a list, and not while it waits for
one; `Fail` is a failure of either. `MemberChange` is a step of one of `MemberCache`'s
changes, which are the handlers of `Membership` (`CachedGroup`), and extends `lists`.
`Faults` is `MemberCache`'s: Redis fails and invalidations are lost. Those in `Stay`
are not removed, as in `Messaging`. A list is asked for again in every place that the
code asks for one, so the three lists of one send may be three different ones.

### FriendRooms

`room` and `friend` are committed rows; `nextId` is the AUTO_INCREMENT, which a
rolled back transaction does not give back. `Receive` orders the pair, `Select`
is the look-up, `InsertRoom`, `InsertFriend` and `Commit` the transaction, `End`
the answer or any failure. `migrations/000001_init.up.sql:29-36` has no unique key
on the pair, so `InsertFriend` never fails for it.

### Profile

One user's row. `user[f]` is the number of the update that column f's value is
from, 0 for the registration. `Receive` is a request that has passed validation and
names any of the two columns (a nil pointer is a column not named),
`GetUsersByIDs` and `UpdateProfile` are the two calls, `Abort` is whatever ends the
handler before either. `executed` and `seen` are history.

### Hub

The registry, Go's RWMutex (a waiting `Lock` keeps later `RLock`s out; `Unlock`
lets all waiting `RLock`s in), one serving goroutine per connection, goroutines
that push. `BeginWrite` and `EndWrite` are one WriteMessage, which returns when
the connection's buffer has taken the payload or the client has gone. A
connection is written to by one push at a time or not: two writers are outside of
the contract of `*websocket.Conn`, and then one of them may panic (`Panic`; net/http
recovers, the deferred `RUnlock` runs) or both go on. `SendToUsers` and
`BroadcastAll` are one loop over different users. The mutex, the connections and the clients are not code of this
repository; they are modelled from how it uses them.

## 4. Runs

Less than a minute each on two workers.

| Run | Instance | Checks | Shows |
|---|---|---|---|
| MCMembership | 3 users, 1 group, 2 handlers | `TypeOK`, `OwnerIsCreator`, `WrongRemovalNeedsBothChanged`, `OwnerOnlyDemotesItself`, `EntersAsMember` | 300 thousand states, all hold |
| MCMemberCache | 1 user, 2 changes, 2 readers, TTL 2, Budget 1, MaxTime 6, faults | `TypeOK`, `StalenessBounded`, `StaleHasCause` | 1.25 million states, all hold |
| MCCachedGroup | 2 users, 1 group, 1 handler at a time, 1 reader, TTL 1, Budget 1, MaxTime 1 | `ImplementsMemberCache` | 670 thousand states, holds |
| MCMessaging | 2 users (one stays, one comes and goes), 2 handlers, 2 messages, 1 fault or changes of the members (`OneTrouble`) | `TypeOK`, `PreviewOlderOnlyByOverlap`, `UnreadNeverOvercounts`, `UnreadNeverUndercounts` | 1.4 million states, all hold |
| MCGroupRoom | 2 users (one stays), 1 handler, 1 change at a time, 1 message, 1 fault, TTL 1, Budget 0, MaxTime 1, cache faults | `ImplementsRoomActivity`, `PostingBounded`, `CountingBounded` | 410 thousand states, all hold |
| MCTimeline | 2 messages, pages of 1, a second of 2 ticks, Window 2, Budget 1, MaxTime 4 | `TypeOK`, `PagesNeitherSkipNorRepeat`, `NothingMissed`, `RecallsSeen`, `RecallInTime` | 2.0 million states, all hold |
| MCGroupCalls | 2 users, 1 change, 1 reader and 1 call at a time, TTL 1, Budget 1, GrantTTL 1, MaxTime 2 | `CallTypeOK`, `InviteIsCurrent`, `JoinBounded` | 1.8 million states, all hold |
| MCLifecycle | 2 requests, 1 connection, 2 migrations of 2 statements, 2 uploads, ApiBudget 1, Grace 2, UploadBudget 4 | `TypeOK`, `ServesMigrated`, `AnsweredIsStored`, `ShutdownCutsOnly`, `ShutdownEnds` | 76 thousand states, all hold under fairness |
| MCFriendRooms | uids 1 to 3, 2 handlers, 3 room ids | `TypeOK`, `RoomHasItsPair`, `ExistingRoomIsReused` | 30 thousand states, all hold |
| MCFriendRoomsOne | uids 1 and 2 | `OneRoomPerPair` | violated: both look up before either creates |
| MCProfile | 2 handlers, 3 updates | `TypeOK`, `LostOnlyToRace` | 13 thousand states, all hold |
| MCHub | 2 users, 2 connections, 2 senders, buffer 1 | `TypeOK`, `RegistryIsServed`, `RegistryStableWhileRead`, `Registers`, `PushesEnd`, `CleansUp` | 51 thousand states, all hold under fairness |

### Why the bounds are enough

- *Membership.* Every decision relates an actor and a target; the third user lets
  someone else act between the two reads. Two handlers at a time suffice for a
  stale check followed by a conflicting write, and slots are reused, so one
  handler can be overtaken by many. Groups do not interact (each statement names
  one), hence one group. The theorems remove all three bounds.
- *MemberCache.* A list is wrong about each user independently, hence one user
  with two changes at a time (join and leave). TTL 2 and Budget 1 leave room for
  an entry that outlives its fill, and MaxTime 6 is more than
  MaxAge = TTL + 2 * Budget = 4 after the first change. The theorems remove the
  bounds. That MaxAge is tight was checked on this instance: with MaxAge - 1 the
  bound is violated.
- *CachedGroup.* A refinement is a matter of single steps: a second user is what
  it takes for an actor and a target to differ, the handler's slot is reused, and one
  reader is enough for a fill that a change races; an entry has expired at MaxTime 1.
  Other groups, more handlers at a time and longer clocks are left to the theorem.
- *GroupCalls.* Redis does not fail here: the list the messages are delivered by is
  stale after any race of a fill and a change. MaxTime 2 is GrantTTL + Budget after a
  change at the start, the first time at which a grant must be gone; the same with
  MaxTime 3 was checked once (5.9 million states: no violation). The theorems remove
  the bounds.
- *Timeline.* Two messages are what it takes for rows to appear in the opposite
  order of their ids; pages of one make every message a page's edge. Three messages
  and pages of two, without the clock, were checked once (1.75 million states: no
  violation). A second has two ticks, so create_time may lose half of one, and
  MaxTime 4 is more than Window + Budget = 3. The theorems remove the bounds.
- *Lifecycle.* ApiBudget < Grace < UploadBudget as in the code (5, 10 and 20 s). A
  second request lets one be late while another is at work; a second migration lets a
  start be cut off between the two, and a second statement within one. The theorems remove the bounds of all but liveness.
- *Messaging.* Two handlers and two messages are what it takes for two sends, or
  a send and a recall, to overlap; the third message adds nothing to the order of
  two (checked once without faults on 12.4 million states: no violation).
  MaxFaults 1 lets any single call fail or any single handler stop, at any
  point. `OneTrouble` stops at the first step that has had both a fault and a change of
  the members; without it the run has 2.8 million states (checked once: no
  violation). The theorems have neither bound.
- *GroupRoom.* A refinement, like a property of steps, takes one handler whose list is
  any the cache can give; what several handlers do to each other is `Messaging`'s. With
  Budget 0 a request and its calls fall into one tick, but changes, fills, failures
  and expiry still come between any two of them, and MaxAge = TTL = 1 is reached at
  MaxTime. Budget 1 and MaxTime 3 without failing message calls were checked once
  (750 thousand states: no violation). The theorems remove the bounds.
- *FriendRooms.* Three uids give two overlapping pairs; MaxRoom 3 lets a rolled back
  transaction use an id up. The theorems remove the bounds.
- *Profile.* A lost update takes two handlers; the third update shows that it can be
  repaired, or lost again. Three handlers and four updates were checked once
  (0.8 million states: no violation). The theorems remove the bounds.
- *Hub.* Two connections that may be of one user or of two, two senders that may
  meet on a connection, a buffer that is full after one payload. Connections are
  not reused: a client that comes back has a new one. The theorems remove the bounds
  of all but liveness.

Deadlock is checked in all runs that hold but MCProfile, where nothing is left to
do once MaxUpdate updates have been handled.

### Fairness

In `Hub`, `ServerFairness` says that goroutines that can go on
do (Go's scheduler), that a goroutine waiting for Lock is not overtaken for ever
(`sync.RWMutex` queues writers and keeps later readers out) and that two writes to one
connection take turns (the file descriptor's write lock queues them); hence
strong fairness of `Acquire` and `EndWrite`, and weak fairness of the rest of a
goroutine's steps. Connecting, disconnecting and pushing are never owed.
`ClientFairness` says that a client that stays connected reads. It is an assumption
on clients, not on this code: without it `Registers`, `PushesEnd` and `CleansUp` all
fail, since WriteMessage has no deadline and is called under RLock. What the three show
is that nothing else can keep a goroutine waiting for ever: neither a stream of pushes,
nor waiting writers, nor clients that stall for a while or leave.

In `Lifecycle`, time passes (`Tick`), a call made under a context returns when the
context ends at the latest (`Bounded(r)`, which database/sql and minio-go
promise; for go-redis see below), and main goes on when Shutdown has returned (`Exit`). Requests that wait
for a client owe nothing, nor do clients, signals, crashes or a restart.

go-redis honours a context's deadline in a call under way only if
`ContextTimeoutEnabled` is set, and cmd/server/main.go:40 does not set it: such a call ends
by the client's own timeouts (3 s for a read or a write, unless configured), and no call
begins after the context has ended. `Budget` and `ApiBudget` therefore stand for the 5 s
of the context and this overrun, and `GraceAssumption` says that both together are less
than Shutdown's 10 s.

## 5. Proofs

TLAPS checks every leaf. No assumption is made beyond the named ones on the
constants: `NoUser` is not a user (`NoUserAssumption`), TTL is positive and the
times are naturals (`TimeAssumption`, `TicksAssumption`, `GrantAssumption`,
`BoundsAssumption`, `CapacityAssumption`, `BoundAssumption`, `ClockAssumption`), a page has
room for a message (`LimitAssumption`), those who stay are users (`BoundAssumption` of
`Messaging`), uids are naturals
(`UserAssumption`), the modelled group is a group (`TheGroupAssumption`), and handlers
have less time than Shutdown (`GraceAssumption`).

`GroupProofs` on `Membership`, for any users, groups and handlers:

- `SpecIInv`: `IInv` is an invariant. `OwnerIsCreator` is not inductive: a setAdmin
  past its check could make an owner of anyone if nothing were known of its actor,
  and a removal past its check could delete the owner. `PastCheck(r)` states what
  a handler has learnt that nobody can undo: its group exists; the actor of a
  setAdmin at its write is the creator; the target of a removal or an exit at its
  write is not the owner. The last holds because nobody *becomes* an owner after
  the group's creation, and this is what makes the unlocked reads safe for the
  owner.
- `SpecTypeOK`, `SpecOwnerIsCreator`: from `IInv`.
- `SpecOwnerOnlyDemotesItself`, `SpecEntersAsMember`: action properties, one case
  per action under `IInv`.

`MemberCacheProofs` on `MemberCache`, for any users, changes, calls, TTL and Budget,
with faults or without:

- `SpecStalenessBounded`: `AgeInv` follows a list from its listing to its use. A list
  waiting to be stored was taken during its call; an entry expires at most
  Budget + TTL after its listing, since storing it took at most a Budget; a list
  in use was listed less than Budget + TTL before its reader *started*, and that
  reader ends within a Budget. Whoever a list is wrong about changed since the
  listing (`TrueAt`). The sum is MaxAge = TTL + 2 * Budget.
- `SpecStaleHasCause`: `RaceInv` adds that a list no change has raced, waiting to be
  stored, is the table's.
- `SpecTypeOK`.

`GroupProofs` on `CachedGroup`, for any users, groups, handlers, fills, TTL and Budget:

- `SpecImplementsMemberCache`: the refinement. `CInv` is the invariant of `Membership`,
  which holds here since every step is one of `Membership` or leaves its variables
  alone. A write to the group is AddMember, RemoveMember or RemoveNobody
  (`WritesMember`), the end of a handler that owes an invalidation is InvalidateCache
  or InvalidateLost (`PaysInvalidation`), and any other call is a stutter
  (`OtherStep`): this is where setAdmin, which does not invalidate, is shown to have no
  need to, since a change of role keeps the members (`KeepsMembers`).
- `SpecStalenessBounded`: therefore `MemberCacheProofs`' theorem, instantiated with the
  handlers as its writers (and nobody calling), bounds the age of lists under the real
  handlers.

`MemberCacheProofs` on `GroupCalls`, for any users, changes, fills, calls and lifetimes:

- `SpecInviteIsCurrent`, `SpecJoinBounded`, `SpecCallTypeOK` from `GInv`: a running call
  began at most a Budget ago (`CallInv`), whoever is about to get a grant was a member
  when the call began or has left since, and a grant of somebody outside was issued
  at most a Budget after they left, and they did leave (`GrantInv`).

`LifecycleProofs`, for any requests, connections, migrations, uploads and timeouts:

- `SpecServesMigrated`, `SpecAnsweredIsStored`, `SpecShutdownCutsOnly`, `SpecTypeOK` from
  `IInv`. `Recorded` ties the mark to the tables: every version before the marked one is
  complete, and the marked one is unless it is dirty, which a crash between any two
  statements keeps true because the mark is made first and cleared last. `Ready(r)` says what a running request relies on: an image whose
  thumbnail is due has its file stored, and a handler at work under the short timeout
  that began before Shutdown has less time left than Shutdown, which is where
  ApiBudget < Grace is needed and why uploads are not covered.

`GroupProofs` on `RemovalAuthority`, for any users, groups and handlers:

- `SpecWrongRemovalNeedsBothChanged`: `HInv` adds to the invariant of `Membership` what a
  removal has seen (`Seen(r)`). Between its two reads the actor still has the role
  that was read or its row has changed, and the target could not be removed with
  that role unless it could be at some instant or its row has changed since. The
  second read passes only if the target can be removed with the role of the first,
  so a removal that reaches its statement without ever having been permitted has had
  both rows change.

`FriendRoomsProofs`, for any users, handlers and bound on the ids:

- `SpecRoomHasItsPair`, `SpecExistingRoomIsReused`, `SpecTypeOK` from `IInv`: `Running(r)` says
  that the stored pair is the caller and the peer in order, that the id of an open
  transaction is not a committed room's, and that the room a pair had when its handler
  was called is still found by the ordered look-up; `OwnIds` that two open transactions
  never share an id. What is not provable, because it is false, is `OneRoomPerPair`.

`HubProofs`, for any users, connections, pushes and capacity:

- `SpecRegistryIsServed`, `SpecRegistryStableWhileRead`, `SpecTypeOK` from `IInv`: `LockInv` is
  the mutual exclusion of Go's lock (one writer, nobody beside it, none both holding and
  waiting) and ties its holders to what the goroutines are doing.

`RoomActivityProofs`, for any users, handlers, messages and faults:

- `SpecPreviewOlderOnlyByOverlap`, `SpecUnreadNeverOvercounts`, `SpecUnreadNeverUndercounts`,
  `SpecTypeOK` from `IInv`. None of the three is inductive; `SendInv(r)` says what makes
  them so. Until a send is past TouchRoom, every newer message was inserted while it was
  on its way, so what it writes into the preview can only be older than a message it
  overlapped. Until it is past BumpUnread, its message is counted for nobody and due to
  everybody: inserted since their last reset, or on its way then. At BumpUnread the list
  in hand lacks, of those who stay (`Lasting`), the sender alone, which rests on every
  list the room has had having them (`ListInv`). `CountInv` bounds a count on both sides by the
  messages BumpUnread has counted (`bumped`), since a message that is only due is not yet
  in it; `CountOneMore` is the step of the cardinalities, and needs the sends to have
  different messages (`Distinct`).

`RoomActivityProofs` on `GroupRoom`, for any users, handlers, changes, messages, TTL, Budget
and faults:

- `SpecCache`: a step of the composition is, for the table and the cache, a step of
  `MemberCache` or none (`CacheStep`). Hence whatever `MemberCacheProofs` shows of
  `MemberCache`, instantiated with the message handlers as its readers (`Proved`, and
  nobody calling), holds here.
- `SpecImplementsRoomActivity`: the refinement. `RoomActivity` lets a handler use any list
  the room has had, so what has to be shown is that the cache gives it no other.
  That is `HeldInv`: the list in the entry and the list in every call are among
  `lists`. It is inductive because a list only ever comes from the table, which is
  among `lists` whenever it changes, and a hit or a Set only copies. `UseListMaps` and
  `MemberChangeMaps` are the two steps of the refinement that need it.
- `SpecRoomBesideCache`: therefore `PreviewOlderOnlyByOverlap`, `UnreadNeverOvercounts` and
  `UnreadNeverUndercounts`, proved of `RoomActivity`, hold beside the real cache.
- `SpecPostingBounded`, `SpecCountingBounded`: a step that lets somebody post, or takes the
  others to count for, uses the list of a call that is done (`ListInHand`), and
  `StalenessBounded` says how wrong that list can be.

`TimelineProofs`, for any number of messages, page size, window, budget and precision of
create_time:

- `SpecPagesNeitherSkipNorRepeat`: `PageInv` states that the cursor separates the pages
  read from what is still to come: of the messages that were there at first, those not
  read yet are below it, and all that was read is at or above it. A page takes every
  row above any of its rows (`NewestIsUpward`), so its smallest id is such a cursor, and
  a page with fewer than Limit rows has all there were (`ShortPageIsAll`): otherwise the
  greatest row left out would have fewer than Limit above it. A row that appears late
  below the cursor may come on a page, one above it never does.
- `SpecNothingMissed`, `SpecRecallsSeen`: `PushInv` states that for a client registered at
  its first page a message that was pushed has come or was there at that page, and a
  recall that was pushed has come or its row is still to be read; the latter needs
  `RowInv`, that SetStatus precedes the push.
- `SpecRecallInTime`: from `Timely(id)`, what an admitted recall knows of the clock.
- `SpecTypeOK`.

`ProfileProofs`, for any devices and number of updates:

- `SpecLostOnlyToRace`: a handler that has read the row after the last update that names a
  column holds that update's value, or one that some update lost in between
  (`CopyInv(r)`); this is what it writes back when it does not name the column itself.
  It needs updates to be executed once (`ExecutedInv`).
- `SpecTypeOK`: also that no more updates are executed than were received, by counting.

Only model-checked, since liveness is beyond the prover: `Registers`, `PushesEnd` and
`CleansUp` of `Hub` and `ShutdownEnds` of `Lifecycle`. Every other property of a passing run
is proved.

## 6. Where code and documentation disagree

Shown by a run that violates what a test expects:

- Two concurrent requests create two rooms for one pair (`OneRoomPerPair`;
  room/store_test.go:81).

Other statements of the sources that the models do not bear out; the property named
says what holds instead:

- Shutdown lets HTTP requests finish and not "WebSocket connections"
  (cmd/server/main.go:98-100): net/http does not wait for connections that the upgrade
  has taken over, so the server exits under them with most of the 10 s left. In
  `Lifecycle`, `Exit` needs no socket to be closed.
- The second groupMemberUIDs call of a send is not always "a cache hit even within the
  same request" (message/handler.go:146-149): a change of the members that is made
  and invalidated after canPost makes it a miss. In `GroupRoom`, `GetMiss` of a
  handler past canPost needs no failing call; what remains true is `CountingBounded`.
- `setAdmin` accepts the owner as its target; a group can lose its owner, and no
  handler can make another (handler.go:227 relies on it). No other step takes the
  role away (`OwnerOnlyDemotesItself`).
- A fill that races with a change leaves a stale member list in the cache for up to
  five minutes (room/handler.go:14-16 says that changes invalidate it), the third
  cause in `StaleHasCause`, for the time in `StalenessBounded`.
- Overlapping sends leave an older message as the preview (room/store.go:42-44), and
  only those (`PreviewOlderOnlyByOverlap`).
- serveWS reads "until the client disconnects, so the server notices closed connections
  and cleans up the Hub entry" (ws/handler.go:41-42): not while another client stays
  connected and does not read, which blocks a push under RLock and the cleaning up with
  it. `CleansUp`, like `PushesEnd` and `Registers`, is shown under `ClientFairness`.
- handleUpdateProfile is said to be "only overwriting the fields present in the request"
  (auth/handler.go:141-144), and yet it writes both columns, the absent one as it was
  read, so that an update of one can undo a concurrent update of the other.
  `LostOnlyToRace` says when, and that nothing else is lost.
- The hub may write to one connection from two goroutines (ws/hub.go:5-6), hence
  `Panic` in `Hub`.

## 7. Not modelled

- *Configuration, wiring*: run once, before requests are accepted.
- *Tokens, passwords*: stateless uses of libraries; every modelled handler starts with
  the uid the middleware has established.
- *Registration, login, lookup*: one statement each. Registration is an INSERT on a
  unique key, and reports whatever goes wrong as a username that is taken.
- *mark*: one INSERT that a repetition leaves as it is; nothing reads its rows.
- *Request validation, JSON, HTTP status codes*: an invalid request changes
  nothing; an answer is the slot becoming free.
- *active_time, listRooms, listMembers*: queries that change nothing, and a column that
  only they read.
- *Thumbnails*: decoding and scaling an image changes no state.
- *The connection pool*: a call that waits for a connection ends with its context,
  like any other.
- *Clocks*: the database's and the server's are taken to agree, and to be in the time
  zone the driver assumes; `Timeline` has what rounding to seconds does, not what a
  difference would do.
- *Deadlines as such*: where no module keeps time, a context that ends is one of the
  reasons for `Abort`.
- *The connection that serveWS does not close when its client is gone*: it is left to the
  runtime's finalizer; the registry the server itself keeps is covered by
  `RegistryIsServed`.
- *Repeated sends after a lost answer*: the code has nothing to recognise them by.
- *Several server instances*: the hub is in memory and the project runs one.
