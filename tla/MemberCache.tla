----------------------------- MODULE MemberCache -----------------------------
(***************************************************************************)
(* The Redis cache of one group's member list: message.Handler reads it    *)
(* through (groupMemberUIDs) while room.Handler changes the group_member   *)
(* table and then deletes the cached list (invalidateCache).               *)
(*                                                                         *)
(* A fill lists the table and stores the list in two calls, a change       *)
(* writes the table and deletes the list in two calls, and nothing orders  *)
(* the four.  Time is counted in ticks: an entry lives TTL ticks           *)
(* (groupMemberCacheTTL) and a handler runs at most Budget ticks (its      *)
(* context).  Faults says whether Redis calls may fail and whether a       *)
(* change may be cut off between its write and its invalidation.           *)
(***************************************************************************)
EXTENDS Integers

CONSTANTS
    User,       \* uids
    Writer,     \* slots for addMember, removeMember and exitGroup handlers
    Reader,     \* slots for running groupMemberUIDs calls
    TTL,        \* lifetime of a cache entry, in ticks
    Budget,     \* longest run of a handler, in ticks
    MaxTime,    \* bound on the clock
    Faults      \* whether Redis may fail and changes may be cut off

(* Redis takes a lifetime of 0 for "never expires"; the code's is 5 minutes.*)
ASSUME TimeAssumption == TTL \in Nat \ {0} /\ Budget \in Nat /\ MaxTime \in Nat

ASSUME FaultsAssumption == Faults \in BOOLEAN

VARIABLES
    members,    \* the uids with a group_member row
    entry,      \* the Redis entry, or NoEntry
    writer,     \* writer[w]: a change's next call
    reader,     \* reader[r]: a groupMemberUIDs call, or Idle
    now,        \* the clock
    changedAt   \* history, changedAt[u]: when u was last added or removed

vars == <<members, entry, writer, reader, now, changedAt>>

(* The longest time between the listing of a table and the use of the list.*)
MaxAge == TTL + 2 * Budget

(* A time so long before the clock starts that no list is that old.        *)
Never == -(MaxAge + 1)

Time == Never..MaxTime

(* listedAt, raced and missed are history: when the table was listed,      *)
(* whether it changed between that listing and the Set, and whether an     *)
(* invalidation that should have deleted the entry was lost.               *)
Entry ==
    [uids: SUBSET User, expires: Nat, listedAt: Time, raced: BOOLEAN, missed: BOOLEAN]

NoEntry == [uids |-> {}, expires |-> -1]

Call ==
    [pc: {"get", "list", "set", "done"}, uids: SUBSET User, started: Time,
     listedAt: Time, raced: BOOLEAN]

Idle == [pc |-> "idle"]

Init ==
    /\ members \in SUBSET User
    /\ entry = NoEntry
    /\ writer = [w \in Writer |-> "write"]
    /\ reader = [r \in Reader |-> Idle]
    /\ now = 0
    /\ changedAt = [u \in User |-> Never]

-----------------------------------------------------------------------------
(* The cache: internal/cache/members.go over Redis.                        *)

Cached == entry # NoEntry /\ now < entry.expires

Set_DoubleTTL(uids, listedAt, raced) ==
    entry' = [uids |-> uids, expires |-> now + 2 * TTL, listedAt |-> listedAt,
              raced |-> raced, missed |-> FALSE]

Set(uids, listedAt, raced) ==
    entry' = [uids |-> uids, expires |-> now + TTL, listedAt |-> listedAt,
              raced |-> raced, missed |-> FALSE]

Invalidate == entry' = NoEntry

-----------------------------------------------------------------------------
(* room.Handler's changes of the table.  Each ends its request by becoming *)
(* ready for the next one.                                                 *)

(* The fills that have listed the table and not stored the list yet are    *)
(* raced by a change.                                                      *)
Race == reader' = [r \in Reader |->
            IF reader[r].pc = "set" THEN [reader[r] EXCEPT !.raced = TRUE] ELSE reader[r]]

(* The INSERT succeeds only for a uid that has no row; a failed one ends   *)
(* the handler and changes nothing.                                        *)
AddMember(w, u) ==
    /\ writer[w] = "write"
    /\ u \notin members
    /\ members' = members \cup {u}
    /\ changedAt' = [changedAt EXCEPT ![u] = now]
    /\ Race
    /\ writer' = [writer EXCEPT ![w] = "invalidate"]
    /\ UNCHANGED <<entry, now>>

RemoveMember_NoInvalidate(w, u) ==
    /\ writer[w] = "write"
    /\ u \in members
    /\ members' = members \ {u}
    /\ changedAt' = [changedAt EXCEPT ![u] = now]
    /\ Race
    /\ UNCHANGED <<entry, now, writer>>

(* The DELETE of removeMember and exitGroup.                               *)
RemoveMember(w, u) ==
    /\ writer[w] = "write"
    /\ u \in members
    /\ members' = members \ {u}
    /\ changedAt' = [changedAt EXCEPT ![u] = now]
    /\ Race
    /\ writer' = [writer EXCEPT ![w] = "invalidate"]
    /\ UNCHANGED <<entry, now>>

(* A DELETE that finds no row succeeds too.                                *)
RemoveNobody(w) ==
    /\ writer[w] = "write"
    /\ writer' = [writer EXCEPT ![w] = "invalidate"]
    /\ UNCHANGED <<members, entry, reader, now, changedAt>>

InvalidateCache(w) ==
    /\ writer[w] = "invalidate"
    /\ Invalidate
    /\ writer' = [writer EXCEPT ![w] = "write"]
    /\ UNCHANGED <<members, reader, now, changedAt>>

(* The error of Invalidate is ignored, and a write that was executed but   *)
(* reported as failed, or a crash, skips the call.                         *)
InvalidateLost(w) ==
    /\ Faults
    /\ writer[w] = "invalidate"
    /\ entry' = IF entry = NoEntry THEN NoEntry ELSE [entry EXCEPT !.missed = TRUE]
    /\ writer' = [writer EXCEPT ![w] = "write"]
    /\ UNCHANGED <<members, reader, now, changedAt>>

-----------------------------------------------------------------------------
(* message.Handler's groupMemberUIDs.                                      *)

Proceed(r, call) == reader' = [reader EXCEPT ![r] = call]

Start(r) ==
    /\ reader[r] = Idle
    /\ Proceed(r, [pc |-> "get", uids |-> {}, started |-> now, listedAt |-> Never,
                   raced |-> FALSE])
    /\ UNCHANGED <<members, entry, writer, now, changedAt>>

GetHit_Sliding(r) ==
    /\ reader[r].pc = "get"
    /\ Cached
    /\ Proceed(r, [reader[r] EXCEPT !.pc = "done", !.uids = entry.uids,
                                    !.listedAt = entry.listedAt])
    /\ entry' = [entry EXCEPT !.expires = now + TTL]
    /\ UNCHANGED <<members, writer, now, changedAt>>

GetHit(r) ==
    /\ reader[r].pc = "get"
    /\ Cached
    /\ Proceed(r, [reader[r] EXCEPT !.pc = "done", !.uids = entry.uids,
                                    !.listedAt = entry.listedAt])
    /\ UNCHANGED <<members, entry, writer, now, changedAt>>

GetMiss_ErrorAsEmpty(r) ==
    /\ reader[r].pc = "get"
    /\ ~Cached \/ Faults
    /\ Proceed(r, [reader[r] EXCEPT !.pc = IF Cached THEN "done" ELSE "list"])
    /\ UNCHANGED <<members, entry, writer, now, changedAt>>

(* A miss, or an error of Get, which is treated like one.                  *)
GetMiss(r) ==
    /\ reader[r].pc = "get"
    /\ ~Cached \/ Faults
    /\ Proceed(r, [reader[r] EXCEPT !.pc = "list"])
    /\ UNCHANGED <<members, entry, writer, now, changedAt>>

ListMembers(r) ==
    /\ reader[r].pc = "list"
    /\ Proceed(r, [reader[r] EXCEPT !.pc = "set", !.uids = members, !.listedAt = now])
    /\ UNCHANGED <<members, entry, writer, now, changedAt>>

SetCache(r) ==
    /\ reader[r].pc = "set"
    /\ Set(reader[r].uids, reader[r].listedAt, reader[r].raced)
    /\ Proceed(r, [reader[r] EXCEPT !.pc = "done"])
    /\ UNCHANGED <<members, writer, now, changedAt>>

(* The error of Set is ignored.                                            *)
SetFails(r) ==
    /\ Faults
    /\ reader[r].pc = "set"
    /\ Proceed(r, [reader[r] EXCEPT !.pc = "done"])
    /\ UNCHANGED <<members, entry, writer, now, changedAt>>

(* The caller has used the list, or the call has failed at any point.      *)
Finish(r) ==
    /\ reader[r] # Idle
    /\ Proceed(r, Idle)
    /\ UNCHANGED <<members, entry, writer, now, changedAt>>

-----------------------------------------------------------------------------
(* Time passes as long as no running call would exceed its context.        *)
Tick ==
    /\ now < MaxTime
    /\ \A r \in Reader : reader[r] # Idle => now < reader[r].started + Budget
    /\ now' = now + 1
    /\ UNCHANGED <<members, entry, writer, reader, changedAt>>

Change(w) ==
    \/ \E u \in User : AddMember(w, u) \/ RemoveMember(w, u)
    \/ RemoveNobody(w)
    \/ InvalidateCache(w)
    \/ InvalidateLost(w)

Read(r) ==
    \/ Start(r)
    \/ GetHit(r)
    \/ GetMiss(r)
    \/ ListMembers(r)
    \/ SetCache(r)
    \/ SetFails(r)
    \/ Finish(r)

Next ==
    \/ \E w \in Writer : Change(w)
    \/ \E r \in Reader : Read(r)
    \/ Tick

Spec == Init /\ [][Next]_vars

-----------------------------------------------------------------------------
(* The variables have their types, and no entry has more than TTL to live. *)
TypeOK ==
    /\ members \in SUBSET User
    /\ entry \in Entry \cup {NoEntry}
    /\ writer \in [Writer -> {"write", "invalidate"}]
    /\ reader \in [Reader -> Call \cup {Idle}]
    /\ now \in 0..MaxTime
    /\ changedAt \in [User -> Time]
    /\ entry.expires <= now + TTL

(* A list is wrong about u if it names a u who is no longer a member, or   *)
(* misses one who is.                                                      *)
WrongFor(u, uids) == (u \in uids) # (u \in members)

(* A list about to be used is wrong about u only if u was added or removed *)
(* less than MaxAge ticks ago, whatever Redis calls fail, invalidations    *)
(* are lost and fills race with changes: only for that long is a removed   *)
(* member let post or put among the recipients, or a new one left out.     *)
StalenessBounded ==
    \A r \in Reader, u \in User :
        reader[r].pc = "done" /\ WrongFor(u, reader[r].uids) =>
            now < changedAt[u] + MaxAge

(* A wrong list is in the cache only while an invalidation is on its way,  *)
(* after one was lost, or if the fill listed the table before a change and *)
(* stored the list after it: there is no fourth way, however many changes  *)
(* and fills interleave.                                                   *)
StaleHasCause ==
    Cached /\ entry.uids # members =>
        entry.raced \/ entry.missed \/ \E w \in Writer : writer[w] = "invalidate"

=============================================================================
