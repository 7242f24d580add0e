-------------------------- MODULE MemberCacheProofs --------------------------
(***************************************************************************)
(* What holds of MemberCache, and then of the calls of GroupCalls beside   *)
(* it, for every set of users and handlers and every lifetime and budget.  *)
(***************************************************************************)
EXTENDS GroupCalls, TLAPS

(* A list taken from the table at time t is wrong only about users added   *)
(* or removed since.                                                       *)
TrueAt(uids, t) == \A u \in User : WrongFor(u, uids) => t <= changedAt[u]

(* The entry was listed at most a budget before it was stored.             *)
EntryInv ==
    entry # NoEntry =>
        /\ entry.listedAt <= now
        /\ entry.expires <= entry.listedAt + Budget + TTL
        /\ TrueAt(entry.uids, entry.listedAt)

(* A running call has time left; the list it holds was taken during the    *)
(* call or, from the cache, less than TTL and a budget before it.          *)
ReaderInv(r) ==
    reader[r] # Idle =>
        /\ reader[r].started <= now /\ now <= reader[r].started + Budget
        /\ reader[r].pc = "set" =>
              /\ reader[r].started <= reader[r].listedAt /\ reader[r].listedAt <= now
              /\ TrueAt(reader[r].uids, reader[r].listedAt)
        /\ reader[r].pc = "done" =>
              /\ reader[r].started < reader[r].listedAt + Budget + TTL
              /\ reader[r].listedAt <= now
              /\ TrueAt(reader[r].uids, reader[r].listedAt)

AgeInv == EntryInv /\ \A r \in Reader : ReaderInv(r)

(* Lists that no change has raced are the table's, but for an entry that   *)
(* an invalidation is about to delete or should have deleted.              *)
RaceInv ==
    /\ entry # NoEntry /\ entry.uids # members =>
           entry.raced \/ entry.missed \/ \E w \in Writer : writer[w] = "invalidate"
    /\ \A r \in Reader :
           reader[r].pc = "set" /\ ~reader[r].raced => reader[r].uids = members

-----------------------------------------------------------------------------
(* Idle and NoEntry are told apart from the records they stand beside.     *)
LEMMA SentinelsAreApart == Idle \notin Call /\ NoEntry \notin Entry
  <1>1. \A c \in Call : c.pc \in {"get", "list", "set", "done"}
    BY DEF Call
  <1>2. Idle.pc = "idle"
    BY DEF Idle
  <1>3. \A e \in Entry : e.expires \in Nat
    BY DEF Entry
  <1>4. NoEntry.expires = -1 /\ -1 \notin Nat
    BY DEF NoEntry
  <1> QED  BY <1>1, <1>2, <1>3, <1>4

(* The fields of a call have their types.                                  *)
LEMMA CallType ==
    ASSUME TypeOK, NEW r \in Reader, reader[r] # Idle
    PROVE  /\ reader[r] \in Call
           /\ reader[r].pc \in {"get", "list", "set", "done"}
           /\ reader[r].uids \in SUBSET User /\ reader[r].started \in Time
           /\ reader[r].listedAt \in Time /\ reader[r].raced \in BOOLEAN
  BY DEF TypeOK, Call

(* The fields of the entry have their types.                               *)
LEMMA EntryType ==
    ASSUME TypeOK, entry # NoEntry
    PROVE  /\ entry \in Entry
           /\ entry.uids \in SUBSET User /\ entry.expires \in Nat
           /\ entry.listedAt \in Time /\ entry.raced \in BOOLEAN
           /\ entry.missed \in BOOLEAN
  BY DEF TypeOK, Entry

(* Times are integers.                                                     *)
LEMMA TimeIsInt ==
    ASSUME TypeOK
    PROVE  /\ Time \subseteq Int /\ now \in Int /\ now \in Time /\ Never \in Time /\ 0 \in Time
           /\ TTL \in Int /\ Budget \in Int /\ TTL > 0 /\ Budget >= 0 /\ now >= 0
           /\ MaxAge \in Int /\ MaxTime \in Nat
           /\ \A u \in User : changedAt[u] \in Int
  BY TimeAssumption DEF TypeOK, Time, Never, MaxAge

(* The initial states satisfy the invariants.                              *)
LEMMA InitInv == Init => TypeOK /\ AgeInv /\ RaceInv
  <1> SUFFICES ASSUME Init PROVE TypeOK /\ AgeInv /\ RaceInv
    OBVIOUS
  <1>1. Never \in Time /\ 0 \in 0..MaxTime /\ NoEntry.expires <= now + TTL
    BY TimeAssumption DEF Init, Time, Never, MaxAge, NoEntry
  <1>2. TypeOK
    BY <1>1 DEF Init, TypeOK
  <1>3. AgeInv
    BY DEF Init, AgeInv, EntryInv, ReaderInv
  <1>4. RaceInv
    BY DEF Init, RaceInv, Idle
  <1> QED  BY <1>2, <1>3, <1>4

-----------------------------------------------------------------------------
(* A change marks the calls that hold an unstored list and nothing else.   *)
LEMMA RaceType ==
    ASSUME TypeOK, Race
    PROVE  /\ reader' \in [Reader -> Call \cup {Idle}]
           /\ \A r \in Reader :
                /\ reader[r].pc # "set" => reader'[r] = reader[r]
                /\ reader[r].pc = "set" => reader'[r] = [reader[r] EXCEPT !.raced = TRUE]
  <1>1. \A r \in Reader : reader[r].pc = "set" => [reader[r] EXCEPT !.raced = TRUE] \in Call
    <2> SUFFICES ASSUME NEW r \in Reader, reader[r].pc = "set"
                 PROVE  [reader[r] EXCEPT !.raced = TRUE] \in Call
      OBVIOUS
    <2>1. reader[r] \in Call
      BY CallType DEF Idle
    <2> QED  BY <2>1 DEF Call
  <1> QED  BY <1>1 DEF TypeOK, Race

(* A lost invalidation leaves its mark on an entry and nothing else.       *)
LEMMA LostType ==
    ASSUME TypeOK, NEW w \in Writer, InvalidateLost(w)
    PROVE  /\ entry' \in Entry \cup {NoEntry} /\ entry'.expires = entry.expires
           /\ entry' # NoEntry =>
                /\ entry # NoEntry /\ entry'.missed
                /\ entry'.uids = entry.uids /\ entry'.listedAt = entry.listedAt
  <1>1. CASE entry = NoEntry
    BY <1>1 DEF InvalidateLost
  <1>2. CASE entry # NoEntry
    <2>1. entry \in Entry /\ entry' = [entry EXCEPT !.missed = TRUE]
      BY <1>2, EntryType DEF InvalidateLost
    <2>2. entry' \in Entry
      BY <2>1 DEF Entry
    <2> QED  BY <1>2, <2>1, <2>2 DEF Entry
  <1> QED  BY <1>1, <1>2

(* Types are preserved by every step.                                      *)
LEMMA TypeStep == TypeOK /\ [Next]_vars => TypeOK'
  <1> SUFFICES ASSUME TypeOK, [Next]_vars PROVE TypeOK'
    OBVIOUS
  <1>0. now \in Time
    BY TimeIsInt
  <1>1. ASSUME NEW w \in Writer, NEW u \in User, AddMember(w, u) \/ RemoveMember(w, u)
        PROVE  TypeOK'
    BY <1>0, <1>1, RaceType DEF TypeOK, AddMember, RemoveMember
  <1>2. ASSUME NEW w \in Writer, RemoveNobody(w) PROVE TypeOK'
    BY <1>2 DEF TypeOK, RemoveNobody
  <1>3. ASSUME NEW w \in Writer, InvalidateCache(w) PROVE TypeOK'
    <2>1. NoEntry.expires <= now + TTL
      BY TimeIsInt DEF NoEntry
    <2> QED  BY <1>3, <2>1 DEF TypeOK, InvalidateCache, Invalidate
  <1>4. ASSUME NEW w \in Writer, InvalidateLost(w) PROVE TypeOK'
    <2>1. entry' \in Entry \cup {NoEntry} /\ entry'.expires = entry.expires
      BY <1>4, LostType
    <2> QED  BY <1>4, <2>1 DEF TypeOK, InvalidateLost
  <1>5. ASSUME NEW r \in Reader, NEW next \in Call \cup {Idle}, Proceed(r, next),
               UNCHANGED <<members, entry, writer, now, changedAt>>
        PROVE  TypeOK'
    BY <1>5 DEF TypeOK, Proceed
  <1>6. ASSUME NEW r \in Reader, Start(r) PROVE TypeOK'
    <2>1. [pc |-> "get", uids |-> {}, started |-> now, listedAt |-> Never, raced |-> FALSE] \in Call
      BY TimeIsInt DEF Call
    <2> QED  BY <1>5, <1>6, <2>1 DEF Start
  <1>7. ASSUME NEW r \in Reader, GetHit(r) PROVE TypeOK'
    <2>1. reader[r] \in Call /\ entry.uids \in SUBSET User /\ entry.listedAt \in Time
      BY <1>7, CallType, EntryType DEF GetHit, Cached, Idle
    <2>2. [reader[r] EXCEPT !.pc = "done", !.uids = entry.uids, !.listedAt = entry.listedAt] \in Call
      BY <2>1 DEF Call
    <2> QED  BY <1>5, <1>7, <2>2 DEF GetHit
  <1>8. ASSUME NEW r \in Reader, GetMiss(r) PROVE TypeOK'
    <2>1. [reader[r] EXCEPT !.pc = "list"] \in Call
      BY <1>8, CallType DEF GetMiss, Idle, Call
    <2> QED  BY <1>5, <1>8, <2>1 DEF GetMiss
  <1>9. ASSUME NEW r \in Reader, ListMembers(r) PROVE TypeOK'
    <2>1. reader[r] \in Call /\ members \in SUBSET User
      BY <1>9, CallType DEF ListMembers, Idle, TypeOK
    <2>2. [reader[r] EXCEPT !.pc = "set", !.uids = members, !.listedAt = now] \in Call
      BY <1>0, <2>1 DEF Call
    <2> QED  BY <1>5, <1>9, <2>2 DEF ListMembers
  <1>10. ASSUME NEW r \in Reader, SetCache(r) PROVE TypeOK'
    <2>1. [reader[r] EXCEPT !.pc = "done"] \in Call
      BY <1>10, CallType DEF SetCache, Idle, Call
    <2>2. entry' \in Entry /\ entry'.expires = now + TTL
      BY <1>10, CallType, TimeIsInt, TimeAssumption DEF SetCache, Idle, Set, Entry
    <2>3. reader' \in [Reader -> Call \cup {Idle}]
      BY <1>10, <2>1 DEF SetCache, Proceed, TypeOK
    <2> QED  BY <1>10, <2>2, <2>3, TimeIsInt DEF SetCache, TypeOK
  <1>11. ASSUME NEW r \in Reader, SetFails(r) PROVE TypeOK'
    <2>1. [reader[r] EXCEPT !.pc = "done"] \in Call
      BY <1>11, CallType DEF SetFails, Idle, Call
    <2> QED  BY <1>5, <1>11, <2>1 DEF SetFails
  <1>12. ASSUME NEW r \in Reader, Finish(r) PROVE TypeOK'
    BY <1>5, <1>12 DEF Finish
  <1>13. CASE Tick
    <2>1. now' \in 0..MaxTime /\ now' = now + 1 /\ entry' = entry
      BY <1>13, TimeIsInt DEF Tick, TypeOK
    <2>2. entry.expires \in Int
      BY EntryType DEF NoEntry
    <2>3. entry'.expires <= now' + TTL
      BY <2>1, <2>2, TimeIsInt DEF TypeOK
    <2> QED  BY <1>13, <2>1, <2>3 DEF Tick, TypeOK
  <1>14. CASE UNCHANGED vars
    BY <1>14 DEF vars, TypeOK
  <1> QED
    BY <1>1, <1>2, <1>3, <1>4, <1>6, <1>7, <1>8, <1>9, <1>10, <1>11, <1>12, <1>13, <1>14
       DEF Next, Change, Read

-----------------------------------------------------------------------------
(* A list that was right about everyone but those changed since t stays so *)
(* when u is changed now.                                                  *)
LEMMA TrueAtChange ==
    ASSUME TypeOK, TypeOK', NEW u \in User, changedAt' = [changedAt EXCEPT ![u] = now],
           \A v \in User \ {u} : (v \in members') = (v \in members)
    PROVE  \A uids \in SUBSET User, t \in Time :
               t <= now /\ TrueAt(uids, t) => TrueAt(uids, t)'
  BY TimeIsInt DEF TrueAt, WrongFor, TypeOK

(* The ages of the lists in the cache and in the calls survive every step. *)
LEMMA AgeStep == TypeOK /\ TypeOK' /\ AgeInv /\ [Next]_vars => AgeInv'
  <1> SUFFICES ASSUME TypeOK, TypeOK', AgeInv, [Next]_vars PROVE AgeInv'
    OBVIOUS
  <1> USE DEF AgeInv
  <1>1. ASSUME NEW w \in Writer, NEW u \in User, AddMember(w, u) \/ RemoveMember(w, u)
        PROVE  AgeInv'
    <2>1. /\ changedAt' = [changedAt EXCEPT ![u] = now] /\ Race
          /\ entry' = entry /\ now' = now
          /\ \A v \in User \ {u} : (v \in members') = (v \in members)
      BY <1>1 DEF AddMember, RemoveMember
    <2>2. \A uids \in SUBSET User, t \in Time :
               t <= now /\ TrueAt(uids, t) => TrueAt(uids, t)'
      BY <2>1, TrueAtChange
    <2>3. EntryInv'
      BY <2>1, <2>2, EntryType DEF EntryInv, TrueAt, WrongFor
    <2>4. ASSUME NEW r \in Reader, reader'[r] # Idle PROVE ReaderInv(r)'
      <3>1. CASE reader[r].pc # "set"
        <4>1. reader'[r] = reader[r] /\ reader[r] # Idle
          BY <2>1, <2>4, <3>1, RaceType
        <4>2. reader[r].uids \in SUBSET User /\ reader[r].listedAt \in Time
          BY <4>1, CallType
        <4> QED  BY <2>1, <2>2, <3>1, <4>1, <4>2 DEF ReaderInv, TrueAt, WrongFor
      <3>2. CASE reader[r].pc = "set"
        <4>1. reader[r] # Idle
          BY <3>2 DEF Idle
        <4>2. reader'[r] = [reader[r] EXCEPT !.raced = TRUE] /\ reader[r] \in Call
          BY <2>1, <3>2, <4>1, RaceType, CallType
        <4>3. /\ reader'[r].pc = "set" /\ reader'[r].uids = reader[r].uids
              /\ reader'[r].listedAt = reader[r].listedAt /\ reader'[r].started = reader[r].started
          BY <3>2, <4>2 DEF Call
        <4>4. reader[r].uids \in SUBSET User /\ reader[r].listedAt \in Time
          BY <4>1, CallType
        <4> QED  BY <2>1, <2>2, <3>2, <4>1, <4>3, <4>4 DEF ReaderInv, TrueAt, WrongFor
      <3> QED  BY <3>1, <3>2
    <2> QED  BY <2>3, <2>4 DEF ReaderInv
  <1>2. ASSUME NEW w \in Writer, RemoveNobody(w) PROVE AgeInv'
    BY <1>2 DEF RemoveNobody, EntryInv, ReaderInv, TrueAt, WrongFor
  <1>15. ASSUME NEW w \in Writer, InvalidateLost(w) PROVE AgeInv'
    <2>1. EntryInv'
      BY <1>15, LostType DEF InvalidateLost, EntryInv, TrueAt, WrongFor
    <2> QED  BY <1>15, <2>1 DEF InvalidateLost, ReaderInv, TrueAt, WrongFor
  <1>3. ASSUME NEW w \in Writer, InvalidateCache(w) PROVE AgeInv'
    BY <1>3 DEF InvalidateCache, Invalidate, EntryInv, ReaderInv, TrueAt, WrongFor
  (* A step of one call that leaves the table, the clock and the entry.    *)
  <1>4. ASSUME NEW r \in Reader, NEW next, Proceed(r, next), ReaderInv(r)',
               UNCHANGED <<members, entry, now, changedAt>>
        PROVE  AgeInv'
    <2>1. \A s \in Reader \ {r} : reader'[s] = reader[s]
      BY <1>4 DEF Proceed, TypeOK
    <2> QED  BY <1>4, <2>1 DEF EntryInv, ReaderInv, TrueAt, WrongFor
  <1>5. ASSUME NEW r \in Reader, Start(r) PROVE AgeInv'
    <2>1. reader'[r].pc = "get" /\ reader'[r].started = now
      BY <1>5 DEF Start, Proceed, TypeOK
    <2>2. ReaderInv(r)'
      BY <1>5, <2>1, TimeIsInt DEF Start, ReaderInv
    <2> QED  BY <1>4, <1>5, <2>2 DEF Start
  <1>6. ASSUME NEW r \in Reader, GetHit(r) PROVE AgeInv'
    <2>1. reader[r] \in Call /\ reader[r] # Idle
      BY <1>6, CallType DEF GetHit, Idle
    <2>2. /\ reader'[r].pc = "done" /\ reader'[r].started = reader[r].started
          /\ reader'[r].uids = entry.uids /\ reader'[r].listedAt = entry.listedAt
      BY <1>6, <2>1 DEF GetHit, Proceed, TypeOK, Call
    <2>3. entry # NoEntry /\ now < entry.expires /\ entry.expires \in Int /\ entry.listedAt \in Int
      BY <1>6, EntryType, TimeIsInt DEF GetHit, Cached
    <2>4. reader[r].started \in Int /\ reader[r].started <= now /\ now <= reader[r].started + Budget
      BY <2>1, CallType, TimeIsInt DEF ReaderInv
    <2>5. reader[r].started < entry.listedAt + Budget + TTL /\ entry.listedAt <= now
      BY <2>3, <2>4, TimeIsInt DEF EntryInv
    <2>6. ReaderInv(r)'
      BY <1>6, <2>2, <2>3, <2>4, <2>5 DEF GetHit, ReaderInv, EntryInv, TrueAt, WrongFor
    <2> QED  BY <1>4, <1>6, <2>6 DEF GetHit
  <1>7. ASSUME NEW r \in Reader, GetMiss(r) PROVE AgeInv'
    <2>1. reader[r] \in Call /\ reader[r] # Idle
      BY <1>7, CallType DEF GetMiss, Idle
    <2>2. reader'[r].pc = "list" /\ reader'[r].started = reader[r].started
      BY <1>7, <2>1 DEF GetMiss, Proceed, TypeOK, Call
    <2>3. ReaderInv(r)'
      BY <1>7, <2>1, <2>2 DEF GetMiss, ReaderInv
    <2> QED  BY <1>4, <1>7, <2>3 DEF GetMiss
  <1>8. ASSUME NEW r \in Reader, ListMembers(r) PROVE AgeInv'
    <2>1. reader[r] \in Call /\ reader[r] # Idle
      BY <1>8, CallType DEF ListMembers, Idle
    <2>2. /\ reader'[r].pc = "set" /\ reader'[r].started = reader[r].started
          /\ reader'[r].uids = members /\ reader'[r].listedAt = now
      BY <1>8, <2>1 DEF ListMembers, Proceed, TypeOK, Call
    <2>3. ReaderInv(r)'
      BY <1>8, <2>1, <2>2, TimeIsInt DEF ListMembers, ReaderInv, TrueAt, WrongFor
    <2> QED  BY <1>4, <1>8, <2>3 DEF ListMembers
  <1>9. ASSUME NEW r \in Reader, SetCache(r) \/ SetFails(r) PROVE ReaderInv(r)'
    <2>1. reader[r] \in Call /\ reader[r] # Idle /\ reader[r].pc = "set"
      BY <1>9, CallType DEF SetCache, SetFails, Idle
    <2>2. /\ reader'[r].pc = "done" /\ reader'[r].started = reader[r].started
          /\ reader'[r].uids = reader[r].uids /\ reader'[r].listedAt = reader[r].listedAt
      BY <1>9, <2>1 DEF SetCache, SetFails, Proceed, TypeOK, Call
    <2>3. reader[r].started < reader[r].listedAt + Budget + TTL
      BY <2>1, CallType, TimeIsInt DEF ReaderInv
    <2> QED  BY <1>9, <2>1, <2>2, <2>3 DEF SetCache, SetFails, ReaderInv, TrueAt, WrongFor
  <1>10. ASSUME NEW r \in Reader, SetCache(r) PROVE AgeInv'
    <2>1. reader[r] \in Call /\ reader[r] # Idle /\ reader[r].pc = "set"
      BY <1>10, CallType DEF SetCache, Idle
    <2>2. /\ reader[r].started \in Int /\ reader[r].listedAt \in Int
          /\ reader[r].started <= reader[r].listedAt /\ reader[r].listedAt <= now
          /\ now <= reader[r].started + Budget
      BY <2>1, CallType, TimeIsInt DEF ReaderInv
    <2>3. /\ entry'.uids = reader[r].uids /\ entry'.listedAt = reader[r].listedAt
          /\ entry'.expires = now + TTL
      BY <1>10 DEF SetCache, Set
    <2>4. EntryInv'
      <3>1. now + TTL <= reader[r].listedAt + Budget + TTL
        BY <2>2, TimeIsInt
      <3>2. TrueAt(reader[r].uids, reader[r].listedAt)
        BY <2>1 DEF ReaderInv
      <3> QED  BY <1>10, <2>2, <2>3, <3>1, <3>2 DEF SetCache, EntryInv, TrueAt, WrongFor
    <2>5. \A s \in Reader \ {r} : reader'[s] = reader[s]
      BY <1>10 DEF SetCache, Proceed, TypeOK
    <2>6. \A s \in Reader \ {r} : ReaderInv(s)'
      BY <1>10, <2>5 DEF SetCache, ReaderInv, TrueAt, WrongFor
    <2> QED  BY <1>9, <1>10, <2>4, <2>6
  <1>11. ASSUME NEW r \in Reader, SetFails(r) PROVE AgeInv'
    BY <1>4, <1>9, <1>11 DEF SetFails
  <1>12. ASSUME NEW r \in Reader, Finish(r) PROVE AgeInv'
    <2>1. reader'[r] = Idle
      BY <1>12 DEF Finish, Proceed, TypeOK
    <2> QED  BY <1>4, <1>12, <2>1 DEF Finish, ReaderInv
  <1>13. CASE Tick
    <2>1. /\ now' = now + 1 /\ entry' = entry /\ reader' = reader
          /\ changedAt' = changedAt /\ members' = members
      BY <1>13 DEF Tick
    <2>2. EntryInv'
      BY <2>1, EntryType, TimeIsInt DEF EntryInv, TrueAt, WrongFor
    <2>3. ASSUME NEW r \in Reader, reader[r] # Idle PROVE ReaderInv(r)'
      <3>1. reader[r].started \in Int /\ reader[r].listedAt \in Int
        BY <2>3, CallType, TimeIsInt
      <3>2. now < reader[r].started + Budget
        BY <1>13, <2>3 DEF Tick
      <3> QED  BY <2>1, <2>3, <3>1, <3>2, TimeIsInt DEF ReaderInv, TrueAt, WrongFor
    <2> QED  BY <2>1, <2>2, <2>3 DEF ReaderInv
  <1>14. CASE UNCHANGED vars
    BY <1>14 DEF vars, EntryInv, ReaderInv, TrueAt, WrongFor
  <1> QED
    BY <1>1, <1>2, <1>3, <1>5, <1>6, <1>7, <1>8, <1>10, <1>11, <1>12, <1>13, <1>14,
       <1>15
       DEF Next, Change, Read

(* Only a raced fill stores a list that differs from the table.            *)
LEMMA RaceStep == TypeOK /\ RaceInv /\ [Next]_vars => RaceInv'
  <1> SUFFICES ASSUME TypeOK, RaceInv, [Next]_vars PROVE RaceInv'
    OBVIOUS
  <1> USE DEF RaceInv
  (* After a change, the change itself is about to invalidate.             *)
  <1>1. ASSUME NEW w \in Writer, NEW u \in User, AddMember(w, u) \/ RemoveMember(w, u)
        PROVE  RaceInv'
    <2>1. writer'[w] = "invalidate" /\ Race
      BY <1>1 DEF AddMember, RemoveMember, TypeOK
    <2>2. ASSUME NEW r \in Reader, reader'[r].pc = "set" PROVE reader'[r].raced
      <3>1. reader[r].pc = "set"
        BY <2>1, <2>2, RaceType
      <3>2. reader'[r] = [reader[r] EXCEPT !.raced = TRUE] /\ reader[r] \in Call
        BY <2>1, <3>1, RaceType, CallType DEF Idle
      <3> QED  BY <3>2 DEF Call
    <2> QED  BY <2>1, <2>2
  <1>2. ASSUME NEW w \in Writer, RemoveNobody(w) PROVE RaceInv'
    <2>1. \A v \in Writer : writer[v] = "invalidate" => writer'[v] = "invalidate"
      BY <1>2 DEF RemoveNobody, TypeOK
    <2> QED  BY <1>2, <2>1 DEF RemoveNobody
  <1>3. ASSUME NEW w \in Writer, InvalidateCache(w) PROVE RaceInv'
    BY <1>3 DEF InvalidateCache, Invalidate
  <1>4. ASSUME NEW w \in Writer, InvalidateLost(w) PROVE RaceInv'
    BY <1>4, LostType DEF InvalidateLost
  (* A step of one call that leaves the entry alone and either holds no    *)
  (* unstored list afterwards or has just listed the table.                *)
  <1>5. ASSUME NEW r \in Reader, NEW next, Proceed(r, next),
               reader'[r].pc = "set" => reader'[r].uids = members,
               UNCHANGED <<members, entry, writer>>
        PROVE  RaceInv'
    <2>1. \A s \in Reader \ {r} : reader'[s] = reader[s]
      BY <1>5 DEF Proceed, TypeOK
    <2> QED  BY <1>5, <2>1
  <1>6. ASSUME NEW r \in Reader, Start(r) PROVE RaceInv'
    <2>1. reader'[r].pc = "get"
      BY <1>6 DEF Start, Proceed, TypeOK
    <2> QED  BY <1>5, <1>6, <2>1 DEF Start
  <1>7. ASSUME NEW r \in Reader, GetHit(r) \/ SetFails(r) PROVE RaceInv'
    <2>1. reader[r] \in Call
      BY <1>7, CallType DEF GetHit, SetFails, Idle
    <2>2. reader'[r].pc = "done"
      BY <1>7, <2>1 DEF GetHit, SetFails, Proceed, TypeOK, Call
    <2> QED  BY <1>5, <1>7, <2>2 DEF GetHit, SetFails
  <1>8. ASSUME NEW r \in Reader, GetMiss(r) PROVE RaceInv'
    <2>1. reader[r] \in Call
      BY <1>8, CallType DEF GetMiss, Idle
    <2>2. reader'[r].pc = "list"
      BY <1>8, <2>1 DEF GetMiss, Proceed, TypeOK, Call
    <2> QED  BY <1>5, <1>8, <2>2 DEF GetMiss
  <1>9. ASSUME NEW r \in Reader, ListMembers(r) PROVE RaceInv'
    <2>1. reader[r] \in Call
      BY <1>9, CallType DEF ListMembers, Idle
    <2>2. reader'[r].uids = members
      BY <1>9, <2>1 DEF ListMembers, Proceed, TypeOK, Call
    <2> QED  BY <1>5, <1>9, <2>2 DEF ListMembers
  <1>10. ASSUME NEW r \in Reader, SetCache(r) PROVE RaceInv'
    <2>1. reader[r] \in Call /\ reader[r].pc = "set"
      BY <1>10, CallType DEF SetCache, Idle
    <2>2. entry'.uids = reader[r].uids /\ entry'.raced = reader[r].raced
      BY <1>10 DEF SetCache, Set
    <2>3. reader'[r].pc = "done" /\ \A s \in Reader \ {r} : reader'[s] = reader[s]
      BY <1>10, <2>1 DEF SetCache, Proceed, TypeOK, Call
    <2> QED  BY <1>10, <2>1, <2>2, <2>3 DEF SetCache
  <1>11. ASSUME NEW r \in Reader, Finish(r) PROVE RaceInv'
    <2>1. reader'[r].pc = "idle"
      BY <1>11 DEF Finish, Proceed, TypeOK, Idle
    <2> QED  BY <1>5, <1>11, <2>1 DEF Finish
  <1>12. CASE Tick
    BY <1>12 DEF Tick
  <1>13. CASE UNCHANGED vars
    BY <1>13 DEF vars
  <1> QED
    BY <1>1, <1>2, <1>3, <1>4, <1>6, <1>7, <1>8, <1>9, <1>10, <1>11, <1>12, <1>13
       DEF Next, Change, Read

(***************************************************************************)
(* The theorems.                                                           *)
(***************************************************************************)

(* Type correctness; no entry has more than TTL ticks to live.             *)
THEOREM SpecTypeOK == Spec => []TypeOK
  BY InitInv, TypeStep, PTL DEF Spec

(* Whatever Redis loses and however fills and changes interleave, a list   *)
(* in use is wrong only about users added or removed less than TTL and two *)
(* budgets ago.                                                            *)
THEOREM SpecStalenessBounded == Spec => []StalenessBounded
  <1>1. TypeOK /\ AgeInv => StalenessBounded
    <2> SUFFICES ASSUME TypeOK, AgeInv, NEW r \in Reader, NEW u \in User,
                        reader[r].pc = "done", WrongFor(u, reader[r].uids)
                 PROVE  now < changedAt[u] + MaxAge
      BY DEF StalenessBounded
    <2>1. reader[r] # Idle
      BY DEF Idle
    <2>2. /\ now <= reader[r].started + Budget
          /\ reader[r].started < reader[r].listedAt + Budget + TTL
          /\ reader[r].listedAt <= changedAt[u]
      BY <2>1 DEF AgeInv, ReaderInv, TrueAt
    <2>3. reader[r].started \in Int /\ reader[r].listedAt \in Int
      BY <2>1, CallType, TimeIsInt
    <2> QED  BY <2>2, <2>3, TimeIsInt DEF MaxAge
  <1>2. TypeOK /\ AgeInv /\ [Next]_vars => (TypeOK /\ AgeInv)'
    BY TypeStep, AgeStep
  <1> QED  BY <1>1, <1>2, InitInv, PTL DEF Spec

(* A wrong list is in the cache only with an invalidation on its way, after*)
(* a lost one, or from a fill that raced with a change.                    *)
THEOREM SpecStaleHasCause == Spec => []StaleHasCause
  <1>1. RaceInv => StaleHasCause
    BY DEF RaceInv, StaleHasCause, Cached
  <1>2. TypeOK /\ RaceInv /\ [Next]_vars => (TypeOK /\ RaceInv)'
    BY TypeStep, RaceStep
  <1> QED  BY <1>1, <1>2, InitInv, PTL DEF Spec

-----------------------------------------------------------------------------
(* GroupCalls.                                                             *)

(* A running call has time left, and the user a token is about to be made  *)
(* for was a member when the call began or has left since.                 *)
CallInv(c) ==
    call[c] # Idle =>
        /\ call[c].started <= now /\ now <= call[c].started + Budget
        /\ call[c].pc = "mint" /\ call[c].uid \notin members =>
               call[c].started <= changedAt[call[c].uid]

(* No grant was issued in the future; those of someone outside the group   *)
(* were issued at most a budget after their holder left.                   *)
GrantInv(u) ==
    /\ grant[u] <= now + GrantTTL
    /\ u \notin members =>
           \/ grant[u] = 0
           \/ changedAt[u] >= 0 /\ grant[u] <= changedAt[u] + GrantTTL + Budget

(* Neither JoinBounded nor InviteIsCurrent is inductive: both rest on when *)
(* a call began, and the former on when a grant was issued.                *)
GInv ==
    /\ CallTypeOK
    /\ InviteIsCurrent
    /\ \A c \in CallReq : CallInv(c)
    /\ \A u \in User : GrantInv(u)

-----------------------------------------------------------------------------
(* Idle is no call.                                                        *)
LEMMA IdleIsNoCall == Idle.pc = "idle" /\ Idle \notin CallRequest
  <1>1. \A q \in CallRequest : q.pc # "idle"
    BY DEF CallRequest
  <1> QED  BY <1>1 DEF Idle

(* A call that is not idle has its type.                                   *)
LEMMA RunningCall ==
    ASSUME CallTypeOK, NEW c \in CallReq, call[c] # Idle
    PROVE  /\ call[c] \in CallRequest /\ call[c].uid \in User
           /\ call[c].started \in 0..MaxTime /\ call[c].others \in SUBSET User
           /\ call[c].pc \in {"check", "list", "push", "mint"}
  BY DEF CallTypeOK, CallRequest

(* The times are integers.                                                 *)
LEMMA Times ==
    ASSUME CallTypeOK
    PROVE  /\ now \in Nat /\ now \in 0..MaxTime /\ Budget \in Nat /\ GrantTTL \in Nat
           /\ MaxTime \in Nat
           /\ \A u \in User : changedAt[u] \in Int /\ grant[u] \in Nat
  <1>1. TypeOK
    BY DEF CallTypeOK
  <1>2. Time \subseteq Int /\ now \in 0..MaxTime
    BY <1>1, TimeIsInt DEF TypeOK
  <1>3. ASSUME NEW u \in User  PROVE changedAt[u] \in Int /\ grant[u] \in Nat
    <2>1. changedAt[u] \in Time
      BY <1>1 DEF TypeOK
    <2>2. grant[u] \in 0..(MaxTime + GrantTTL)
      BY DEF CallTypeOK
    <2>3. MaxTime + GrantTTL \in Nat
      BY TimeAssumption, GrantAssumption
    <2>4. changedAt[u] \in Int
      BY <1>2, <2>1
    <2>5. grant[u] \in Nat
      BY <2>2, <2>3
    <2> QED  BY <2>4, <2>5
  <1> QED  BY <1>2, <1>3, TimeAssumption, GrantAssumption

(* No call is running and no grant issued at first.                        *)
LEMMA InitGInv == GInit => GInv
  <1> SUFFICES ASSUME GInit PROVE GInv
    OBVIOUS
  <1>1. TypeOK
    BY InitInv DEF GInit
  <1>2. CallTypeOK
    BY <1>1, TimeAssumption, GrantAssumption DEF GInit, CallTypeOK
  <1>3. InviteIsCurrent
    BY DEF GInit, InviteIsCurrent, CallAt, Idle
  <1>4. \A u \in User : GrantInv(u)
    <2>1. now = 0 /\ \A u \in User : grant[u] = 0
      BY DEF GInit, Init
    <2>2. 0 <= 0 + GrantTTL
      BY GrantAssumption
    <2> QED  BY <2>1, <2>2 DEF GrantInv
  <1> QED  BY <1>2, <1>3, <1>4 DEF GInv, GInit, CallInv

(* What a step of the cache, the table or the clock does to the members.   *)
LEMMA NextEffect ==
    ASSUME TypeOK, Next
    PROVE  \/ UNCHANGED <<members, changedAt>> /\ now' = now
           \/ UNCHANGED <<members, changedAt>> /\ now' = now + 1
           \/ \E u \in User : /\ changedAt' = [changedAt EXCEPT ![u] = now] /\ now' = now
                              /\ \A v \in User \ {u} : v \in members' <=> v \in members
  <1>1. ASSUME NEW w \in Writer, NEW u \in User, AddMember(w, u) \/ RemoveMember(w, u)
        PROVE  /\ changedAt' = [changedAt EXCEPT ![u] = now] /\ now' = now
               /\ \A v \in User \ {u} : v \in members' <=> v \in members
    BY <1>1 DEF AddMember, RemoveMember
  <1>2. ASSUME NEW w \in Writer, RemoveNobody(w) \/ InvalidateCache(w) \/ InvalidateLost(w)
        PROVE  UNCHANGED <<members, changedAt, now>>
    BY <1>2 DEF RemoveNobody, InvalidateCache, InvalidateLost
  <1>3. ASSUME NEW r \in Reader, Read(r)  PROVE UNCHANGED <<members, changedAt, now>>
    BY <1>3 DEF Read, Start, GetHit, GetMiss, ListMembers, SetCache, SetFails, Finish
  <1>4. CASE Tick
    BY <1>4 DEF Tick
  <1> QED  BY <1>1, <1>2, <1>3, <1>4 DEF Next, Change

(* Members come and go and time passes beside the calls.                   *)
LEMMA OutsideStep ==
    ASSUME GInv, [Next]_vars, InTime, UNCHANGED callVars
    PROVE  GInv'
  <1>1. TypeOK /\ TypeOK' /\ CallTypeOK
    BY TypeStep DEF GInv, CallTypeOK
  <1>2. call' = call /\ grant' = grant
    BY DEF callVars
  <1>3. CallTypeOK'
    BY <1>1, <1>2 DEF CallTypeOK
  <1>4. /\ now' = now \/ now' = now + 1
        /\ \A u \in User :
              \/ (u \in members' <=> u \in members) /\ changedAt'[u] = changedAt[u]
              \/ changedAt'[u] = now
    <2>1. CASE Next
      BY <1>1, <2>1, NextEffect DEF TypeOK
    <2>2. CASE UNCHANGED vars
      BY <2>2 DEF vars
    <2> QED  BY <2>1, <2>2
  <1>5. ASSUME NEW c \in CallReq, call[c] # Idle
        PROVE  call[c].started <= now' /\ now' <= call[c].started + Budget
    <2>1. call[c].started \in 0..MaxTime /\ call[c].pc # "idle" /\ CallInv(c)
      BY <1>1, <1>5, RunningCall DEF GInv
    <2>2. now' > now => now < call[c].started + Budget
      BY <2>1 DEF InTime, CallAt
    <2> QED  BY <1>1, <1>4, <1>5, <2>1, <2>2, Times DEF CallInv
  <1>6. ASSUME NEW c \in CallReq  PROVE CallInv(c)'
    <2>1. CASE call[c] = Idle
      BY <1>2, <2>1 DEF CallInv
    <2>2. CASE call[c] # Idle
      <3>1. CallInv(c) /\ call[c].uid \in User /\ call[c].started \in 0..MaxTime
        BY <1>1, <2>2, RunningCall DEF GInv
      <3> QED  BY <1>1, <1>2, <1>4, <1>5, <2>2, <3>1, Times DEF CallInv
    <2> QED  BY <2>1, <2>2
  <1>7. ASSUME NEW u \in User  PROVE GrantInv(u)'
    <2>1. GrantInv(u)
      BY DEF GInv
    <2>2. /\ now' >= now /\ now \in Nat /\ now' \in Nat /\ GrantTTL \in Nat /\ Budget \in Nat
          /\ changedAt[u] \in Int /\ changedAt'[u] \in Int /\ grant[u] \in Nat
      BY <1>1, <1>3, <1>4, Times
    <2> QED  BY <1>2, <1>4, <2>1, <2>2 DEF GrantInv
  <1>8. InviteIsCurrent'
    <2> SUFFICES ASSUME NEW c \in CallReq, CallAt(c, "push"), call[c].others # {},
                        NEW u \in User \ {call[c].uid}, (u \in call[c].others) # (u \in members')
                 PROVE  changedAt'[u] >= call[c].started
      BY <1>2 DEF InviteIsCurrent, CallAt, WrongFor
    <2>1. call[c] # Idle
      BY IdleIsNoCall DEF CallAt
    <2>2. call[c].started <= now /\ call[c].started \in 0..MaxTime
      BY <1>1, <2>1, RunningCall DEF GInv, CallInv
    <2>3. CASE (u \in members' <=> u \in members) /\ changedAt'[u] = changedAt[u]
      BY <2>3 DEF GInv, InviteIsCurrent, WrongFor
    <2>4. CASE changedAt'[u] = now
      BY <1>1, <2>2, <2>4, Times
    <2> QED  BY <1>4, <2>3, <2>4
  <1> QED  BY <1>3, <1>6, <1>7, <1>8 DEF GInv

(* A call of a handler of internal/call, which leaves the rest alone.      *)
LEMMA CallStepInv ==
    ASSUME GInv, NEW c \in CallReq, CallStep(c), UNCHANGED vars
    PROVE  GInv'
  <1>1. CallTypeOK /\ TypeOK' /\ UNCHANGED <<members, changedAt, now>>
    <2>1. TypeOK'
      BY TypeStep DEF GInv, CallTypeOK
    <2> QED  BY <2>1 DEF GInv, vars
  <1>2. ASSUME NEW q \in CallRequest \cup {Idle}, call' = [call EXCEPT ![c] = q],
               grant' \in [User -> 0..(MaxTime + GrantTTL)], \A u \in User : GrantInv(u)',
               q # Idle =>
                   /\ q.started <= now /\ now <= q.started + Budget
                   /\ q.pc = "mint" /\ q.uid \notin members => q.started <= changedAt[q.uid]
                   /\ q.pc = "push" /\ q.others # {} =>
                          q.others = members \ {q.uid}
        PROVE  GInv'
    <2>1. call'[c] = q /\ \A d \in CallReq \ {c} : call'[d] = call[d]
      BY <1>1, <1>2 DEF CallTypeOK
    <2>2. CallTypeOK'
      BY <1>1, <1>2 DEF CallTypeOK
    <2>3. ASSUME NEW d \in CallReq  PROVE CallInv(d)'
      BY <1>1, <1>2, <2>1 DEF CallInv, GInv
    <2>4. InviteIsCurrent'
      <3> SUFFICES ASSUME NEW d \in CallReq, call'[d].pc = "push", call'[d].others # {},
                          NEW u \in User \ {call'[d].uid},
                          (u \in call'[d].others) # (u \in members)
                   PROVE  changedAt[u] >= call'[d].started
        BY <1>1 DEF InviteIsCurrent, CallAt, WrongFor
      <3>1. CASE d = c
        <4>1. q # Idle
          BY <2>1, <3>1, IdleIsNoCall
        <4>2. q.others = members \ {q.uid} /\ u # q.uid
          BY <1>2, <2>1, <3>1, <4>1
        <4> QED  BY <2>1, <3>1, <4>2
      <3>2. CASE d # c
        BY <2>1, <3>2 DEF GInv, InviteIsCurrent, CallAt, WrongFor
      <3> QED  BY <3>1, <3>2
    <2> QED  BY <1>2, <2>2, <2>3, <2>4 DEF GInv
  <1>3. grant' = grant =>
            grant' \in [User -> 0..(MaxTime + GrantTTL)] /\ \A u \in User : GrantInv(u)'
    BY <1>1 DEF GInv, CallTypeOK, GrantInv
  <1>4. CASE CallReceive(c)
    <2>1. PICK op \in {"invite", "token"}, u \in User :
            call' = [call EXCEPT ![c] =
                [op |-> op, pc |-> "check", uid |-> u, others |-> {}, started |-> now]]
      BY <1>4 DEF CallReceive
    <2> DEFINE q == [op |-> op, pc |-> "check", uid |-> u, others |-> {}, started |-> now]
    <2>2. q \in CallRequest
      BY <1>1, Times DEF CallRequest
    <2>3. q.started = now /\ q.pc = "check" /\ call' = [call EXCEPT ![c] = q]
      BY <2>1
    <2>4. grant' = grant /\ now <= now + Budget /\ now <= now
      BY <1>1, <1>4, Times DEF CallReceive
    <2> HIDE DEF q
    <2> QED  BY <1>2, <1>3, <2>2, <2>3, <2>4
  <1>5. CASE CallRespond(c) /\ grant' = grant
    BY <1>2, <1>3, <1>5 DEF CallRespond
  <1>6. ASSUME call[c] # Idle, NEW pc \in {"list", "push", "mint"}, NEW uids \in SUBSET User,
               call' = [call EXCEPT ![c] = [call[c] EXCEPT !.pc = pc, !.others = uids]],
               grant' = grant,
               pc = "mint" => call[c].uid \in members,
               pc = "push" => uids = {} \/ uids = members \ {call[c].uid}
        PROVE  GInv'
    <2> DEFINE q == [call[c] EXCEPT !.pc = pc, !.others = uids]
    <2>1. call[c] \in CallRequest /\ CallInv(c)
      BY <1>1, <1>6, RunningCall DEF GInv
    <2>2. /\ q \in CallRequest /\ q.pc = pc /\ q.others = uids
          /\ q.uid = call[c].uid /\ q.started = call[c].started
      BY <2>1 DEF CallRequest
    <2> HIDE DEF q
    <2> QED  BY <1>2, <1>3, <1>6, <2>1, <2>2 DEF CallInv, q
  <1>7. CASE CallCheck(c)
    <2>1. call[c] # Idle
      BY <1>7, IdleIsNoCall DEF CallCheck, CallAt
    <2>2. call[c] \in CallRequest /\ call[c].others \in SUBSET User
      BY <1>1, <2>1, RunningCall
    <2>3. [call[c] EXCEPT !.pc = "list"] = [call[c] EXCEPT !.pc = "list", !.others = call[c].others]
      BY <2>2 DEF CallRequest
    <2>4. [call[c] EXCEPT !.pc = "mint"] = [call[c] EXCEPT !.pc = "mint", !.others = call[c].others]
      BY <2>2 DEF CallRequest
    <2>5. CASE ~IsParticipant(call[c].uid)
      BY <1>5, <1>7, <2>5 DEF CallCheck
    <2>6. CASE IsParticipant(call[c].uid) /\ call[c].op = "invite"
      <3>1. call' = [call EXCEPT ![c] = [call[c] EXCEPT !.pc = "list"]] /\ grant' = grant
        BY <1>7, <2>6 DEF CallCheck, CallGoto
      <3> QED  BY <1>6, <2>1, <2>2, <2>3, <3>1
    <2>7. CASE IsParticipant(call[c].uid) /\ call[c].op # "invite"
      <3>1. call' = [call EXCEPT ![c] = [call[c] EXCEPT !.pc = "mint"]] /\ grant' = grant
        BY <1>7, <2>7 DEF CallCheck, CallGoto
      <3> QED  BY <1>6, <2>1, <2>2, <2>4, <2>7, <3>1 DEF IsParticipant
    <2> QED  BY <2>5, <2>6, <2>7
  <1>8. CASE ListOthers(c)
    <2>1. call[c] # Idle
      BY <1>8, IdleIsNoCall DEF ListOthers, CallAt
    <2>2. PICK uids \in {members \ {call[c].uid}, {}} :
            call' = [call EXCEPT ![c] = [call[c] EXCEPT !.pc = "push", !.others = uids]]
      BY <1>8 DEF ListOthers, OtherParticipants
    <2>3. uids \in SUBSET User
      BY <1>1 DEF CallTypeOK, TypeOK
    <2> QED  BY <1>6, <1>8, <2>1, <2>2, <2>3 DEF ListOthers
  <1>9. CASE IssueToken(c)
    <2>1. call[c] # Idle /\ call[c].pc = "mint"
      BY <1>9, IdleIsNoCall DEF IssueToken, CallAt
    <2>2. /\ call[c].uid \in User /\ call[c].started \in 0..MaxTime
          /\ CallInv(c)
      BY <1>1, <2>1, RunningCall DEF GInv
    <2>3. grant' = [grant EXCEPT ![call[c].uid] = now + GrantTTL]
      BY <1>9 DEF IssueToken, MintToken
    <2>4. grant' \in [User -> 0..(MaxTime + GrantTTL)]
      <3>1. now + GrantTTL \in 0..(MaxTime + GrantTTL)
        BY <1>1, Times
      <3> QED  BY <1>1, <2>3, <3>1 DEF CallTypeOK
    <2>5. ASSUME NEW u \in User  PROVE GrantInv(u)'
      <3>1. CASE u # call[c].uid
        BY <1>1, <2>2, <2>3, <3>1 DEF GInv, GrantInv, CallTypeOK
      <3>2. CASE u = call[c].uid
        <4>1. grant'[u] = now + GrantTTL
          BY <1>1, <2>3, <3>2 DEF CallTypeOK
        <4>2. u \notin members => changedAt[u] >= 0 /\ now <= changedAt[u] + Budget
          BY <1>1, <2>1, <2>2, <3>2, Times DEF CallInv
        <4> QED  BY <1>1, <4>1, <4>2, Times DEF GrantInv
      <3> QED  BY <3>1, <3>2
    <2> QED  BY <1>2, <1>9, <2>4, <2>5 DEF IssueToken, CallRespond
  <1> QED  BY <1>4, <1>5, <1>7, <1>8, <1>9 DEF CallStep, Push, CallAbort

(* Every step keeps the invariant.                                         *)
LEMMA NextGInv == GInv /\ [GNext]_<<vars, callVars>> => GInv'
  <1> SUFFICES ASSUME GInv, [GNext]_<<vars, callVars>> PROVE GInv'
    OBVIOUS
  <1>1. CASE Next /\ InTime /\ UNCHANGED callVars
    BY <1>1, OutsideStep
  <1>2. ASSUME NEW c \in CallReq, CallStep(c), UNCHANGED vars  PROVE GInv'
    BY <1>2, CallStepInv
  <1>3. CASE UNCHANGED <<vars, callVars>>
    <2>1. now' = now /\ now \in Nat
      BY <1>3, Times DEF vars, GInv
    <2>2. InTime
      BY <2>1 DEF InTime
    <2> QED  BY <1>3, <2>2, OutsideStep
  <1> QED  BY <1>1, <1>2, <1>3 DEF GNext

-----------------------------------------------------------------------------
(* GInv holds in every state of every behaviour.                           *)
THEOREM SpecGInv == GSpec => []GInv
  BY InitGInv, NextGInv, PTL DEF GSpec

(* The types of the table, the list, the calls and the grants.             *)
THEOREM SpecCallTypeOK == GSpec => []CallTypeOK
  <1>1. GInv => CallTypeOK
    BY DEF GInv
  <1> QED  BY <1>1, SpecGInv, PTL

(* invite is wrong only about somebody who came or went while it ran, for  *)
(* any number of members, changes and calls.                               *)
THEOREM SpecInviteIsCurrent == GSpec => []InviteIsCurrent
  <1>1. GInv => InviteIsCurrent
    BY DEF GInv
  <1> QED  BY <1>1, SpecGInv, PTL

(* Someone outside of the group can join its calls for GrantTTL and a      *)
(* handler's run after leaving it at most, for every lifetime and budget.  *)
THEOREM SpecJoinBounded == GSpec => []JoinBounded
  <1>1. ASSUME GInv  PROVE JoinBounded
    <2> SUFFICES ASSUME NEW u \in User, now < grant[u], u \notin members
                 PROVE  changedAt[u] # Never /\ now < changedAt[u] + GrantTTL + Budget
      BY DEF JoinBounded
    <2>1. GrantInv(u)
      BY <1>1 DEF GInv
    <2> QED  BY <1>1, <2>1, Times, TimeAssumption DEF GrantInv, GInv, Never, MaxAge
  <1> QED  BY <1>1, SpecGInv, PTL

=============================================================================
