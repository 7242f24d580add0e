---------------------------- MODULE ProfileProofs ----------------------------
(***************************************************************************)
(* Profile updates, for any number of devices and of updates.              *)
(***************************************************************************)
EXTENDS Profile, FiniteSetTheorems, SequenceTheorems, TLAPS

Running(r) == req[r] # Idle

(* The j-th update executed is the last one that names f.                  *)
IsLast(f, j) ==
    /\ j \in DOMAIN executed /\ f \in named[executed[j]]
    /\ \A i \in DOMAIN executed : f \in named[executed[i]] => i <= j

(* A value is that of the j-th update executed, or an update executed      *)
(* later had read the row before that one.                                 *)
Excused(j, value) ==
    \/ value = executed[j]
    \/ \E i \in j + 1..Len(executed) : executed[j] \notin seen[executed[i]]

(* Everything but the values.                                              *)
TablesType ==
    /\ user \in Row /\ received \in 0..MaxUpdate
    /\ req \in [Req -> Request \cup {Idle}]
    /\ named \in [Update -> SUBSET Field] /\ seen \in [Update -> SUBSET Update]
    /\ executed \in Seq(Update)

(* A value is from an update that was executed and names its column.       *)
Genuine(row) == \A f \in Field : row[f] \in ToSet(executed) /\ f \in named[row[f]]

(* An update is executed once, after it was received; the registration is  *)
(* the first and names every column, so some update is the last to.        *)
ExecutedInv ==
    /\ Len(executed) = Cardinality(ToSet(executed)) /\ ToSet(executed) \subseteq 0..received
    /\ \A i, j \in DOMAIN executed : executed[i] = executed[j] => i = j
    /\ Registered \in ToSet(executed) /\ named[Registered] = Field
    /\ \A f \in Field : \E j \in DOMAIN executed : IsLast(f, j)
    /\ \A k \in Update : seen[k] \subseteq ToSet(executed)

(* The handlers run different updates, none of which is executed, and what *)
(* a handler has read is excused if it has seen the last update.           *)
CopyInv(r) ==
    Running(r) =>
        /\ req[r].update \in 1..received /\ req[r].update \notin ToSet(executed)
        /\ Genuine(req[r].current)
        /\ \A s \in Req \ {r} : Running(s) => req[s].update # req[r].update
        /\ req[r].pc = "write" =>
               \A f \in Field : \A j \in DOMAIN executed :
                   IsLast(f, j) /\ executed[j] \in seen[req[r].update] =>
                       Excused(j, req[r].current[f])

UserInv ==
    /\ Genuine(user)
    /\ \A f \in Field : \A j \in DOMAIN executed : IsLast(f, j) => Excused(j, user[f])

IInv == TablesType /\ ExecutedInv /\ (\A r \in Req : CopyInv(r)) /\ UserInv

-----------------------------------------------------------------------------
(* The order of the UPDATEs.                                               *)

LEMMA ExecutedIs ==
    ASSUME TablesType
    PROVE  /\ DOMAIN executed = 1..Len(executed) /\ Len(executed) \in Nat
           /\ \A i \in DOMAIN executed : executed[i] \in Update
           /\ ToSet(executed) = {executed[i] : i \in DOMAIN executed}
           /\ received \in Nat
  <1>1. DOMAIN executed = 1..Len(executed) /\ Len(executed) \in Nat
    BY LenProperties DEF TablesType
  <1>2. \A i \in DOMAIN executed : executed[i] \in Update
    BY <1>1, ElementOfSeq DEF TablesType
  <1> QED  BY <1>1, <1>2, BoundAssumption DEF TablesType, ToSet

(* The last update that names f is the one LastNaming finds.               *)
LEMMA LastIs ==
    ASSUME TablesType, NEW f \in Field, NEW j \in DOMAIN executed, IsLast(f, j)
    PROVE  LastNaming(f) = j
  <1> DEFINE S == {i \in DOMAIN executed : f \in named[executed[i]]}
  <1>1. j \in S /\ \A i \in S : i <= j
    BY DEF IsLast
  <1>2. S \subseteq Nat
    BY ExecutedIs
  <1> HIDE DEF S
  <1>3. Max(S) \in S /\ \A i \in S : Max(S) >= i
    BY <1>1, <1>2 DEF Max
  <1>4. Max(S) = j
    BY <1>1, <1>2, <1>3
  <1> QED  BY <1>4 DEF LastNaming, S

(* The handlers' fields.                                                   *)
LEMMA RunningType ==
    ASSUME TablesType, NEW r \in Req, Running(r)
    PROVE  req[r] \in Request /\ req[r].update \in Update /\ req[r].current \in Row
  BY DEF TablesType, Running, Request

LEMMA IdleIsNoRequest == Idle \notin Request /\ Idle.pc = "idle"
  <1>1. \A q \in Request : q.pc # "idle"
    BY DEF Request
  <1> QED  BY <1>1 DEF Idle

-----------------------------------------------------------------------------
(* The steps.                                                              *)

LEMMA InitIInv == Init => IInv
  <1> SUFFICES ASSUME Init PROVE IInv
    OBVIOUS
  <1>1. /\ user = AsRegistered /\ received = 0 /\ req = [r \in Req |-> Idle]
        /\ named = [k \in Update |-> IF k = Registered THEN Field ELSE {}]
        /\ executed = <<Registered>> /\ seen = [k \in Update |-> {}]
    BY DEF Init
  <1>2. Registered = 0 /\ Registered \in Update
    BY BoundAssumption DEF Registered, Update
  <1>3. /\ executed \in Seq(Update) /\ Len(executed) = 1 /\ DOMAIN executed = {1}
        /\ executed[1] = Registered
    BY <1>1, <1>2
  <1>4. ToSet(executed) = {Registered}
    BY <1>3 DEF ToSet
  <1>5. AsRegistered \in Row /\ \A f \in Field : AsRegistered[f] = Registered
    BY <1>2 DEF AsRegistered, Row
  <1>6. named[Registered] = Field /\ \A k \in Update : seen[k] = {}
    BY <1>1, <1>2
  <1>7. TablesType
    BY <1>1, <1>2, <1>3, <1>5, BoundAssumption DEF TablesType
  <1>8. ExecutedInv
    <2>1. Cardinality({Registered}) = 1
      BY FS_Singleton
    <2>2. \A f \in Field : IsLast(f, 1)
      BY <1>3, <1>6 DEF IsLast
    <2> QED  BY <1>1, <1>2, <1>3, <1>4, <1>6, <2>1, <2>2 DEF ExecutedInv
  <1>9. UserInv
    BY <1>1, <1>3, <1>4, <1>5, <1>6 DEF UserInv, Genuine, Excused, IsLast
  <1>10. \A r \in Req : CopyInv(r)
    BY <1>1 DEF CopyInv, Running
  <1> QED  BY <1>7, <1>8, <1>9, <1>10 DEF IInv

(* A handler ends, and the others go on as they were.                      *)
LEMMA AbortStep ==
    ASSUME IInv, NEW r \in Req, Abort(r)
    PROVE  IInv'
  <1>1. /\ req' = [req EXCEPT ![r] = Idle]
        /\ UNCHANGED <<user, received, named, executed, seen>>
    BY DEF Abort, history
  <1>2. req'[r] = Idle /\ \A s \in Req \ {r} : req'[s] = req[s]
    BY <1>1 DEF IInv, TablesType
  <1>3. TablesType'
    BY <1>1 DEF IInv, TablesType
  <1>4. ExecutedInv' /\ UserInv'
    BY <1>1 DEF IInv, ExecutedInv, UserInv, Genuine, IsLast, Excused, ToSet
  <1>5. \A s \in Req : CopyInv(s)'
    BY <1>1, <1>2 DEF IInv, CopyInv, Running, Genuine, IsLast, Excused, ToSet
  <1> QED  BY <1>3, <1>4, <1>5 DEF IInv

(* A request is received: its number is new.                               *)
LEMMA ReceiveStep ==
    ASSUME IInv, NEW r \in Req, Receive(r)
    PROVE  IInv'
  <1> DEFINE k == received + 1
             q == [pc |-> "read", update |-> k, current |-> AsRegistered]
  <1>1. PICK fields \in SUBSET Field :
          /\ req' = [req EXCEPT ![r] = q] /\ received' = k /\ received < MaxUpdate
          /\ named' = [named EXCEPT ![k] = fields]
          /\ UNCHANGED <<user, executed, seen>>
    BY DEF Receive, history
  <1>2. TablesType /\ ExecutedInv /\ UserInv
    BY DEF IInv
  <1>3. k \in 1..MaxUpdate /\ k \in Update /\ k # Registered /\ Registered \in Update
    BY <1>1, <1>2, ExecutedIs, BoundAssumption DEF Update, Registered
  <1>4. k \notin ToSet(executed) /\ ToSet(executed) \subseteq 0..received /\ ToSet(executed) \subseteq Update
    BY <1>2, ExecutedIs DEF ExecutedInv
  <1>5. /\ \A n \in Update \ {k} : named'[n] = named[n]
        /\ named' \in [Update -> SUBSET Field]
    BY <1>1, <1>2, <1>3 DEF TablesType
  <1>6. q \in Request /\ q.pc = "read" /\ q.update = k /\ q.current = AsRegistered
    BY <1>3 DEF Request, AsRegistered, Row
  <1> HIDE DEF q
  <1>7. req'[r] = q /\ \A s \in Req \ {r} : req'[s] = req[s]
    BY <1>1, <1>2 DEF TablesType
  <1>8. TablesType'
    BY <1>1, <1>2, <1>3, <1>5, <1>6 DEF TablesType
  <1>9. ToSet(executed)' = ToSet(executed) /\ \A j \in DOMAIN executed : named'[executed[j]] = named[executed[j]]
    BY <1>1, <1>2, <1>4, <1>5, ExecutedIs DEF ToSet
  <1>10. \A f \in Field, j \in DOMAIN executed : IsLast(f, j)' <=> IsLast(f, j)
    BY <1>1, <1>9 DEF IsLast
  <1>11. \A row : Genuine(row) <=> \A f \in Field : row[f] \in ToSet(executed) /\ f \in named'[row[f]]
    BY <1>4, <1>5 DEF Genuine
  <1>12. ExecutedInv'
    <2>1. ToSet(executed) \subseteq 0..k
      BY <1>2, <1>4, ExecutedIs
    <2>2. named'[Registered] = Field
      BY <1>2, <1>3, <1>5 DEF ExecutedInv
    <2> QED  BY <1>1, <1>2, <1>9, <1>10, <2>1, <2>2 DEF ExecutedInv
  <1>13. UserInv'
    <2>1. Genuine(user)'
      BY <1>1, <1>2, <1>9, <1>11 DEF UserInv, Genuine
    <2>2. \A f \in Field : \A j \in DOMAIN executed : IsLast(f, j)' => Excused(j, user[f])'
      BY <1>1, <1>2, <1>10 DEF UserInv, Excused
    <2> QED  BY <1>1, <2>1, <2>2 DEF UserInv
  <1>14. ASSUME NEW s \in Req PROVE CopyInv(s)'
    <2>1. CASE s = r
      <3>1. Genuine(AsRegistered)'
        BY <1>2, <1>3, <1>5, <1>9 DEF Genuine, AsRegistered, ExecutedInv
      <3>2. \A t \in Req \ {r} : Running(t)' => req'[t].update # k
        <4>1. \A t \in Req : CopyInv(t)
          BY DEF IInv
        <4> QED  BY <1>2, <1>7, <4>1, ExecutedIs DEF CopyInv, Running
      <3> QED  BY <1>1, <1>2, <1>3, <1>4, <1>6, <1>7, <1>9, <2>1, <3>1, <3>2, ExecutedIs DEF CopyInv, Genuine
    <2>2. CASE s # r /\ Running(s)
      <3>1. req'[s] = req[s] /\ CopyInv(s)
        BY <1>7, <2>2 DEF IInv
      <3>2. req[s].update \in 1..k /\ req[s].update # k
        BY <1>2, <2>2, <3>1, ExecutedIs DEF CopyInv
      <3>3. Genuine(req[s].current)'
        BY <1>1, <1>9, <1>11, <2>2, <3>1 DEF CopyInv, Genuine
      <3>4. \A t \in Req \ {s} : Running(t)' => req'[t].update # req[s].update
        BY <1>6, <1>7, <2>2, <3>1, <3>2 DEF CopyInv, Running
      <3>5. req[s].pc = "write" =>
              \A f \in Field : \A j \in DOMAIN executed :
                 IsLast(f, j)' /\ executed[j] \in seen[req[s].update] => Excused(j, req[s].current[f])
        BY <1>10, <2>2, <3>1 DEF CopyInv
      <3> QED  BY <1>1, <1>9, <2>2, <3>1, <3>2, <3>3, <3>4, <3>5 DEF CopyInv, Excused
    <2>3. CASE s # r /\ ~Running(s)
      BY <1>7, <2>3 DEF CopyInv, Running
    <2> QED  BY <2>1, <2>2, <2>3
  <1> QED  BY <1>8, <1>12, <1>13, <1>14 DEF IInv

(* A handler reads the row: it has seen all that was executed, and what it *)
(* has read is what is stored.                                             *)
LEMMA ReadStep ==
    ASSUME IInv, NEW r \in Req, GetUsersByIDs(r)
    PROVE  IInv'
  <1> DEFINE k == req[r].update
             q == [req[r] EXCEPT !.pc = "write", !.current = user]
  <1>1. TablesType /\ ExecutedInv /\ UserInv /\ \A s \in Req : CopyInv(s)
    BY DEF IInv
  <1>2. /\ req' = [req EXCEPT ![r] = q] /\ seen' = [seen EXCEPT ![k] = ToSet(executed)]
        /\ UNCHANGED <<user, received, named, executed>>
    BY DEF GetUsersByIDs
  <1>3. Running(r) /\ req[r] \in Request /\ k \in Update
    BY <1>1, IdleIsNoRequest, RunningType DEF GetUsersByIDs, Running
  <1>4. k \in 1..received /\ k \notin ToSet(executed)
    BY <1>1, <1>3 DEF CopyInv
  <1>5. q \in Request /\ q.pc = "write" /\ q.update = k /\ q.current = user
    BY <1>1, <1>3 DEF Request, TablesType
  <1> HIDE DEF q, k
  <1>6. req'[r] = q /\ \A s \in Req \ {r} : req'[s] = req[s]
    BY <1>1, <1>2 DEF TablesType
  <1>7. ToSet(executed) \in SUBSET Update
    BY <1>1, ExecutedIs
  <1>8. /\ seen' \in [Update -> SUBSET Update] /\ seen'[k] = ToSet(executed)
        /\ \A n \in Update \ {k} : seen'[n] = seen[n]
    BY <1>1, <1>2, <1>3, <1>7 DEF TablesType
  <1>9. TablesType'
    BY <1>1, <1>2, <1>5, <1>8 DEF TablesType
  <1>10. /\ ToSet(executed)' = ToSet(executed)
         /\ \A f \in Field, j \in DOMAIN executed : IsLast(f, j)' <=> IsLast(f, j)
         /\ \A row : Genuine(row) <=> \A f \in Field : row[f] \in ToSet(executed) /\ f \in named'[row[f]]
    BY <1>2 DEF ToSet, IsLast, Genuine
  <1>11. \A i \in DOMAIN executed : seen'[executed[i]] = seen[executed[i]]
    BY <1>1, <1>4, <1>8, ExecutedIs
  <1>12. ASSUME NEW j \in DOMAIN executed, NEW value, Excused(j, value)
         PROVE  \/ value = executed[j]
                \/ \E i \in j + 1..Len(executed) : executed[j] \notin seen'[executed[i]]
    <2>1. \A i \in j + 1..Len(executed) : i \in DOMAIN executed
      BY <1>1, ExecutedIs
    <2> QED  BY <1>11, <1>12, <2>1 DEF Excused
  <1>13. ExecutedInv'
    BY <1>1, <1>2, <1>8, <1>10 DEF ExecutedInv
  <1>14. UserInv'
    <2>1. Genuine(user)'
      BY <1>1, <1>2, <1>10 DEF UserInv, Genuine
    <2>2. ASSUME NEW f \in Field, NEW j \in DOMAIN executed, IsLast(f, j)'
          PROVE  Excused(j, user[f])'
      <3>1. Excused(j, user[f])
        BY <1>1, <1>10, <2>2 DEF UserInv
      <3> QED  BY <1>2, <1>12, <3>1 DEF Excused
    <2> QED  BY <1>2, <2>1, <2>2 DEF UserInv
  <1>15. ASSUME NEW s \in Req PROVE CopyInv(s)'
    <2>1. CASE s = r
      <3>1. Genuine(user)'
        BY <1>14 DEF UserInv
      <3>2. \A t \in Req \ {r} : Running(t)' => req'[t].update # k
        BY <1>1, <1>3, <1>6 DEF CopyInv, Running, k
      <3>3. \A f \in Field : \A j \in DOMAIN executed : IsLast(f, j)' => Excused(j, user[f])'
        BY <1>2, <1>14 DEF UserInv
      <3> QED  BY <1>2, <1>4, <1>5, <1>6, <1>10, <2>1, <3>1, <3>2, <3>3 DEF CopyInv, Genuine, Excused
    <2>2. CASE s # r /\ Running(s)
      <3>1. req'[s] = req[s] /\ CopyInv(s)
        BY <1>1, <1>6, <2>2
      <3>2. req[s].update # k /\ req[s].update \in Update
        BY <1>1, <1>3, <2>2, RunningType DEF CopyInv, k
      <3>3. seen'[req[s].update] = seen[req[s].update]
        BY <1>8, <3>2
      <3>4. Genuine(req[s].current)'
        BY <1>2, <1>10, <2>2, <3>1 DEF CopyInv, Genuine
      <3>5. \A t \in Req \ {s} : Running(t)' => req'[t].update # req[s].update
        BY <1>5, <1>6, <2>2, <3>1, <3>2 DEF CopyInv, Running
      <3>6. ASSUME req[s].pc = "write", NEW f \in Field, NEW j \in DOMAIN executed,
                   IsLast(f, j)', executed[j] \in seen'[req[s].update]
            PROVE  Excused(j, req[s].current[f])'
        <4>1. Excused(j, req[s].current[f])
          BY <1>10, <2>2, <3>1, <3>3, <3>6 DEF CopyInv
        <4>2. \/ req[s].current[f] = executed[j]
              \/ \E i \in j + 1..Len(executed) : executed[j] \notin seen'[executed[i]]
          BY <1>12, <4>1
        <4> QED  BY <1>2, <3>1, <4>2 DEF Excused
      <3> QED  BY <1>2, <1>10, <2>2, <3>1, <3>4, <3>5, <3>6 DEF CopyInv
    <2>3. CASE s # r /\ ~Running(s)
      BY <1>6, <2>3 DEF CopyInv, Running
    <2> QED  BY <2>1, <2>2, <2>3
  <1> QED  BY <1>9, <1>13, <1>14, <1>15 DEF IInv

(* A handler writes the row: the columns its update names get its number,  *)
(* the others what it has read; unless that is what the last update to     *)
(* name the column has left, the handler had read the row before it.       *)
LEMMA WriteStep ==
    ASSUME IInv, NEW r \in Req, UpdateProfile(r)
    PROVE  IInv'
  <1> DEFINE k == req[r].update
             current == req[r].current
             n == Len(executed) + 1
  <1>1. TablesType /\ ExecutedInv /\ UserInv /\ \A s \in Req : CopyInv(s)
    BY DEF IInv
  <1>2. /\ user' = Merged(current, k) /\ executed' = Append(executed, k)
        /\ req' = [req EXCEPT ![r] = Idle] /\ UNCHANGED <<received, named, seen>>
    BY DEF UpdateProfile
  <1>3. Running(r) /\ req[r].pc = "write"
    BY IdleIsNoRequest DEF UpdateProfile, Running
  <1>4. /\ k \in Update /\ current \in Row /\ k \in 1..received /\ k \notin ToSet(executed)
        /\ Genuine(current) /\ \A s \in Req \ {r} : Running(s) => req[s].update # k
        /\ \A f \in Field : \A j \in DOMAIN executed :
               IsLast(f, j) /\ executed[j] \in seen[k] => Excused(j, current[f])
    BY <1>1, <1>3, RunningType DEF CopyInv
  <1> HIDE DEF k, current
  <1>5. /\ DOMAIN executed = 1..Len(executed) /\ Len(executed) \in Nat
        /\ \A i \in DOMAIN executed : executed[i] \in Update
        /\ ToSet(executed) = {executed[i] : i \in DOMAIN executed} /\ received \in Nat
    BY <1>1, ExecutedIs
  <1>6. /\ executed' \in Seq(Update) /\ Len(executed') = n /\ executed'[n] = k
        /\ \A i \in DOMAIN executed : executed'[i] = executed[i]
    BY <1>1, <1>2, <1>4, <1>5, AppendProperties DEF TablesType
  <1>7. DOMAIN executed' = DOMAIN executed \cup {n} /\ n \notin DOMAIN executed /\ n \in Nat
    <2>1. DOMAIN executed' = 1..n
      BY <1>6, LenProperties
    <2> QED  BY <1>5, <2>1
  <1> HIDE DEF n
  <1>8. ToSet(executed)' = ToSet(executed) \cup {k}
    BY <1>5, <1>6, <1>7 DEF ToSet
  <1>9. req'[r] = Idle /\ \A s \in Req \ {r} : req'[s] = req[s]
    BY <1>1, <1>2 DEF TablesType
  <1>10. \A f \in Field : user'[f] = IF f \in named[k] THEN k ELSE current[f]
    BY <1>2 DEF Merged
  <1>11. TablesType'
    <2>1. user' \in Row
      BY <1>2, <1>4 DEF Merged, Row
    <2> QED  BY <1>1, <1>2, <1>6, <2>1 DEF TablesType
  (* The last update to name a column is k if k names it, else the same.   *)
  <1>12. ASSUME NEW f \in Field, f \in named[k] PROVE \A j \in DOMAIN executed' : IsLast(f, j)' <=> j = n
    <2>1. \A j \in DOMAIN executed' : j <= n
      BY <1>5, <1>7 DEF n
    <2>2. ASSUME NEW j \in DOMAIN executed', j = n PROVE IsLast(f, j)'
      BY <1>2, <1>6, <1>7, <1>12, <2>1, <2>2 DEF IsLast
    <2>3. ASSUME NEW j \in DOMAIN executed', IsLast(f, j)' PROVE j = n
      <3>1. n <= j
        BY <1>2, <1>6, <1>7, <1>12, <2>3 DEF IsLast
      <3>2. j \in Nat
        BY <1>5, <1>7
      <3> QED  BY <1>7, <2>1, <3>1, <3>2
    <2> QED  BY <2>2, <2>3
  <1>13. ASSUME NEW f \in Field, f \notin named[k]
         PROVE  \A j \in DOMAIN executed' : IsLast(f, j)' <=> j \in DOMAIN executed /\ IsLast(f, j)
    BY <1>2, <1>6, <1>7, <1>13 DEF IsLast
  (* What is excused stays excused.                                        *)
  <1>14. ASSUME NEW j \in DOMAIN executed, NEW value, Excused(j, value)
         PROVE  \/ value = executed'[j]
                \/ \E i \in j + 1..Len(executed') : executed'[j] \notin seen[executed'[i]]
    <2>1. \A i \in j + 1..Len(executed) : i \in DOMAIN executed /\ i \in j + 1..Len(executed')
      BY <1>5, <1>6 DEF n
    <2> QED  BY <1>6, <1>14, <2>1 DEF Excused
  <1>15. ExecutedInv'
    <2>1. Len(executed') = Cardinality(ToSet(executed)')
      <3>1. IsFiniteSet(ToSet(executed))
        <4>1. ToSet(executed) \in SUBSET (0..received)
          BY <1>1 DEF ExecutedInv
        <4>2. IsFiniteSet(0..received)
          BY <1>5, FS_Interval
        <4> QED  BY <4>1, <4>2, FS_Subset
      <3>2. Cardinality(ToSet(executed) \cup {k}) = Cardinality(ToSet(executed)) + 1
        BY <1>4, <3>1, FS_AddElement
      <3> QED  BY <1>1, <1>6, <1>8, <3>2 DEF ExecutedInv, n
    <2>2. ToSet(executed)' \subseteq 0..received
      <3>1. ToSet(executed) \subseteq 0..received
        BY <1>1 DEF ExecutedInv
      <3>2. k \in 0..received
        BY <1>4, <1>5
      <3> QED  BY <1>8, <3>1, <3>2
    <2>3. \A i, j \in DOMAIN executed' : executed'[i] = executed'[j] => i = j
      <3>1. \A i, j \in DOMAIN executed : executed[i] = executed[j] => i = j
        BY <1>1 DEF ExecutedInv
      <3>2. \A i \in DOMAIN executed : executed'[i] \in ToSet(executed)
        BY <1>5, <1>6
      <3> QED  BY <1>4, <1>6, <1>7, <3>1, <3>2
    <2>4. ASSUME NEW f \in Field PROVE \E j \in DOMAIN executed' : IsLast(f, j)'
      BY <1>1, <1>7, <1>12, <1>13 DEF ExecutedInv
    <2> QED  BY <1>1, <1>2, <1>8, <2>1, <2>2, <2>3, <2>4 DEF ExecutedInv
  <1>16. UserInv'
    <2>1. Genuine(user)'
      BY <1>2, <1>4, <1>8, <1>10 DEF Genuine
    <2>2. ASSUME NEW f \in Field, NEW j \in DOMAIN executed', IsLast(f, j)'
          PROVE  Excused(j, user[f])'
      <3>1. CASE f \in named[k]
        BY <1>6, <1>10, <1>12, <2>2, <3>1 DEF Excused
      <3>2. CASE f \notin named[k]
        <4>1. j \in DOMAIN executed /\ IsLast(f, j) /\ user'[f] = current[f]
          BY <1>10, <1>13, <2>2, <3>2
        <4>2. CASE executed[j] \in seen[k]
          <5>1. Excused(j, current[f])
            BY <1>4, <4>1, <4>2
          <5> QED  BY <1>2, <1>14, <4>1, <5>1 DEF Excused
        <4>3. CASE executed[j] \notin seen[k]
          <5>1. n \in j + 1..Len(executed')
            BY <1>5, <1>6, <4>1 DEF n
          <5>2. executed'[j] \notin seen'[executed'[n]]
            BY <1>2, <1>6, <4>1, <4>3
          <5> QED  BY <5>1, <5>2 DEF Excused
        <4> QED  BY <4>2, <4>3
      <3> QED  BY <3>1, <3>2
    <2> QED  BY <2>1, <2>2 DEF UserInv
  <1>17. ASSUME NEW s \in Req PROVE CopyInv(s)'
    <2>1. CASE s = r \/ ~Running(s)
      BY <1>9, <2>1 DEF CopyInv, Running
    <2>2. CASE s # r /\ Running(s)
      <3>1. req'[s] = req[s] /\ CopyInv(s) /\ req[s].update \in Update
        BY <1>1, <1>9, <2>2, RunningType
      <3>2. req[s].update \notin ToSet(executed)' /\ req[s].update # k
        BY <1>4, <1>8, <2>2, <3>1 DEF CopyInv
      <3>3. Genuine(req[s].current)'
        BY <1>2, <1>8, <1>9, <2>2, <3>1 DEF CopyInv, Genuine
      <3>4. \A t \in Req \ {s} : Running(t)' => req'[t].update # req[s].update
        BY <1>9, <2>2, <3>1 DEF CopyInv, Running
      <3>5. ASSUME req[s].pc = "write", NEW f \in Field, NEW j \in DOMAIN executed',
                   IsLast(f, j)', executed'[j] \in seen[req[s].update]
            PROVE  Excused(j, req[s].current[f])'
        <4>1. k \notin seen[req[s].update]
          BY <1>1, <1>4, <3>1 DEF ExecutedInv
        <4>2. f \notin named[k]
          BY <1>6, <1>12, <3>5, <4>1
        <4>3. j \in DOMAIN executed /\ IsLast(f, j) /\ executed[j] \in seen[req[s].update]
          BY <1>6, <1>13, <3>5, <4>2
        <4>4. Excused(j, req[s].current[f])
          BY <2>2, <3>1, <3>5, <4>3 DEF CopyInv
        <4>5. \/ req[s].current[f] = executed'[j]
              \/ \E i \in j + 1..Len(executed') : executed'[j] \notin seen[executed'[i]]
          BY <1>14, <4>3, <4>4
        <4> QED  BY <1>2, <3>1, <4>5 DEF Excused
      <3> QED  BY <1>2, <2>2, <3>1, <3>2, <3>3, <3>4, <3>5 DEF CopyInv
    <2> QED  BY <2>1, <2>2
  <1> QED  BY <1>11, <1>15, <1>16, <1>17 DEF IInv

-----------------------------------------------------------------------------
(* Every step keeps the invariant.                                         *)
LEMMA NextIInv == IInv /\ [Next]_vars => IInv'
  <1> SUFFICES ASSUME IInv, [Next]_vars PROVE IInv'
    OBVIOUS
  <1>1. ASSUME NEW r \in Req, Receive(r) \/ GetUsersByIDs(r) \/ UpdateProfile(r) \/ Abort(r)
        PROVE  IInv'
    BY <1>1, ReceiveStep, ReadStep, WriteStep, AbortStep
  <1>2. CASE UNCHANGED vars
    <2>1. UNCHANGED <<user, received, req, named, executed, seen>>
      BY <1>2 DEF vars, history
    <2>2. TablesType'
      BY <2>1 DEF IInv, TablesType
    <2>3. ExecutedInv' /\ UserInv'
      BY <2>1 DEF IInv, ExecutedInv, UserInv, Genuine, IsLast, Excused, ToSet
    <2>4. \A r \in Req : CopyInv(r)'
      BY <2>1 DEF IInv, CopyInv, Running, Genuine, IsLast, Excused, ToSet
    <2> QED  BY <2>2, <2>3, <2>4 DEF IInv
  <1> QED  BY <1>1, <1>2 DEF Next

THEOREM SpecIInv == Spec => []IInv
  BY InitIInv, NextIInv, PTL DEF Spec

(* The variables have their types; a column's value, in the row or in a    *)
(* handler's copy, is from an executed update that names the column; and   *)
(* no more updates are executed than were received.                        *)
THEOREM SpecTypeOK == Spec => []TypeOK
  <1>1. IInv => TypeOK
    <2> SUFFICES ASSUME IInv PROVE TypeOK
      OBVIOUS
    <2>1. TablesType /\ ExecutedInv /\ UserInv /\ \A r \in Req : CopyInv(r)
      BY DEF IInv
    <2>2. executed \in BoundedSeq(Update, MaxUpdate + 1)
      <3>1. IsFiniteSet(0..received) /\ Cardinality(0..received) = received + 1
        BY <2>1, ExecutedIs, FS_Interval
      <3>2. Len(executed) <= received + 1
        <4>1. ToSet(executed) \in SUBSET (0..received) /\ Len(executed) = Cardinality(ToSet(executed))
          BY <2>1 DEF ExecutedInv
        <4> QED  BY <3>1, <4>1, FS_Subset
      <3>3. Len(executed) \in 0..MaxUpdate + 1
        BY <2>1, <3>2, ExecutedIs, BoundAssumption DEF TablesType
      <3>4. executed \in [1..Len(executed) -> Update]
        BY <2>1, LenProperties DEF TablesType
      <3> QED  BY <3>3, <3>4 DEF BoundedSeq, SeqOf
    <2>3. ASSUME NEW f \in Field,
                 NEW row \in {user} \cup {req[r].current : r \in {q \in Req : req[q] # Idle}}
          PROVE  row[f] \in ToSet(executed) /\ f \in named[row[f]]
      BY <2>1 DEF UserInv, CopyInv, Genuine, Running
    <2> QED  BY <2>1, <2>2, <2>3 DEF TypeOK, TablesType
  <1> QED  BY <1>1, SpecIInv, PTL

(* A column has the value of the last update that names it, unless one     *)
(* executed since had read the row before: for any number of devices.      *)
THEOREM SpecLostOnlyToRace == Spec => []LostOnlyToRace
  <1>1. IInv => LostOnlyToRace
    <2> SUFFICES ASSUME IInv, NEW f \in Field
                 PROVE  \/ user[f] = executed[LastNaming(f)]
                        \/ \E i \in LastNaming(f) + 1..Len(executed) :
                            executed[LastNaming(f)] \notin seen[executed[i]]
      BY DEF LostOnlyToRace
    <2>1. TablesType /\ ExecutedInv /\ UserInv
      BY DEF IInv
    <2>2. PICK j \in DOMAIN executed : IsLast(f, j)
      BY <2>1 DEF ExecutedInv
    <2>3. LastNaming(f) = j
      BY <2>1, <2>2, LastIs
    <2> QED  BY <2>1, <2>2, <2>3 DEF UserInv, Excused
  <1> QED  BY <1>1, SpecIInv, PTL

=============================================================================
