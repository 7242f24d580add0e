------------------------------- MODULE Profile -------------------------------
(***************************************************************************)
(* Profile updates of one user, from several devices: handleUpdateProfile  *)
(* (internal/auth/handler.go) reads the user's row and writes both of its  *)
(* columns back, those the request names with new values and the others as *)
(* it has read them.  Nothing is locked between the two calls.             *)
(*                                                                         *)
(* Updates are numbered as they are received, and the value an update      *)
(* gives a column is its number.                                           *)
(***************************************************************************)
EXTENDS Naturals, Sequences, FiniteSetsExt, SequencesExt

CONSTANTS
    Req,        \* slots for concurrently running handlers
    MaxUpdate   \* bound on the updates received

ASSUME BoundAssumption == MaxUpdate \in Nat

VARIABLES
    user,       \* the user's row: the update each column's value is from
    received,   \* how many updates have been received
    req,        \* req[r]: the handler running in slot r
    named,      \* named[k]: the columns update k names
    executed,   \* history: the updates in the order of their UPDATEs
    seen        \* history, seen[k]: the updates executed when k read the row

history == <<executed, seen>>
vars == <<user, received, req, named, history>>

Field == {"nickname", "avatar"}

(* The registration, which gives every column its first value, counts as   *)
(* the update with number 0.                                               *)
Registered == 0

Update == Registered..MaxUpdate

Row == [Field -> Update]

AsRegistered == [f \in Field |-> Registered]

(* current is the handler's copy of the row.                               *)
Request == [pc: {"read", "write"}, update: Update, current: Row]

Idle == [pc |-> "idle"]

Init ==
    /\ user = AsRegistered
    /\ received = 0
    /\ req = [r \in Req |-> Idle]
    /\ named = [k \in Update |-> IF k = Registered THEN Field ELSE {}]
    /\ executed = <<Registered>>
    /\ seen = [k \in Update |-> {}]

-----------------------------------------------------------------------------
Merged_Swapped(current, k) ==
    [f \in Field |-> IF f \in named[k] THEN current[f] ELSE k]

Merged_Blank(current, k) ==
    [f \in Field |-> IF f \in named[k] THEN k ELSE Registered]

(* What the handler makes of the row it has read and of the request, in    *)
(* which either pointer may be nil.                                        *)
Merged(current, k) ==
    [f \in Field |-> IF f \in named[k] THEN k ELSE current[f]]

(* The request has passed the validation of its nickname.                  *)
Receive(r) ==
    /\ req[r] = Idle
    /\ received < MaxUpdate
    /\ received' = received + 1
    /\ req' = [req EXCEPT ![r] =
            [pc |-> "read", update |-> received', current |-> AsRegistered]]
    /\ \E fields \in SUBSET Field : named' = [named EXCEPT ![received'] = fields]
    /\ UNCHANGED <<user, history>>

GetUsersByIDs(r) ==
    /\ req[r].pc = "read"
    /\ req' = [req EXCEPT ![r].pc = "write", ![r].current = user]
    /\ seen' = [seen EXCEPT ![req[r].update] = ToSet(executed)]
    /\ UNCHANGED <<user, received, named, executed>>

(* The UPDATE, whether or not its success is reported.                     *)
UpdateProfile(r) ==
    /\ req[r].pc = "write"
    /\ user' = Merged(req[r].current, req[r].update)
    /\ executed' = Append(executed, req[r].update)
    /\ req' = [req EXCEPT ![r] = Idle]
    /\ UNCHANGED <<received, named, seen>>

(* A database error, the end of the context or a crash before either call. *)
Abort(r) ==
    /\ req[r] # Idle
    /\ req' = [req EXCEPT ![r] = Idle]
    /\ UNCHANGED <<user, received, named, history>>

Next ==
    \E r \in Req : Receive(r) \/ GetUsersByIDs(r) \/ UpdateProfile(r) \/ Abort(r)

Spec == Init /\ [][Next]_vars

-----------------------------------------------------------------------------
(* The variables have their types, and a column's value, in the row or in  *)
(* a handler's copy, is from an update that was executed and names the     *)
(* column.                                                                 *)
TypeOK ==
    /\ user \in Row
    /\ received \in 0..MaxUpdate
    /\ req \in [Req -> Request \cup {Idle}]
    /\ named \in [Update -> SUBSET Field]
    /\ executed \in BoundedSeq(Update, MaxUpdate + 1)
    /\ seen \in [Update -> SUBSET Update]
    /\ \A f \in Field :
        \A row \in {user} \cup {req[r].current : r \in {q \in Req : req[q] # Idle}} :
            row[f] \in ToSet(executed) /\ f \in named[row[f]]

(* The place in executed of the last update that names f.                  *)
LastNaming(f) == Max({i \in DOMAIN executed : f \in named[executed[i]]})

(* "reading the caller's current row and only overwriting the fields       *)
(* present in the request" (auth/handler.go:144-146): a column has the     *)
(* value of the last update that names it, unless an update executed since *)
(* had read the row before that.  A lost update takes a race; no sequence  *)
(* of updates, failed ones included, loses one otherwise.                  *)
LostOnlyToRace ==
    \A f \in Field :
        \/ user[f] = executed[LastNaming(f)]
        \/ \E i \in LastNaming(f) + 1..Len(executed) :
            executed[LastNaming(f)] \notin seen[executed[i]]

=============================================================================
