----------------------------- MODULE GroupCalls -----------------------------
(***************************************************************************)
(* internal/call/handler.go for a group room, beside the changes of its    *)
(* members and the cached list of module MemberCache: invite pushes an     *)
(* invitation to the other members, token issues the grant with which the  *)
(* LiveKit server lets its holder join the call.  Neither uses the cached  *)
(* list: each asks the table, in one call for the check and another for    *)
(* the listing, and members come and go between the two.  A grant is not   *)
(* revoked when its holder is removed.                                     *)
(***************************************************************************)
EXTENDS MemberCache

CONSTANTS
    CallReq,    \* slots for running token and invite handlers
    GrantTTL    \* lifetime of a grant, in ticks

ASSUME GrantAssumption == GrantTTL \in Nat

VARIABLES
    call,       \* call[c]: the handler running in slot c
    grant       \* grant[u]: when the last grant issued to u expires

callVars == <<call, grant>>

CallRequest ==
    [op: {"invite", "token"}, pc: {"check", "list", "push", "mint"}, uid: User,
     others: SUBSET User, started: 0..MaxTime]

GInit ==
    /\ Init
    /\ call = [c \in CallReq |-> Idle]
    /\ grant = [u \in User |-> 0]

CallAt(c, pc) == call[c].pc = pc

CallGoto(c, pc) == call' = [call EXCEPT ![c].pc = pc]

CallRespond(c) == call' = [call EXCEPT ![c] = Idle]

CallReceive(c) ==
    /\ CallAt(c, "idle")
    /\ \E op \in {"invite", "token"}, u \in User :
        call' = [call EXCEPT ![c] =
            [op |-> op, pc |-> "check", uid |-> u, others |-> {}, started |-> now]]
    /\ UNCHANGED grant

IsParticipant_Anyone(u) == TRUE

IsParticipant(u) == u \in members

(* GetRoom, whose answer never changes, and IsParticipant.                 *)
CallCheck(c) ==
    /\ CallAt(c, "check")
    /\ IF IsParticipant(call[c].uid)
       THEN CallGoto(c, IF call[c].op = "invite" THEN "list" ELSE "mint")
       ELSE CallRespond(c)
    /\ UNCHANGED grant

OtherParticipants_Cached(u) == (IF Cached THEN entry.uids ELSE members) \ {u}

OtherParticipants(u) == members \ {u}

(* A listing that fails makes an invitation to nobody, answered with ok.   *)
ListOthers(c) ==
    /\ CallAt(c, "list")
    /\ \E uids \in {OtherParticipants(call[c].uid), {}} :
        call' = [call EXCEPT ![c].pc = "push", ![c].others = uids]
    /\ UNCHANGED grant

Push(c) ==
    /\ CallAt(c, "push")
    /\ CallRespond(c)
    /\ UNCHANGED grant

MintToken_Extends(u) == grant' = [grant EXCEPT ![u] = @ + GrantTTL]

MintToken(u) == grant' = [grant EXCEPT ![u] = now + GrantTTL]

IssueToken(c) ==
    /\ CallAt(c, "mint")
    /\ MintToken(call[c].uid)
    /\ CallRespond(c)

(* GetRoom, GetMember or the client fails.                                 *)
CallAbort(c) ==
    /\ ~CallAt(c, "idle")
    /\ CallRespond(c)
    /\ UNCHANGED grant

CallStep(c) ==
    \/ CallReceive(c) \/ CallCheck(c) \/ ListOthers(c) \/ Push(c) \/ IssueToken(c)
    \/ CallAbort(c)

(* The clock waits for the call handlers' context too.                     *)
InTime == now' > now => \A c \in CallReq : ~CallAt(c, "idle") => now < call[c].started + Budget

GNext ==
    \/ Next /\ InTime /\ UNCHANGED callVars
    \/ \E c \in CallReq : CallStep(c) /\ UNCHANGED vars

GSpec == GInit /\ [][GNext]_<<vars, callVars>>

-----------------------------------------------------------------------------
(* The tables, the cached list, the handlers and the grants have their     *)
(* types.                                                                  *)
CallTypeOK ==
    /\ TypeOK
    /\ call \in [CallReq -> CallRequest \cup {Idle}]
    /\ grant \in [User -> 0..(MaxTime + GrantTTL)]

(* An invitation that reaches anybody is sent to the others in the group:  *)
(* it is wrong about somebody only if they came or went while invite was   *)
(* running, however stale the list is that messages are delivered by.      *)
InviteIsCurrent ==
    \A c \in CallReq : CallAt(c, "push") /\ call[c].others # {} =>
        \A u \in User \ {call[c].uid} :
            WrongFor(u, call[c].others) => changedAt[u] >= call[c].started

(* Someone who is not in the group holds a grant that still admits to its  *)
(* calls only for GrantTTL and the time a handler may take after leaving   *)
(* it; one who never was in the group (changedAt[u] is still Never) holds  *)
(* none, however long grants last.                                         *)
JoinBounded ==
    \A u \in User : now < grant[u] /\ u \notin members =>
        changedAt[u] # Never /\ now < changedAt[u] + GrantTTL + Budget

=============================================================================
