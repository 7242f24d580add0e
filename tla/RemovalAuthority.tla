-------------------------- MODULE RemovalAuthority --------------------------
(***************************************************************************)
(* Membership with a history of each running removeMember: what its two    *)
(* reads, made one after the other, have to do with the roles actor and    *)
(* target held together.                                                   *)
(***************************************************************************)
EXTENDS Membership

VARIABLES
    permitted,      \* permitted[r]: CanRemoveMember has held of the current
                    \*   roles at some instant since r was received
    actorChanged,   \* the actor's row has changed since r was received
    targetChanged   \* the target's row has changed since r was received

history == <<permitted, actorChanged, targetChanged>>

Running(r) == req[r] # Idle

PermittedNow(r) ==
    /\ Running(r)
    /\ Row(req[r].group, req[r].target) # NoRow
    /\ CanRemoveMember(Row(req[r].group, req[r].actor), Row(req[r].group, req[r].target))

Changed(g, u) == groupMember'[g][u] # groupMember[g][u]

HistoryInit ==
    /\ permitted = [r \in Req |-> FALSE]
    /\ actorChanged = [r \in Req |-> FALSE]
    /\ targetChanged = [r \in Req |-> FALSE]

(* A request is only followed from the state in which it has been received.*)
Followed(r) == Running(r) /\ Running(r)'

HistoryNext ==
    /\ permitted' = [r \in Req |-> (Followed(r) /\ permitted[r]) \/ PermittedNow(r)']
    /\ actorChanged' = [r \in Req |-> Followed(r) /\
            (actorChanged[r] \/ Changed(req[r].group, req[r].actor))]
    /\ targetChanged' = [r \in Req |-> Followed(r) /\
            (targetChanged[r] \/ Changed(req[r].group, req[r].target))]

HInit == Init /\ HistoryInit

HNext == Next /\ HistoryNext

HSpec == HInit /\ [][HNext]_<<vars, history>>

-----------------------------------------------------------------------------
(* A removal that is about to be executed although its actor was at no     *)
(* instant entitled to it needs both rows to have changed while the        *)
(* handler ran: a change of one of them alone cannot fool the two reads.   *)
WrongRemovalNeedsBothChanged ==
    \A r \in Req : At(r, "remove", "write") /\ ~permitted[r] =>
        actorChanged[r] /\ targetChanged[r]

=============================================================================
