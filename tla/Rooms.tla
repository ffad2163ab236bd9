-------------------------------- MODULE Rooms --------------------------------
(***************************************************************************)
(* One group room: who is a member and with which role, who is in          *)
(* group_admins, who owns the room, who is muted, and how users come in    *)
(* (join, join request, invitation, added by a manager) and go (leave,     *)
(* removed, dissolution).                                                  *)
(*                                                                         *)
(* A request reads what it is allowed to do without a lock and writes      *)
(* later.  remove_member, dissolve_room, transfer_room_owner,              *)
(* appoint_admin and remove_admin are transactions of several statements   *)
(* (READ COMMITTED): every statement locks the rows it changes until the   *)
(* commit, nobody sees the changes before the commit, and transactions     *)
(* take their locks in different orders, so they can wait for each other.  *)
(* A trigger on room_members locks the room's row of e2ee_room_epochs      *)
(* whenever a member comes or goes.                                        *)
(*                                                                         *)
(* The reads of one request are one step, and the last statement of a      *)
(* transaction is one step with its commit.                                *)
(***************************************************************************)
EXTENDS Naturals, FiniteSets

CONSTANTS
    Users,
    None,         \* no user
    Clients,      \* requests that run at once
    MaxMembers,   \* group_settings.max_members
    MaxRequests   \* bound: number of requests

ASSUME NoneAssumption   == None \notin Users
ASSUME LimitsAssumption == MaxMembers \in Nat /\ MaxRequests \in Nat

VARIABLES
    alive,     \* rooms.deleted_at is null
    owner,     \* rooms.owner_id
    member,    \* role of the live row of room_members, or "out"
    admins,    \* rows of group_admins
    muted,     \* rows of group_mutes
    request,   \* join_requests.status, as far as anything depends on it
    invited,   \* users with a pending row of group_invitations
    settings,  \* join_approval_required and member_can_invite of group_settings
    run,       \* what every request is doing
    owned,     \* history: the users who ever owned the room
    requests   \* number of requests so far

group == <<alive, owner, member, admins, muted, request, invited, settings, owned>>
vars  == <<group, run, requests>>

-----------------------------------------------------------------------------
Roles         == {"Owner", "Admin", "Member"}
RequestStatus == {"closed", "pending", "approved"}  \* "closed": none or rejected
Settings      == [approval : BOOLEAN, invite : {"no row", "yes", "no"}]
MuteStatus    == {"none", "active", "over"}         \* "over": active, its hours have passed

(* The rows that transactions lock. *)
RoomRow      == <<"room", None>>
EpochRow     == <<"epoch", None>>
MemberRow(u) == <<"member", u>>
AdminRow(u)  == <<"admin", u>>
Rows == {RoomRow, EpochRow} \cup {MemberRow(u) : u \in Users} \cup {AdminRow(u) : u \in Users}

Pc == {"idle", "add", "adding", "remove", "removing", "dissolve", "dissolving",
       "transfer", "new owner", "transferring", "appoint", "appointing",
       "demote", "demoting", "mute", "unmute", "expire", "review", "invite", "settings"}

Run == [pc : Pc, by : Users \cup {None}, target : Users \cup {None},
        todo : SUBSET Users, held : SUBSET Rows]

Idle == [pc |-> "idle", by |-> None, target |-> None, todo |-> {}, held |-> {}]

In(u)        == member[u] # "out"
Members      == {u \in Users : In(u)}
IsOwner(u)   == alive /\ owner = u
CanManage(u) == alive /\ (owner = u \/ u \in admins)

At(p, pc)  == run[p].pc = pc
Target(p)  == run[p].target
Holds(p, row) == row \in run[p].held

Count == requests < MaxRequests /\ requests' = requests + 1

(* A request gets past its checks.  One that fails them changes nothing. *)
Enter(p, pc, u, t, S) ==
    /\ At(p, "idle") /\ Count
    /\ run' = [run EXCEPT ![p] = [Idle EXCEPT !.pc = pc, !.by = u, !.target = t, !.todo = S]]
Begin(p, pc, u, t) == Enter(p, pc, u, t, {}) /\ UNCHANGED group

(* The end of a request, which releases its locks. *)
End(p) == run' = [run EXCEPT ![p] = Idle]

(* The rows of this room the next statement of a request has to lock. *)
Wants(p) ==
    LET t == Target(p)
        live(u) == IF In(u) THEN {MemberRow(u)} ELSE {}
        admin(u) == IF u \in admins THEN {AdminRow(u)} ELSE {}
    IN  CASE At(p, "add")          -> {MemberRow(t)} \cup (IF In(t) THEN {} ELSE {EpochRow})
          [] At(p, "remove")       -> IF In(t) THEN {MemberRow(t), EpochRow} ELSE {}
          [] At(p, "removing")     -> admin(t)
          [] At(p, "dissolve")     -> {RoomRow}
          [] At(p, "dissolving")   -> {MemberRow(u) : u \in Members}
                                         \cup (IF Members = {} THEN {} ELSE {EpochRow})
          [] At(p, "transfer")     -> live(run[p].by)
          [] At(p, "new owner")    -> live(t)
          [] At(p, "transferring") -> {RoomRow}
          [] At(p, "appoint")      -> live(t)
          [] At(p, "appointing")   -> admin(t)
          [] At(p, "demote")       -> admin(t)
          [] At(p, "demoting")     -> live(t)
          [] OTHER                 -> {}

WaitsFor(p) == {q \in Clients \ {p} : run[q].held \cap Wants(p) # {}}
Granted(p)  == WaitsFor(p) = {}

(* A statement that is not the last of its transaction. *)
Lock(p, pc) ==
    /\ Granted(p)
    /\ run' = [run EXCEPT ![p].pc = pc, ![p].held = @ \cup Wants(p)]
    /\ UNCHANGED <<group, requests>>

(* create_room_with_members *)
Init ==
    /\ alive = TRUE /\ owner \in Users
    /\ member \in {[u \in Users |-> IF u = owner THEN "Owner"
                                    ELSE IF u \in S THEN "Member" ELSE "out"] :
                      S \in SUBSET Users}
    /\ admins = {} /\ invited = {} /\ owned = {owner} /\ requests = 0
    /\ muted = [u \in Users |-> "none"]
    /\ request = [u \in Users |-> "closed"]
    /\ settings = [approval |-> FALSE, invite |-> "no row"]
    /\ run = [p \in Clients |-> Idle]

-----------------------------------------------------------------------------
(* Coming in *)

(* get_or_create_group_settings: a missing row appears with its defaults. *)
CreateSettings ==
    settings' = IF settings.invite = "no row" THEN [settings EXCEPT !.invite = "yes"] ELSE settings

(* The settings are looked at. *)
ReadSettings ==
    /\ settings.invite = "no row" /\ CreateSettings
    /\ UNCHANGED <<alive, owner, member, admins, muted, request, invited, owned, run, requests>>

(* join_room: a member is told so and nothing happens. *)
Join(p, u) ==
    /\ ~In(u) /\ alive
    /\ settings.approval => request[u] = "approved"
    /\ Enter(p, "add", u, u, {}) /\ CreateSettings
    /\ UNCHANGED <<alive, owner, member, admins, muted, request, invited, owned>>

(* create_join_request asks for nothing. *)
Apply(u) ==
    /\ Count
    /\ request' = [request EXCEPT ![u] = "pending"]
    /\ UNCHANGED <<alive, owner, member, admins, muted, invited, settings, owned, run>>

ReviewStart(p, u, t) == CanManage(u) /\ Begin(p, "review", u, t)

(* review_join_request: WHERE status = 0. *)
Review(p) ==
    /\ At(p, "review") /\ End(p)
    /\ \E verdict \in {"approved", "closed"} :
         request' = [request EXCEPT ![Target(p)] = IF @ = "pending" THEN verdict ELSE @]
    /\ UNCHANGED <<alive, owner, member, admins, muted, invited, settings, owned, requests>>

(* create_invitations *)
InviteStart(p, u, t) ==
    /\ In(u) /\ alive
    /\ CanManage(u) \/ settings.invite = "yes"
    /\ Begin(p, "invite", u, t)

Invite(p) ==
    /\ At(p, "invite") /\ End(p)
    /\ invited' = invited \cup {Target(p)}
    /\ UNCHANGED <<alive, owner, member, admins, muted, request, settings, owned, requests>>

(* respond_to_invitation: the answer counts once; somebody who accepts is  *)
(* added by a second statement, whatever became of the room.               *)
Respond(p, u, accept) ==
    /\ u \in invited /\ invited' = invited \ {u}
    /\ IF accept THEN Enter(p, "add", u, u, {}) ELSE Count /\ UNCHANGED run
    /\ UNCHANGED <<alive, owner, member, admins, muted, request, settings, owned>>

(* add_group_members *)
AddStart(p, u, S) ==
    /\ CanManage(u) /\ u \notin S /\ S # {}
    /\ Cardinality(S) + Cardinality(Members) <= MaxMembers
    /\ Enter(p, "adding", u, None, S) /\ CreateSettings
    /\ UNCHANGED <<alive, owner, member, admins, muted, request, invited, owned>>

AddNext(p, t) ==
    /\ At(p, "adding") /\ t \in run[p].todo
    /\ LET left == run[p].todo \ {t}
       IN  run' = [run EXCEPT ![p] =
             IF ~In(t) THEN [@ EXCEPT !.pc = "add", !.target = t, !.todo = left]
             ELSE IF left = {} THEN Idle
             ELSE [@ EXCEPT !.todo = left]]
    /\ UNCHANGED <<group, requests>>

(* add_member with role Member: the row of a former, or a present, member  *)
(* is overwritten.                                                         *)
Add(p) ==
    /\ At(p, "add") /\ Granted(p)
    /\ member' = [member EXCEPT ![Target(p)] = "Member"]
    /\ run' = [run EXCEPT ![p] = IF @.todo = {} THEN Idle
                                 ELSE [@ EXCEPT !.pc = "adding", !.target = None]]
    /\ UNCHANGED <<alive, owner, admins, muted, request, invited, settings, owned, requests>>

-----------------------------------------------------------------------------
(* Going *)

(* leave_room: nothing is asked of the owner either. *)
Leave(p, u) == Begin(p, "remove", u, u)

(* remove_group_member *)
Kick(p, u, t) ==
    /\ CanManage(u) /\ u # t /\ In(t)
    /\ member[t] # "Owner"
    /\ member[t] = "Admin" => IsOwner(u)
    /\ Begin(p, "remove", u, t)

(* remove_member: mark the row; the row of group_admins and the mute go    *)
(* with it.                                                                *)
RemoveMark(p) ==
    /\ At(p, "remove")
    /\ IF In(Target(p)) THEN Lock(p, "removing")
       ELSE End(p) /\ UNCHANGED <<group, requests>>

RemoveCommit(p) ==
    /\ At(p, "removing") /\ Granted(p) /\ End(p)
    /\ member' = [member EXCEPT ![Target(p)] = "out"]
    /\ admins' = admins \ {Target(p)}
    /\ muted' = [muted EXCEPT ![Target(p)] = "none"]
    /\ UNCHANGED <<alive, owner, request, invited, settings, owned, requests>>

(* dissolve_room: the handler wants members, the transaction reads the     *)
(* owner, then the rows of the room and of its members are marked.  The    *)
(* rows of group_admins and group_mutes stay.                              *)
Dissolve(p, u) ==
    /\ IsOwner(u) /\ Members # {}
    /\ Begin(p, "dissolve", u, None)

DissolveRoom(p) == At(p, "dissolve") /\ Lock(p, "dissolving")

DissolveCommit(p) ==
    /\ At(p, "dissolving") /\ Granted(p) /\ End(p)
    /\ alive' = FALSE
    /\ member' = [u \in Users |-> "out"]
    /\ UNCHANGED <<owner, admins, muted, request, invited, settings, owned, requests>>

-----------------------------------------------------------------------------
(* Roles *)

(* transfer_room_owner: the two members are updated if they still are      *)
(* members; without the room everything is rolled back.                    *)
Transfer(p, u, t) ==
    /\ IsOwner(u) /\ u # t /\ In(t)
    /\ Begin(p, "transfer", u, t)

TransferOld(p) == At(p, "transfer") /\ Lock(p, "new owner")
TransferNew(p) == At(p, "new owner") /\ Lock(p, "transferring")

(* Variant: the roles are numbered from one. *)
TransferredFromOne(p) ==
    [u \in Users |-> IF ~Holds(p, MemberRow(u)) THEN member[u]
                     ELSE IF u = Target(p) THEN "Admin" ELSE "3"]

(* The roles of the transaction of p, in the rows it has locked. *)
Transferred(p) ==
    [u \in Users |-> IF ~Holds(p, MemberRow(u)) THEN member[u]
                     ELSE IF u = Target(p) THEN "Owner" ELSE "Member"]

(* Variant: the roles are committed although the room was not updated. *)
TransferCommitRoles(p) ==
    /\ At(p, "transferring") /\ Granted(p) /\ End(p)
    /\ member' = Transferred(p)
    /\ IF alive THEN owner' = Target(p) /\ owned' = owned \cup {Target(p)}
       ELSE UNCHANGED <<owner, owned>>
    /\ UNCHANGED <<alive, admins, muted, request, invited, settings, requests>>

TransferCommit(p) ==
    /\ At(p, "transferring") /\ Granted(p) /\ End(p)
    /\ IF alive
       THEN /\ owner' = Target(p) /\ owned' = owned \cup {Target(p)}
            /\ member' = Transferred(p)
       ELSE UNCHANGED <<owner, owned, member>>
    /\ UNCHANGED <<alive, admins, muted, request, invited, settings, requests>>

(* appoint_admin: only a member can become one. *)
Appoint(p, u, t) == IsOwner(u) /\ Begin(p, "appoint", u, t)

(* Variant: the number of rows the first statement changed is not looked at. *)
AppointUnseen(p) == At(p, "appoint") /\ Lock(p, "appointing")

AppointMark(p) ==
    /\ At(p, "appoint")
    /\ IF In(Target(p)) THEN Lock(p, "appointing")
       ELSE End(p) /\ UNCHANGED <<group, requests>>

AppointCommit(p) ==
    /\ At(p, "appointing") /\ Granted(p) /\ End(p)
    /\ member' = IF Holds(p, MemberRow(Target(p)))
                 THEN [member EXCEPT ![Target(p)] = "Admin"] ELSE member
    /\ admins' = admins \cup {Target(p)}
    /\ UNCHANGED <<alive, owner, muted, request, invited, settings, owned, requests>>

(* remove_admin takes the same two rows in the other order. *)
Demote(p, u, t) == IsOwner(u) /\ Begin(p, "demote", u, t)

DemoteRow(p) ==
    /\ At(p, "demote")
    /\ IF Target(p) \in admins THEN Lock(p, "demoting")
       ELSE End(p) /\ UNCHANGED <<group, requests>>

DemoteCommit(p) ==
    /\ At(p, "demoting") /\ Granted(p) /\ End(p)
    /\ admins' = admins \ {Target(p)}
    /\ member' = [member EXCEPT ![Target(p)] = IF @ = "out" THEN "out" ELSE "Member"]
    /\ UNCHANGED <<alive, owner, muted, request, invited, settings, owned, requests>>

-----------------------------------------------------------------------------
(* Mutes and settings *)

(* mute_user *)
MuteStart(p, u, t) ==
    /\ CanManage(u) /\ u # t
    /\ member[t] = "Member" /\ owner # t
    /\ Begin(p, "mute", u, t)

UnmuteStart(p, u, t) ==
    /\ CanManage(u) /\ In(t)
    /\ Begin(p, "unmute", u, t)

(* find_active_mute, of a member who sends or looks at the settings: it    *)
(* ends a mute it has read to be over by a second statement.               *)
FindOver(p, u) == muted[u] = "over" /\ Begin(p, "expire", u, u)

SetMute(p, pc, status) ==
    /\ At(p, pc) /\ End(p)
    /\ muted' = [muted EXCEPT ![Target(p)] = status]
    /\ UNCHANGED <<alive, owner, member, admins, request, invited, settings, owned, requests>>

Mute(p)   == SetMute(p, "mute", "active")
Unmute(p) == SetMute(p, "unmute", "none")
Expire(p) == SetMute(p, "expire", "none")

(* The hours of a mute pass. *)
MuteEnds(u) ==
    /\ muted[u] = "active"
    /\ muted' = [muted EXCEPT ![u] = "over"]
    /\ UNCHANGED <<alive, owner, member, admins, request, invited, settings, owned, run, requests>>

SettingsStart(p, u) == CanManage(u) /\ Begin(p, "settings", u, None)

UpdateSettings(p) ==
    /\ At(p, "settings") /\ End(p)
    /\ settings' \in [approval : BOOLEAN, invite : {"yes", "no"}]
    /\ UNCHANGED <<alive, owner, member, admins, muted, request, invited, owned, requests>>

-----------------------------------------------------------------------------
(* A request breaks off: the process stops, or the database cannot be      *)
(* reached.  What it has not committed is rolled back.                     *)
Fail(p) ==
    /\ ~At(p, "idle") /\ End(p)
    /\ UNCHANGED <<group, requests>>

(* Requests that wait for each other; the database aborts one. *)
Deadlocked(p) ==
    \E S \in SUBSET Clients :
        /\ p \in S
        /\ \A q \in S : WaitsFor(q) # {} /\ WaitsFor(q) \subseteq S

DeadlockVictim(p) ==
    /\ Deadlocked(p) /\ End(p)
    /\ UNCHANGED <<group, requests>>

Step(p) ==
    \/ Review(p) \/ Invite(p) \/ \E t \in Users : AddNext(p, t)
    \/ Add(p) \/ RemoveMark(p) \/ RemoveCommit(p) \/ DissolveRoom(p) \/ DissolveCommit(p)
    \/ TransferOld(p) \/ TransferNew(p) \/ TransferCommit(p)
    \/ AppointMark(p) \/ AppointCommit(p) \/ DemoteRow(p) \/ DemoteCommit(p)
    \/ Mute(p) \/ Unmute(p) \/ Expire(p) \/ UpdateSettings(p) \/ DeadlockVictim(p)

Arrive(p) ==
    \E u \in Users :
        \/ Join(p, u) \/ Leave(p, u) \/ Dissolve(p, u) \/ FindOver(p, u) \/ SettingsStart(p, u)
        \/ \E accept \in BOOLEAN : Respond(p, u, accept)
        \/ \E S \in SUBSET Users : AddStart(p, u, S)
        \/ \E t \in Users :
             \/ ReviewStart(p, u, t) \/ InviteStart(p, u, t) \/ Kick(p, u, t)
             \/ Transfer(p, u, t) \/ Appoint(p, u, t) \/ Demote(p, u, t)
             \/ MuteStart(p, u, t) \/ UnmuteStart(p, u, t)

Next ==
    \/ \E p \in Clients : Step(p) \/ Arrive(p) \/ Fail(p)
    \/ \E u \in Users : Apply(u) \/ MuteEnds(u)
    \/ ReadSettings

Spec == Init /\ [][Next]_vars

-----------------------------------------------------------------------------
TypeOK ==
    /\ alive \in BOOLEAN /\ owner \in Users
    /\ member \in [Users -> Roles \cup {"out"}]
    /\ admins \subseteq Users /\ invited \subseteq Users /\ owned \subseteq Users
    /\ muted \in [Users -> MuteStatus] /\ request \in [Users -> RequestStatus]
    /\ settings \in Settings
    /\ run \in [Clients -> Run]
    /\ requests \in 0 .. MaxRequests

(* Everybody group_admins lists is a member, as long as the room exists:   *)
(* can_manage_group looks at that table alone, so a row left behind by a   *)
(* removal would leave the room to somebody who is no longer in it.        *)
AdminsAreMembers == alive => \A u \in admins : In(u)

(* A member has the role of the owner only if the room has been theirs.    *)
OwnersOnly == \A u \in Users : member[u] = "Owner" => u \in owned
=============================================================================
