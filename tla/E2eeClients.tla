---------------------------- MODULE E2eeClients ----------------------------
(***************************************************************************)
(* The coordinator of the web client: how the devices of one room create   *)
(* its MLS group, follow the queue of control messages, rekey when the     *)
(* members change, and send.  The queue is that of ControlQueue, which the *)
(* server implements.                                                      *)
(*                                                                         *)
(* A device keeps three records in IndexedDB, each written by itself: the  *)
(* protocol state, the profile (its place in the queue and the last Commit *)
(* it knows) and at most one pending operation.  Its calls run one at a    *)
(* time; a call is cut at every await of the server and at every write,    *)
(* and may stop at any of them.  Only the top-up of KeyPackages, which     *)
(* reads and writes the same state, does not wait for the calls.           *)
(*                                                                         *)
(* Of MLS the model keeps what the library guarantees: a group is known by *)
(* the Commits that led to it, and a Commit is understood by exactly the   *)
(* members of the group it was made from.                                  *)
(***************************************************************************)
EXTENDS Naturals, Sequences, FiniteSets

CONSTANTS
    Users,          \* accounts
    Devices,        \* their devices, registered and approved
    Owner,          \* the account of a device
    Room,
    InitialMembers, \* members of the room at the start
    None,           \* no Commit, no group, nothing read
    MaxChanges,     \* bound: joins, departures and revocations
    Callers,        \* bound: the devices that make calls
    MaxMade,        \* bound: ids drawn before nothing more is started
    MaxTopUps       \* bound: top-ups of KeyPackages

ASSUME DevicesAssumption == IsFiniteSet(Devices)
ASSUME OwnerAssumption == Owner \in [Devices -> Users]
ASSUME MembersAssumption == InitialMembers \subseteq Users
ASSUME NoneAssumption == None \notin Devices \cup Nat
ASSUME CallersAssumption == Callers \subseteq Devices
ASSUME BoundAssumption == MaxChanges \in Nat /\ MaxMade \in Nat /\ MaxTopUps \in Nat

VARIABLES
    members,  \* room_members with deleted_at IS NULL
    trusted,  \* e2ee_devices with status active
    epoch,    \* the epoch row of the room
    log,      \* its control messages
    sent,     \* its application messages
    group,    \* the group in the stored protocol state of a device
    profile,  \* lastControlSequences and lastCommitMessageIds of the room
    pending,  \* the pending operation of a device
    call,     \* the call that runs on a device
    topUp,    \* the group in the state a top-up of KeyPackages has read
    made,     \* ids drawn so far
    topUps,   \* how many there have been
    astray    \* history: devices that lost their way for a reason the code does not mend

server  == <<members, trusted, epoch, log, sent>>
storage == <<group, profile, pending>>
vars    == <<server, storage, call, topUp, topUps, made, astray>>

Queue == INSTANCE ControlQueue WITH Rooms <- {Room}

-----------------------------------------------------------------------------
(* Groups and operations *)

(* The group a Commit leads to is known by its id; a created one, which has *)
(* no Commit yet, by its device.                                           *)
NoGroup == [id |-> None, epoch |-> 0, leaves |-> {}]
Root(d) == [id |-> d, epoch |-> 0, leaves |-> {d}]

(* A call: where it is, where it goes on after the pending operation, the  *)
(* control it submits and the revision it has read.                        *)
At(pc) == [pc |-> pc, then |-> "end", next |-> 1, revision |-> 0]
Idle == At("idle")

NoOperation == [kind |-> "none"]

Row     == epoch[Room]
Commits == {m \in log[Room] : m.kind = "commit"}

(* An active device of a member. *)
TrustedIn(d) == d \in trusted /\ Owner[d] \in members

MemberDevices == {d \in Devices : TrustedIn(d)}

Joined(d) == profile[d].last # None

MoreToMake == made < MaxMade

(* The orders in which the devices of a set may come. *)
Orders(S) == {s \in [1 .. Cardinality(S) -> S] : \A i, j \in DOMAIN s : s[i] = s[j] => i = j}

(* The p-th control when r devices are removed and then others added: a    *)
(* Commit for each device, and a Welcome after the Commit that adds one.   *)
IsCommit(r, p) == p <= r \/ (p - r) % 2 = 1
DeviceOf(r, p) == IF p <= r THEN p ELSE r + (p - r + 1) \div 2
CommitOf(r, i) == IF i <= r THEN i ELSE r + 2 * (i - r) - 1

(* The group the i-th Commit leads to, with the devices removed and added. *)
Changed(base, id, i, gone, come) ==
    [id |-> id, epoch |-> base.epoch + i, leaves |-> (base.leaves \ gone) \cup come]

Controls(d, revision, base, removes, adds) ==
    LET r   == Len(removes)
        all == removes \o adds
        after(i) == IF i = 0 THEN base
                    ELSE Changed(base, made + CommitOf(r, i), i,
                                 {all[k] : k \in {j \in 1 .. i : j <= r}},
                                 {all[k] : k \in {j \in 1 .. i : j > r}})
    IN  [p \in 1 .. r + 2 * Len(adds) |->
            LET i == DeviceOf(r, p)
            IN  [id |-> made + p, key |-> made + p, sender |-> d, revision |-> revision, seq |-> 0,
                 kind  |-> IF IsCommit(r, p) THEN "commit" ELSE "welcome",
                 to    |-> IF IsCommit(r, p) THEN {} ELSE {all[i]},
                 epoch |-> after(i).epoch, group |-> after(i), from |-> after(i - 1)]]

LastCommit(controls) ==
    LET commits == {i \in DOMAIN controls : controls[i].kind = "commit"}
    IN  controls[CHOOSE i \in commits : \A j \in commits : j <= i].id

(* A pending bootstrap or rekey: its last group and what it started from.  *)
GroupKinds == {"bootstrap", "rekey"}

GroupOperation(kind, controls, previous) ==
    [kind |-> kind, controls |-> controls, previous |-> previous,
     group |-> controls[Len(controls)].group, last |-> LastCommit(controls)]

-----------------------------------------------------------------------------
Init ==
    /\ members = InitialMembers
    /\ trusted = Devices
    /\ epoch = [r \in {Room} |-> [revision |-> 1, active |-> 0, status |-> "preparing"]]
    /\ log = [r \in {Room} |-> {}]
    /\ sent = {}
    /\ group = [d \in Devices |-> NoGroup]
    /\ profile = [d \in Devices |-> [cursor |-> 0, last |-> None]]
    /\ pending = [d \in Devices |-> NoOperation]
    /\ call = [d \in Devices |-> Idle]
    /\ topUp = [d \in Devices |-> None]
    /\ topUps = 0
    /\ made = 0
    /\ astray = {}

-----------------------------------------------------------------------------
(* The server: members and devices change, and the trigger asks for a rekey. *)

MayChange == Row.revision - 1 + Cardinality(Devices \ trusted) < MaxChanges

BumpRevision ==
    epoch' = [epoch EXCEPT ![Room] =
                 [revision |-> @.revision + 1, active |-> @.active,
                  status |-> IF @.status = "active" THEN "rekey_required" ELSE @.status]]

AddMember(u) ==
    /\ u \notin members /\ MayChange
    /\ members' = members \cup {u}
    /\ BumpRevision
    /\ UNCHANGED <<trusted, log, sent, storage, call, topUp, topUps, made, astray>>

(* Who comes back later has missed the Commits made meanwhile. *)
RemoveMember(u) ==
    /\ u \in members /\ MayChange
    /\ members' = members \ {u}
    /\ BumpRevision
    /\ astray' = astray \cup {d \in Devices : Owner[d] = u}
    /\ UNCHANGED <<trusted, log, sent, storage, call, topUp, topUps, made>>

Revoke(d) ==
    /\ d \in trusted /\ MayChange
    /\ trusted' = trusted \ {d}
    /\ epoch' = IF Owner[d] \in members THEN [epoch EXCEPT ![Room].status = "rekey_required"] ELSE epoch
    /\ UNCHANGED <<members, log, sent, storage, call, topUp, topUps, made, astray>>

-----------------------------------------------------------------------------
(* A call.  It first takes up a pending operation.  Sending a message is   *)
(* two calls: prepareText leaves the encrypted message as the pending      *)
(* operation, retryPendingSend sends it; until then every other call       *)
(* fails.  To synchronise, to decrypt, or to retry something else is to do *)
(* a first part of prepareText.                                            *)

Goto(d, pc) == call' = [call EXCEPT ![d].pc = pc]
Return(d)   == call' = [call EXCEPT ![d] = Idle]
Continue(d) == call' = [call EXCEPT ![d] = At(IF @.then = "end" THEN "idle" ELSE @.then)]

Resume(op, then) ==
    [At(CASE op.kind \in GroupKinds -> "submit"
          [] op.kind = "inbound" -> "write"
          [] op.kind = "application" -> "send") EXCEPT !.then = then]

Start(d) ==
    /\ call[d] = Idle
    /\ call' = [call EXCEPT ![d] =
                   IF pending[d] = NoOperation THEN At("reconcile")
                   ELSE Resume(pending[d], IF pending[d].kind = "application" THEN "end"
                                           ELSE "reconcile")]
    /\ UNCHANGED <<server, storage, topUp, topUps, made, astray>>

(* An await fails, or the page is closed. *)
Abandon(d) ==
    /\ call[d] # Idle
    /\ Return(d)
    /\ UNCHANGED <<server, storage, topUp, topUps, made, astray>>

-----------------------------------------------------------------------------
(* reconcileGroup *)

ReadEpoch(d) ==
    /\ call[d].pc = "reconcile"
    /\ Owner[d] \in members
    /\ IF Row.status = "rekey_required" /\ Joined(d)
       THEN call' = [call EXCEPT ![d].pc = "rekey", ![d].revision = Row.revision]
       ELSE Goto(d, "list")
    /\ UNCHANGED <<server, storage, topUp, topUps, made, astray>>

Begin(d, op, then, ids) ==
    /\ pending' = [pending EXCEPT ![d] = op]
    /\ made' = made + ids
    /\ call' = [call EXCEPT ![d] = Resume(op, then)]

(* The leaves of the local group against the devices of the members.       *)
Reconcile(d) ==
    /\ call[d].pc = "rekey"
    /\ Owner[d] \in members
    /\ d \in group[d].leaves
    /\ LET toRemove == group[d].leaves \ MemberDevices
           toAdd    == MemberDevices \ group[d].leaves
       IN  IF toRemove \cup toAdd = {}
           THEN Goto(d, "list") /\ UNCHANGED <<pending, made>>
           ELSE /\ d \notin toRemove      \* a leaf cannot remove itself
                /\ MoreToMake
                /\ \E removes \in Orders(toRemove), adds \in Orders(toAdd) :
                      LET controls == Controls(d, call[d].revision, group[d], removes, adds)
                      IN  Begin(d, GroupOperation("rekey", controls, group[d]), "list", Len(controls))
    /\ UNCHANGED <<server, group, profile, topUp, topUps, astray>>

-----------------------------------------------------------------------------
(* bootstrapRoom: the devices of the other members are added one by one.   *)
Bootstrap(d) ==
    /\ call[d].pc = "bootstrap"
    /\ Owner[d] \in members
    /\ group[d] = NoGroup
    /\ MoreToMake
    /\ LET others == {e \in MemberDevices : Owner[e] # Owner[d]}
       IN  /\ others # {}
           /\ \A u \in members \ {Owner[d]} : \E e \in others : Owner[e] = u
           /\ \E adds \in Orders(others) :
                 LET controls == Controls(d, call[d].revision, Root(d), <<>>, adds)
                 IN  Begin(d, GroupOperation("bootstrap", controls, NoGroup), "epoch", Len(controls))
    /\ UNCHANGED <<server, group, profile, topUp, topUps, astray>>

-----------------------------------------------------------------------------
(* resumePending of a bootstrap or a rekey: every control is submitted,    *)
(* those the server has already under the same id.                         *)

Control(d) == pending[d].controls[call[d].next]

Allowed(m) == TrustedIn(m.sender) /\ (m.kind = "welcome" => \A e \in m.to : TrustedIn(e))
Stored(m)  == \E x \in log[Room] : x.id = m.id

Admissible(m) ==
    /\ m.revision = Row.revision
    /\ m.epoch = Row.active + (IF m.kind = "commit" THEN 1 ELSE 0)

(* The server appends it, with a receipt for every other trusted device of *)
(* the room or for the device it is for.                                   *)
Accept(m) ==
    LET row == [m EXCEPT !.seq = Cardinality(log[Room]) + 1,
                         !.to = IF m.kind = "commit" THEN MemberDevices \ {m.sender} ELSE @]
    IN  Queue!Commit(Room, row) \/ Queue!Welcome(Room, row)

Taken(m) ==
    /\ Allowed(m)
    /\ IF Stored(m) THEN UNCHANGED <<epoch, log>> ELSE Accept(m)

Submit(d) ==
    /\ call[d].pc = "submit"
    /\ Taken(Control(d))
    /\ IF call[d].next < Len(pending[d].controls)
       THEN call' = [call EXCEPT ![d].next = @ + 1]
       ELSE Goto(d, "write")
    /\ UNCHANGED <<members, trusted, sent, storage, topUp, topUps, made, astray>>

(* Variant: a failed bootstrap is treated like a failed rekey. *)
FailedAlike(d) == Goto(d, "check")

(* A failed bootstrap is kept as it is; a failed rekey looks at the room.  *)
Failed(d) == IF pending[d].kind = "rekey" THEN Goto(d, "check") ELSE Return(d)

SubmitRefused(d) ==
    /\ call[d].pc = "submit"
    /\ LET m == Control(d) IN ~ (Allowed(m) /\ (Stored(m) \/ Admissible(m)))
    /\ Failed(d)
    /\ UNCHANGED <<server, storage, topUp, topUps, made, astray>>

(* The request or its answer is lost. *)
SubmitLost(d) ==
    /\ call[d].pc = "submit"
    /\ Taken(Control(d)) \/ UNCHANGED <<epoch, log>>
    /\ Failed(d)
    /\ UNCHANGED <<members, trusted, sent, storage, topUp, topUps, made, astray>>

(* Variant: then the rekey is taken for accepted. *)
CheckRekeyKeeps(d) ==
    /\ call[d].pc = "check"
    /\ Owner[d] \in members
    /\ LET controls == pending[d].controls
       IN  IF Row.active >= controls[Len(controls)].epoch THEN Goto(d, "write") ELSE Return(d)
    /\ UNCHANGED <<server, storage, topUp, topUps, made, astray>>

(* The room has come as far as this rekey would have taken it: give it up. *)
CheckRekey(d) ==
    /\ call[d].pc = "check"
    /\ Owner[d] \in members
    /\ LET controls == pending[d].controls
       IN  IF Row.active >= controls[Len(controls)].epoch THEN Goto(d, "restore") ELSE Return(d)
    /\ UNCHANGED <<server, storage, topUp, topUps, made, astray>>

(* The own Commits the server has taken will never come back to this device. *)
OwnTaken(d) == \E m \in Commits, i \in DOMAIN pending[d].controls : m.id = pending[d].controls[i].id

RestoreState(d) ==
    /\ call[d].pc = "restore"
    /\ group' = [group EXCEPT ![d] = pending[d].previous]
    /\ astray' = IF OwnTaken(d) THEN astray \cup {d} ELSE astray
    /\ Goto(d, "drop")
    /\ UNCHANGED <<server, profile, pending, topUp, topUps, made>>

(* Then the controls are synchronised again.  Where the call goes on after *)
(* that, it would do what it has just done: those steps are left out.      *)
DropPending(d) ==
    /\ call[d].pc = "drop"
    /\ pending' = [pending EXCEPT ![d] = NoOperation]
    /\ call' = [call EXCEPT ![d] = At("reconcile")]
    /\ UNCHANGED <<server, group, profile, topUp, topUps, made, astray>>

-----------------------------------------------------------------------------
(* The controls of a page, applied to the group a device has.              *)

Due(d) == {m \in log[Room] : d \in m.to /\ m.seq > profile[d].cursor}

Welcomes(S) == {m \in S : m.kind = "welcome"}
First(S) == CHOOSE m \in S : \A x \in S : m.seq <= x.seq
Last(S)  == CHOOSE m \in S : \A x \in S : x.seq <= m.seq

(* process_commit of one after the other: each is made from the group the  *)
(* one before it led to.                                                   *)
Follows(d, g, S) ==
    \A m \in S :
        LET before == {x \in S : x.seq < m.seq}
            from   == IF before = {} THEN g ELSE Last(before).group
        IN  /\ m.kind = "commit"
            /\ d \in from.leaves
            /\ m.from = from

GroupAfter(g, S) == IF S = {} THEN g ELSE Last(S).group

(* The group a device has after a page, if it can apply it.                *)
Applied(d, S) ==
    IF Joined(d)
    THEN [ok |-> Follows(d, group[d], S), group |-> GroupAfter(group[d], S)]
    ELSE LET w    == First(Welcomes(S))
             rest == {m \in S : m.seq > w.seq}
         IN  [ok |-> /\ \E c \in S : c.kind = "commit" /\ c.epoch = w.epoch /\ c.seq < w.seq
                     /\ Follows(d, w.group, rest),
              group |-> GroupAfter(w.group, rest)]

ListControls(d) ==
    /\ call[d].pc = "list"
    /\ TrustedIn(d)
    /\ LET page == Due(d)
           new  == Applied(d, page)
           commits == {m \in page : m.kind = "commit"}
       IN  IF page = {} \/ (~Joined(d) /\ Welcomes(page) = {})
           THEN Goto(d, "epoch") /\ UNCHANGED <<pending, made>>
           ELSE /\ new.ok
                /\ Begin(d, [kind |-> "inbound", group |-> new.group, cursor |-> Last(page).seq,
                             last |-> IF commits = {} THEN profile[d].last ELSE Last(commits).id],
                         "epoch", 0)
    /\ UNCHANGED <<server, group, profile, topUp, topUps, astray>>

-----------------------------------------------------------------------------
(* The writes that end an operation.                                       *)

WriteState(d) ==
    /\ call[d].pc = "write"
    /\ group' = [group EXCEPT ![d] = pending[d].group]
    /\ Goto(d, IF pending[d].kind = "application" THEN "delete" ELSE "profile")
    /\ UNCHANGED <<server, profile, pending, topUp, topUps, made, astray>>

(* Variant: after its own Commit a device takes the queue for read. *)
WriteProfileSeen(d) ==
    /\ call[d].pc = "profile"
    /\ profile' = [profile EXCEPT ![d] =
                      [cursor |-> IF pending[d].kind = "inbound" THEN pending[d].cursor
                                  ELSE Cardinality(log[Room]),
                       last |-> pending[d].last]]
    /\ Goto(d, "delete")
    /\ UNCHANGED <<server, group, pending, topUp, topUps, made, astray>>

WriteProfile(d) ==
    /\ call[d].pc = "profile"
    /\ profile' = [profile EXCEPT ![d] =
                      [cursor |-> IF pending[d].kind = "inbound" THEN pending[d].cursor ELSE @.cursor,
                       last |-> pending[d].last]]
    /\ Goto(d, "delete")
    /\ UNCHANGED <<server, group, pending, topUp, topUps, made, astray>>

(* The controls of a page are acknowledged first. *)
DeletePending(d) ==
    /\ call[d].pc = "delete"
    /\ pending[d].kind = "inbound" => TrustedIn(d)
    /\ pending' = [pending EXCEPT ![d] = NoOperation]
    /\ Continue(d)
    /\ UNCHANGED <<server, group, profile, topUp, topUps, made, astray>>

-----------------------------------------------------------------------------
(* preparePayload after synchronisation, and the sending of a message.     *)

CanEncrypt(d) ==
    /\ Row.status = "active"
    /\ Joined(d) /\ d \in group[d].leaves
    /\ group[d].epoch = Row.active

ReadRoom(d) ==
    /\ call[d].pc = "epoch"
    /\ Owner[d] \in members
    /\ IF Row.active = 0
       THEN /\ call' = [call EXCEPT ![d].pc = "bootstrap", ![d].revision = Row.revision]
            /\ UNCHANGED <<pending, made>>
       ELSE /\ CanEncrypt(d)
            /\ MoreToMake
            /\ pending' = [pending EXCEPT ![d] = [kind |-> "application", key |-> made + 1,
                                                  group |-> group[d], control |-> profile[d].last]]
            /\ made' = made + 1
            /\ Return(d)
    /\ UNCHANGED <<server, group, profile, topUp, topUps, astray>>

SameKey(op) == {s \in sent : s.key = op.key}

Sendable(d, op) ==
    /\ d \in trusted
    /\ Row.status = "active" /\ Row.active = op.group.epoch
    /\ \E c \in Commits : /\ c.id = op.control /\ c.epoch = op.group.epoch
                          /\ c.revision = Row.revision

Send(d) ==
    /\ call[d].pc = "send"
    /\ LET op == pending[d]
       IN  /\ Owner[d] \in members
           /\ SameKey(op) # {} \/ Sendable(d, op)
           /\ sent' = sent \cup {[key |-> op.key, group |-> op.group]}
    /\ Goto(d, "write")
    /\ UNCHANGED <<members, trusted, epoch, log, storage, topUp, topUps, made, astray>>

-----------------------------------------------------------------------------
(* topUpKeyPackages reads the state, adds KeyPackages to it and writes it. *)

TopUpRead(d) ==
    /\ topUp[d] = None /\ topUps < MaxTopUps
    /\ topUps' = topUps + 1
    /\ topUp' = [topUp EXCEPT ![d] = group[d]]
    /\ UNCHANGED <<server, storage, call, made, astray>>

(* What has been written meanwhile is lost. *)
TopUpWrite(d) ==
    /\ topUp[d] # None
    /\ group' = [group EXCEPT ![d] = topUp[d]]
    /\ topUp' = [topUp EXCEPT ![d] = None]
    /\ astray' = IF group[d] # topUp[d] THEN astray \cup {d} ELSE astray
    /\ UNCHANGED <<server, profile, pending, call, topUps, made>>

-----------------------------------------------------------------------------
Membership == \/ \E u \in Users : AddMember(u) \/ RemoveMember(u)
              \/ \E d \in Devices : Revoke(d)

Call(d) == \/ Start(d) \/ ReadEpoch(d) \/ Reconcile(d) \/ ListControls(d) \/ ReadRoom(d) \/ Bootstrap(d)
           \/ Submit(d) \/ SubmitRefused(d) \/ SubmitLost(d) \/ CheckRekey(d)
           \/ RestoreState(d) \/ DropPending(d)
           \/ WriteState(d) \/ WriteProfile(d) \/ DeletePending(d)
           \/ Send(d) \/ Abandon(d)

Next == \/ Membership
        \/ \E d \in Callers : Call(d) \/ TopUpRead(d) \/ TopUpWrite(d)

Spec == Init /\ [][Next]_vars

-----------------------------------------------------------------------------
(* Properties *)

Kinds == GroupKinds \cup {"inbound", "application"}

OperationOK(op) ==
    /\ op.kind \in Kinds
    /\ op.kind \in GroupKinds => op.controls # <<>>
    /\ op.kind = "rekey" => op.previous # NoGroup
    /\ op.kind = "inbound" => op.cursor > 0
    /\ op.kind = "application" => op.control # None /\ op.group # NoGroup

(* The part of its work a call does has the operation it needs.            *)
CallOK(d) ==
    LET pc == call[d].pc
        op == pending[d]
    IN  /\ pc = "submit" => op.kind \in GroupKinds /\ call[d].next \in DOMAIN op.controls
        /\ pc \in {"check", "restore", "drop"} => op.kind = "rekey"
        /\ pc = "send" => op.kind = "application"
        /\ pc = "profile" => op.kind \in GroupKinds \cup {"inbound"}
        /\ pc \in {"write", "delete"} => op.kind \in Kinds

(* Stored groups have leaves, pending operations the fields of their kind  *)
(* (validateShape), and a call works on an operation of the kind its place *)
(* is for: only a rekey knows the state to restore.                        *)
TypeOK ==
    /\ members \subseteq Users /\ trusted \subseteq Devices /\ astray \subseteq Devices
    /\ made \in Nat /\ topUps \in 0 .. MaxTopUps
    /\ \A d \in Devices :
          /\ group[d].epoch \in Nat /\ group[d].leaves \subseteq Devices
          /\ pending[d] # NoOperation => OperationOK(pending[d])
          /\ CallOK(d)

(* Devices and messages of one epoch are of one group: whoever encrypts    *)
(* is understood by everybody whose stored state is of that epoch, though  *)
(* several devices bootstrap or rekey at once, submissions fail halfway    *)
(* and calls stop anywhere.                                                *)
Used == {group[d] : d \in Devices} \cup {s.group : s \in sent}

OneGroupPerEpoch == \A g, h \in Used : g.epoch = h.epoch => g = h

(* State and place in the queue agree, though they are written one after   *)
(* the other: whenever nothing is pending, the Commits still due to a      *)
(* device are exactly those its group lacks.  Devices whose account has    *)
(* left once, whose state a top-up has overwritten, or which gave up a     *)
(* rekey of which the server had taken a Commit are left out: for them the *)
(* code does not keep it.                                                  *)
CanFollow ==
    \A d \in MemberDevices \ astray :
        pending[d] = NoOperation /\ Joined(d) =>
            Due(d) = {m \in Commits : m.epoch > group[d].epoch}
=============================================================================
