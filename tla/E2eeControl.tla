---------------------------- MODULE E2eeControl ----------------------------
(***************************************************************************)
(* The MLS control plane of the API server: trusted devices, the epoch row *)
(* of every room, the ordered queue of Commit and Welcome messages with    *)
(* its receipts, and the admission of encrypted application messages.      *)
(*                                                                         *)
(* All of it is PostgreSQL state changed by transactions that run at READ  *)
(* COMMITTED.  A transaction is cut where another one can get between two  *)
(* of its statements: at every read that takes no lock, and at every row   *)
(* lock it may have to wait for.  Its writes become visible in one step,   *)
(* the commit.  The row locks themselves are not variables: they follow    *)
(* from how far each transaction has got.                                  *)
(***************************************************************************)
EXTENDS Naturals, Sequences, FiniteSets

CONSTANTS
    Users,          \* accounts
    Devices,        \* device ids
    Owner,          \* the account every device id is registered under
    NoDevice,       \* the NULL of recipient_device_id
    Rooms,
    Ids,            \* ids of control messages
    Keys,           \* idempotency keys of control messages
    Handles,        \* the <<id, key>> pairs clients put on their requests
    SendKeys,       \* idempotency keys of application messages
    Submitters,     \* concurrent POST .../control-messages requests
    Managers,       \* concurrent device approvals and revocations
    Senders,        \* concurrent POST .../messages/encrypted requests
    Listers,        \* concurrent GET .../control-messages requests
    InitialStatus,  \* device registrations found at the start
    InitialMembers, \* members of every room at the start
    MaxRevision,    \* bound: membership_revision
    MaxSeq,         \* bound: sequence_no
    PageLimit       \* bound: the limit of a page of control messages

DeviceStatus == {"absent", "pending_approval", "active", "revoked"}
EpochStatus  == {"preparing", "active", "rekey_required"}
Stage        == {"none", "created", "delivered", "consumed"}

ASSUME OwnerAssumption     == Owner \in [Devices -> Users]
ASSUME NoDeviceAssumption  == NoDevice \notin Devices
ASSUME HandlesAssumption   == Handles \subseteq Ids \X Keys
ASSUME BoundsAssumption    == MaxRevision \in Nat /\ MaxSeq \in Nat /\ PageLimit \in Nat
ASSUME InitialAssumption   ==
    /\ InitialStatus \in [Devices -> DeviceStatus]
    /\ InitialMembers \in [Rooms -> SUBSET Users]
ASSUME UsersAssumption     == IsFiniteSet(Users)

VARIABLES
    status,   \* e2ee_devices.status, "absent" when there is no row
    members,  \* room_members with deleted_at IS NULL
    epoch,    \* e2ee_room_epochs
    log,      \* e2ee_control_messages of every room
    receipt,  \* e2ee_control_receipts
    nextSeq,  \* the identity sequence behind sequence_no
    sent,     \* accepted application messages of every room, oldest first
    cursor,   \* what a client device passes as after_sequence
    sub,      \* submit_control_message transactions
    mgr,      \* approve_device and revoke_device transactions
    snd,      \* send_encrypted_message requests
    lst       \* list_control_messages transactions

tables == <<status, members, epoch, log, receipt, nextSeq, sent, cursor>>
vars   == <<status, members, epoch, log, receipt, nextSeq, sent, cursor,
            sub, mgr, snd, lst>>

-----------------------------------------------------------------------------
(* Rows *)

EpochRow == [revision : Nat, active : Nat, status : EpochStatus]

ControlRow == [id : Ids, key : Keys, kind : {"commit", "welcome"}, epoch : Nat,
               revision : Nat, sender : Devices, recipient : Devices \cup {NoDevice},
               seq : Nat]

(* A Commit is broadcast, a Welcome is for one device. *)
Control == {m \in ControlRow : (m.kind = "commit") = (m.recipient = NoDevice)}

Application == [key : SendKeys, device : Devices, epoch : Nat, control : Ids]

Idle == [pc |-> "idle"]

SubmitTx == [pc : {"sender_ok", "checked", "locked", "inserted"}, room : Rooms,
             msg : Control, targets : SUBSET Devices]

ManageTx == [pc : {"approve", "revoke"}, device : Devices, target : Devices,
             todo : SUBSET Rooms, held : SUBSET Rooms]

SendTx == [pc : {"member_ok", "device_ok"}, room : Rooms, msg : Application]

ListTx == [pc : {"device_ok"}, room : Rooms, device : Devices, after : Nat, limit : Nat]

(* A device row that is active and whose account is in the room: the join  *)
(* of e2ee_devices and room_members every operation of a room starts from. *)
TrustedIn(d, r) == status[d] = "active" /\ Owner[d] \in members[r]

Commits(r) == {m \in log[r] : m.kind = "commit"}

-----------------------------------------------------------------------------
(* Row locks *)

(* Variant: the epoch row is read without FOR UPDATE. *)
SubmitHoldsLate(s, r) == sub[s].pc = "inserted" /\ sub[s].room = r

(* Holds the e2ee_room_epochs row of r exclusively: SELECT ... FOR UPDATE *)
(* or an UPDATE that has not committed.                                   *)
SubmitHolds(s, r) == sub[s].pc \in {"locked", "inserted"} /\ sub[s].room = r
ManageHolds(m, r) == mgr[m].pc # "idle" /\ r \in mgr[m].held

EpochRowFree(r) ==
    /\ \A s \in Submitters : ~SubmitHolds(s, r)
    /\ \A m \in Managers : ~ManageHolds(m, r)

(* Variant: only the device that changes is locked. *)
LocksTarget(m, d) == mgr[m].pc # "idle" /\ d = mgr[m].target

(* Holds the e2ee_devices row of d FOR UPDATE. *)
LocksDevice(m, d) == mgr[m].pc # "idle" /\ d \in {mgr[m].device, mgr[m].target}

(* Holds the e2ee_devices row of d FOR KEY SHARE, which the foreign keys *)
(* of an inserted control message take.                                  *)
SharesDevice(s, d) == sub[s].pc = "inserted" /\ d \in {sub[s].msg.sender, sub[s].msg.recipient}

(* Variant: receipts and messages have no foreign key to devices. *)
DeviceRowUnreferenced(d) == TRUE

DeviceRowUnlocked(d) == \A m \in Managers : ~LocksDevice(m, d)
DeviceRowFree(d) == DeviceRowUnlocked(d) /\ \A s \in Submitters : ~SharesDevice(s, d)

-----------------------------------------------------------------------------
Init ==
    /\ status = InitialStatus
    /\ members = InitialMembers
    /\ epoch = [r \in Rooms |-> [revision |-> 1, active |-> 0, status |-> "preparing"]]
    /\ log = [r \in Rooms |-> {}]
    /\ receipt = [d \in Devices |-> [i \in Ids |-> "none"]]
    /\ nextSeq = 1
    /\ sent = [r \in Rooms |-> <<>>]
    /\ cursor = [d \in Devices |-> [r \in Rooms |-> 0]]
    /\ sub = [s \in Submitters |-> Idle]
    /\ mgr = [m \in Managers |-> Idle]
    /\ snd = [s \in Senders |-> Idle]
    /\ lst = [l \in Listers |-> Idle]

-----------------------------------------------------------------------------
(* register_device: the first device of an account establishes its root    *)
(* identity and is trusted at once, a later one waits for approval.  The   *)
(* advisory lock on the account makes it one step; a retry changes nothing.*)
RegisterDevice(d) ==
    /\ status[d] = "absent"
    /\ LET first == \A e \in Devices : Owner[e] = Owner[d] => status[e] = "absent"
       IN  status' = [status EXCEPT ![d] = IF first THEN "active" ELSE "pending_approval"]
    /\ UNCHANGED <<members, epoch, log, receipt, nextSeq, sent, cursor, sub, mgr, snd, lst>>

-----------------------------------------------------------------------------
(* Membership.  The trigger on room_members runs in the transaction of the *)
(* change and needs the epoch row, so a change waits for its lock.         *)

BumpRevision(row, n) ==
    [revision |-> row.revision + n, active |-> row.active,
     status |-> IF row.status = "active" THEN "rekey_required" ELSE row.status]

(* upsert_member_conn: a new row, or a deleted one brought back. *)
AddMember(r, u) ==
    /\ u \notin members[r]
    /\ EpochRowFree(r)
    /\ epoch[r].revision < MaxRevision
    /\ members' = [members EXCEPT ![r] = @ \cup {u}]
    /\ epoch' = [epoch EXCEPT ![r] = BumpRevision(@, 1)]
    /\ UNCHANGED <<status, log, receipt, nextSeq, sent, cursor, sub, mgr, snd, lst>>

RemoveMember(r, u) ==
    /\ u \in members[r]
    /\ EpochRowFree(r)
    /\ epoch[r].revision < MaxRevision
    /\ members' = [members EXCEPT ![r] = @ \ {u}]
    /\ epoch' = [epoch EXCEPT ![r] = BumpRevision(@, 1)]
    /\ UNCHANGED <<status, log, receipt, nextSeq, sent, cursor, sub, mgr, snd, lst>>

(* dissolve_room: one UPDATE of all member rows; the trigger runs for each. *)
DissolveRoom(r) ==
    /\ members[r] # {}
    /\ EpochRowFree(r)
    /\ epoch[r].revision + Cardinality(members[r]) <= MaxRevision
    /\ members' = [members EXCEPT ![r] = {}]
    /\ epoch' = [epoch EXCEPT ![r] = BumpRevision(@, Cardinality(members[r]))]
    /\ UNCHANGED <<status, log, receipt, nextSeq, sent, cursor, sub, mgr, snd, lst>>

-----------------------------------------------------------------------------
(* approve_device and revoke_device.  Begin locks the device rows, checks  *)
(* them and takes the snapshot of the UPDATE of the epoch rows; Mark gets  *)
(* those rows one by one, waiting for whoever holds them; Finish commits.  *)

ApproveBegin(m, a, t) ==
    /\ mgr[m].pc = "idle"
    /\ a # t /\ Owner[a] = Owner[t]
    /\ DeviceRowFree(a) /\ DeviceRowFree(t)
    /\ status[a] = "active" /\ status[t] = "pending_approval"
    /\ mgr' = [mgr EXCEPT ![m] =
                  [pc |-> "approve", device |-> a, target |-> t, held |-> {},
                   todo |-> {r \in Rooms : Owner[t] \in members[r] /\ epoch[r].status = "active"}]]
    /\ UNCHANGED <<tables, sub, snd, lst>>

RevokeBegin(m, d) ==
    /\ mgr[m].pc = "idle"
    /\ DeviceRowFree(d)
    /\ status[d] = "active"
    /\ mgr' = [mgr EXCEPT ![m] =
                  [pc |-> "revoke", device |-> d, target |-> d, held |-> {},
                   todo |-> {r \in Rooms : Owner[d] \in members[r]}]]
    /\ UNCHANGED <<tables, sub, snd, lst>>

(* Variant: the rows are picked by status and waited for until they match. *)
MarkRekeyInsists(m, r) ==
    /\ mgr[m].pc # "idle"
    /\ r \in mgr[m].todo
    /\ EpochRowFree(r)
    /\ epoch[r].status = "active"
    /\ mgr' = [mgr EXCEPT ![m].todo = @ \ {r}, ![m].held = @ \cup {r}]
    /\ UNCHANGED <<tables, sub, snd, lst>>

(* The condition of an UPDATE is checked again once the row is obtained:   *)
(* an approval passes over a room that is no longer active.                *)
MarkRekey(m, r) ==
    /\ mgr[m].pc # "idle"
    /\ r \in mgr[m].todo
    /\ EpochRowFree(r)
    /\ mgr' = [mgr EXCEPT ![m].todo = @ \ {r},
                          ![m].held = IF mgr[m].pc = "revoke" \/ epoch[r].status = "active"
                                      THEN @ \cup {r} ELSE @]
    /\ UNCHANGED <<tables, sub, snd, lst>>

ManageFinish(m) ==
    /\ mgr[m].pc # "idle"
    /\ mgr[m].todo = {}
    /\ status' = [status EXCEPT ![mgr[m].target] =
                     IF mgr[m].pc = "approve" THEN "active" ELSE "revoked"]
    /\ epoch' = [r \in Rooms |-> IF r \in mgr[m].held
                                 THEN [epoch[r] EXCEPT !.status = "rekey_required"]
                                 ELSE epoch[r]]
    /\ mgr' = [mgr EXCEPT ![m] = Idle]
    /\ UNCHANGED <<members, log, receipt, nextSeq, sent, cursor, sub, snd, lst>>

-----------------------------------------------------------------------------
(* submit_control_message *)

(* The first statement checks the sender, and takes no lock. *)
SubmitBegin(s, r, msg) ==
    /\ sub[s].pc = "idle"
    /\ nextSeq + Cardinality({t \in Submitters : sub[t].pc # "idle"}) <= MaxSeq
    /\ TrustedIn(msg.sender, r)
    /\ sub' = [sub EXCEPT ![s] =
                  [pc |-> IF msg.kind = "commit" THEN "checked" ELSE "sender_ok",
                   room |-> r, msg |-> msg, targets |-> {}]]
    /\ UNCHANGED <<tables, mgr, snd, lst>>

(* What a client can ask for that may still be accepted: it copies the     *)
(* revision and the epoch from an epoch row it has read and invents no     *)
(* future ones, and a request that is stale already is turned down for     *)
(* good.  A Welcome may arrive before the Commit it belongs to.            *)
SubmitRequests(r) ==
    {[id |-> h[1], key |-> h[2], kind |-> "commit", epoch |-> epoch[r].active + 1,
      revision |-> epoch[r].revision, sender |-> d, recipient |-> NoDevice, seq |-> 0] :
        h \in Handles, d \in Devices}
    \cup
    {[id |-> h[1], key |-> h[2], kind |-> "welcome", epoch |-> e,
      revision |-> epoch[r].revision, sender |-> p[1], recipient |-> p[2], seq |-> 0] :
        h \in Handles, e \in {epoch[r].active, epoch[r].active + 1} \ {0},
        p \in {q \in Devices \X Devices : q[1] # q[2]}}

SubmitCheckRecipient(s) ==
    /\ sub[s].pc = "sender_ok"
    /\ sub' = [sub EXCEPT ![s] = IF TrustedIn(sub[s].msg.recipient, sub[s].room)
                                 THEN [@ EXCEPT !.pc = "checked"] ELSE Idle]
    /\ UNCHANGED <<tables, mgr, snd, lst>>

(* Variant: the idempotency key is not looked up. *)
AlreadyBoundById(r, msg) == \E q \in Rooms : \E x \in log[q] : x.id = msg.id

(* The id is bound anywhere, or the key in this room: a retry returns the  *)
(* row it finds, other content is a conflict, and neither writes.          *)
AlreadyBound(r, msg) ==
    \/ \E q \in Rooms : \E x \in log[q] : x.id = msg.id
    \/ \E x \in log[r] : x.key = msg.key

(* Variant: a stale membership revision is let through. *)
AdmissibleAnyRevision(row, msg) ==
    \/ msg.kind = "commit" /\ msg.epoch = row.active + 1
    \/ msg.kind = "welcome" /\ row.active > 0 /\ msg.epoch = row.active

Admissible(row, msg) ==
    /\ row.revision = msg.revision
    /\ \/ msg.kind = "commit" /\ msg.epoch = row.active + 1
       \/ msg.kind = "welcome" /\ row.active > 0 /\ msg.epoch = row.active

(* SELECT ... FOR UPDATE of the epoch row, then the decision under it. *)
SubmitLock(s) ==
    /\ sub[s].pc = "checked"
    /\ EpochRowFree(sub[s].room)
    /\ LET r == sub[s].room  msg == sub[s].msg
       IN  sub' = [sub EXCEPT ![s] =
                      IF ~AlreadyBound(r, msg) /\ Admissible(epoch[r], msg)
                      THEN [@ EXCEPT !.pc = "locked"] ELSE Idle]
    /\ UNCHANGED <<tables, mgr, snd, lst>>

(* Variant: the receivers take in the NULL recipient of the Commit. *)
CommitReceiversAndNull(r, sender) ==
    {d \in Devices : TrustedIn(d, r) /\ d # sender} \cup {NoDevice}

CommitReceivers(r, sender) == {d \in Devices : TrustedIn(d, r) /\ d # sender}

(* INSERT of the message, which draws its sequence_no and share-locks the  *)
(* device rows it references, then the snapshot of its receivers.          *)
SubmitInsert(s) ==
    /\ sub[s].pc = "locked"
    /\ LET r == sub[s].room  msg == sub[s].msg
       IN  /\ DeviceRowUnlocked(msg.sender)
           /\ msg.recipient # NoDevice => DeviceRowUnlocked(msg.recipient)
           /\ sub' = [sub EXCEPT ![s] =
                         [pc |-> "inserted", room |-> r,
                          msg |-> [msg EXCEPT !.seq = nextSeq],
                          targets |-> IF msg.kind = "commit"
                                      THEN CommitReceivers(r, msg.sender)
                                      ELSE {msg.recipient}]]
    /\ nextSeq' = nextSeq + 1
    /\ UNCHANGED <<status, members, epoch, log, receipt, sent, cursor, mgr, snd, lst>>

(* The foreign keys of the receipts share-lock the receivers; then COMMIT. *)
SubmitFinish(s) ==
    /\ sub[s].pc = "inserted"
    /\ \A d \in sub[s].targets : DeviceRowUnlocked(d)
    /\ LET r == sub[s].room  msg == sub[s].msg
       IN  /\ ~ \E q \in Rooms : \E x \in log[q] : x.id = msg.id
           /\ log' = [log EXCEPT ![r] = @ \cup {msg}]
           /\ epoch' = IF msg.kind = "commit"
                       THEN [epoch EXCEPT ![r].active = msg.epoch, ![r].status = "active"]
                       ELSE epoch
           /\ receipt' = [d \in Devices |->
                             IF d \in sub[s].targets
                             THEN [receipt[d] EXCEPT ![msg.id] = "created"] ELSE receipt[d]]
    /\ sub' = [sub EXCEPT ![s] = Idle]
    /\ UNCHANGED <<status, members, nextSeq, sent, cursor, mgr, snd, lst>>

-----------------------------------------------------------------------------
(* send_encrypted_message in persist mode *)

(* The handler looks up the membership before the transaction starts. *)
SendBegin(s, r, msg) ==
    /\ snd[s].pc = "idle"
    /\ Owner[msg.device] \in members[r]
    /\ snd' = [snd EXCEPT ![s] = [pc |-> "member_ok", room |-> r, msg |-> msg]]
    /\ UNCHANGED <<tables, sub, mgr, lst>>

(* A client encrypts under a Commit it has seen. *)
SendRequests(r) ==
    {[key |-> k, device |-> d, epoch |-> c.epoch, control |-> c.id] :
        k \in SendKeys, d \in Devices, c \in Commits(r)}

SameMessage(x, y) == x.key = y.key /\ Owner[x.device] = Owner[y.device]

HoldsSendKey(s, r, msg) ==
    snd[s].pc = "device_ok" /\ snd[s].room = r /\ SameMessage(snd[s].msg, msg)

(* Advisory lock on room, account and key; a bound key ends the request    *)
(* with the stored message or a conflict; then the unlocked device check.  *)
SendCheckDevice(s) ==
    /\ snd[s].pc = "member_ok"
    /\ LET r == snd[s].room  msg == snd[s].msg
       IN  /\ \A t \in Senders : ~HoldsSendKey(t, r, msg)
           /\ snd' = [snd EXCEPT ![s] =
                         IF /\ ~ \E i \in 1 .. Len(sent[r]) : SameMessage(sent[r][i], msg)
                            /\ status[msg.device] = "active"
                         THEN [@ EXCEPT !.pc = "device_ok"] ELSE Idle]
    /\ UNCHANGED <<tables, sub, mgr, lst>>

(* Variant: the status of the room is not checked. *)
SendableAnyStatus(r, msg) ==
    /\ epoch[r].active = msg.epoch
    /\ \E c \in Commits(r) : c.id = msg.control /\ c.epoch = msg.epoch

Sendable(r, msg) ==
    /\ epoch[r].status = "active"
    /\ epoch[r].active = msg.epoch
    /\ \E c \in Commits(r) : /\ c.id = msg.control /\ c.epoch = msg.epoch
                             /\ c.revision = epoch[r].revision

(* The epoch row FOR SHARE, the rest of the validation, INSERT and COMMIT: *)
(* nothing the decision read can change while the row is share-locked.     *)
SendFinish(s) ==
    /\ snd[s].pc = "device_ok"
    /\ EpochRowFree(snd[s].room)
    /\ LET r == snd[s].room  msg == snd[s].msg
       IN  sent' = IF Sendable(r, msg) THEN [sent EXCEPT ![r] = Append(@, msg)] ELSE sent
    /\ snd' = [snd EXCEPT ![s] = Idle]
    /\ UNCHANGED <<status, members, epoch, log, receipt, nextSeq, cursor, sub, mgr, lst>>

-----------------------------------------------------------------------------
(* list_control_messages and consume_control_message *)

ListBegin(l, r, d, n) ==
    /\ lst[l].pc = "idle"
    /\ TrustedIn(d, r)
    /\ lst' = [lst EXCEPT ![l] = [pc |-> "device_ok", room |-> r, device |-> d,
                                  after |-> cursor[d][r], limit |-> n]]
    /\ UNCHANGED <<tables, sub, mgr, snd>>

Page(r, d, after, n) ==
    LET due == {m \in log[r] : receipt[d][m.id] # "none" /\ m.seq > after}
    IN  {m \in due : Cardinality({x \in due : x.seq < m.seq}) < n}

(* The page is marked delivered; answered says whether the client got the  *)
(* response, and with it moved its cursor to the last message of the page. *)
ListFinish(l, answered) ==
    /\ lst[l].pc # "idle"
    /\ LET r == lst[l].room  d == lst[l].device
           page == Page(r, d, lst[l].after, lst[l].limit)
       IN  /\ receipt' = [receipt EXCEPT ![d] = [i \in Ids |->
                             IF @[i] = "created" /\ \E m \in page : m.id = i
                             THEN "delivered" ELSE @[i]]]
           /\ IF answered /\ page # {}
              THEN \E last \in page : /\ \A m \in page : m.seq <= last.seq
                                      /\ cursor' = [cursor EXCEPT ![d][r] = last.seq]
              ELSE cursor' = cursor
    /\ lst' = [lst EXCEPT ![l] = Idle]
    /\ UNCHANGED <<status, members, epoch, log, nextSeq, sent, sub, mgr, snd>>

ConsumeControlMessage(r, d, msg) ==
    /\ TrustedIn(d, r)
    /\ receipt[d][msg.id] = "delivered"
    /\ receipt' = [receipt EXCEPT ![d][msg.id] = "consumed"]
    /\ UNCHANGED <<status, members, epoch, log, nextSeq, sent, cursor, sub, mgr, snd, lst>>

-----------------------------------------------------------------------------
(* A transaction rolls back: the server process or its connection dies,    *)
(* PostgreSQL makes it the victim of a deadlock, or the primary key finds  *)
(* the id inserted for another room meanwhile.  A drawn sequence_no is not *)
(* given back.                                                             *)
SubmitAbort(s) ==
    /\ sub[s].pc # "idle"
    /\ sub' = [sub EXCEPT ![s] = Idle]
    /\ UNCHANGED <<tables, mgr, snd, lst>>

ManageAbort(m) ==
    /\ mgr[m].pc # "idle"
    /\ mgr' = [mgr EXCEPT ![m] = Idle]
    /\ UNCHANGED <<tables, sub, snd, lst>>

SendAbort(s) ==
    /\ snd[s].pc # "idle"
    /\ snd' = [snd EXCEPT ![s] = Idle]
    /\ UNCHANGED <<tables, sub, mgr, lst>>

-----------------------------------------------------------------------------
Membership ==
    \E r \in Rooms :
        \/ \E u \in Users : AddMember(r, u) \/ RemoveMember(r, u)
        \/ DissolveRoom(r)

Manage ==
    \E m \in Managers :
        \/ \E a, t \in Devices : ApproveBegin(m, a, t)
        \/ \E d \in Devices : RevokeBegin(m, d)
        \/ \E r \in Rooms : MarkRekey(m, r)
        \/ ManageFinish(m)
        \/ ManageAbort(m)

Submit ==
    \E s \in Submitters :
        \/ \E r \in Rooms : \E msg \in SubmitRequests(r) : SubmitBegin(s, r, msg)
        \/ SubmitCheckRecipient(s)
        \/ SubmitLock(s)
        \/ SubmitInsert(s)
        \/ SubmitFinish(s)
        \/ SubmitAbort(s)

Send ==
    \E s \in Senders :
        \/ \E r \in Rooms : \E msg \in SendRequests(r) : SendBegin(s, r, msg)
        \/ SendCheckDevice(s)
        \/ SendFinish(s)
        \/ SendAbort(s)

Deliver ==
    \/ \E l \in Listers :
          \/ \E r \in Rooms, d \in Devices, n \in 1 .. PageLimit : ListBegin(l, r, d, n)
          \/ \E answered \in BOOLEAN : ListFinish(l, answered)
    \/ \E r \in Rooms, d \in Devices : \E msg \in log[r] : ConsumeControlMessage(r, d, msg)

Next ==
    \/ \E d \in Devices : RegisterDevice(d)
    \/ Membership
    \/ Manage
    \/ Submit
    \/ Send
    \/ Deliver

Spec == Init /\ [][Next]_vars

-----------------------------------------------------------------------------
(* Fairness.  A request that can go on does so, and PostgreSQL queues the  *)
(* waiters of a row, so one that is offered a lock again and again gets it *)
(* in the end: strong fairness of the steps of a transaction.  A backend   *)
(* that has waited for deadlock_timeout looks for a circle of waiters that *)
(* it is part of and, finding one, rolls back; the primary key ends a      *)
(* transaction that inserts an id a second time.                           *)

SubmitBlockers(s) ==
    LET r == sub[s].room  msg == sub[s].msg
        waits == CASE sub[s].pc = "locked"   -> {msg.sender, msg.recipient}
                   [] sub[s].pc = "inserted" -> sub[s].targets
                   [] OTHER -> {}
    IN  {m \in Managers : \E d \in waits : LocksDevice(m, d)}
        \cup (IF sub[s].pc = "checked"
              THEN {t \in Submitters : SubmitHolds(t, r)} \cup {m \in Managers : ManageHolds(m, r)}
              ELSE {})

ManageBlockers(m) ==
    IF mgr[m].pc = "idle" \/ \E r \in mgr[m].todo : EpochRowFree(r) THEN {}
    ELSE {s \in Submitters : \E r \in mgr[m].todo : SubmitHolds(s, r)}
         \cup {n \in Managers : \E r \in mgr[m].todo : ManageHolds(n, r)}

WaitSets ==
    {C \in SUBSET (Submitters \cup Managers) :
        /\ C # {}
        /\ \A x \in C : C \cap (IF x \in Submitters THEN SubmitBlockers(x)
                                                   ELSE ManageBlockers(x)) # {}}

Deadlocked(x) ==
    \E C \in WaitSets : x \in C /\ \A D \in WaitSets : D \subseteq C => D = C

DuplicateId(s) ==
    /\ sub[s].pc = "inserted"
    /\ \E q \in Rooms : \E x \in log[q] : x.id = sub[s].msg.id

SubmitStep(s) == SubmitCheckRecipient(s) \/ SubmitLock(s) \/ SubmitInsert(s) \/ SubmitFinish(s)
ManageStep(m) == (\E r \in Rooms : MarkRekey(m, r)) \/ ManageFinish(m)
SendStep(s)   == SendCheckDevice(s) \/ SendFinish(s)

Fairness ==
    /\ \A s \in Submitters : SF_vars(SubmitStep(s))
    /\ \A m \in Managers : SF_vars(ManageStep(m))
    /\ \A s \in Senders : SF_vars(SendStep(s))
    /\ \A s \in Submitters : WF_vars((Deadlocked(s) \/ DuplicateId(s)) /\ SubmitAbort(s))
    /\ \A m \in Managers : WF_vars(Deadlocked(m) /\ ManageAbort(m))

FairSpec == Spec /\ Fairness

-----------------------------------------------------------------------------
(* Properties *)

(* Every row has the shape its table and its transaction give it. *)
TypeOK ==
    /\ status \in [Devices -> DeviceStatus]
    /\ members \in [Rooms -> SUBSET Users]
    /\ epoch \in [Rooms -> EpochRow]
    /\ log \in [Rooms -> SUBSET Control]
    /\ receipt \in [Devices -> [Ids -> Stage]]
    /\ nextSeq \in Nat
    /\ sent \in [Rooms -> Seq(Application)]
    /\ cursor \in [Devices -> [Rooms -> Nat]]
    /\ sub \in [Submitters -> SubmitTx \cup {Idle}]
    /\ mgr \in [Managers -> ManageTx \cup {Idle}]
    /\ snd \in [Senders -> SendTx \cup {Idle}]
    /\ lst \in [Listers -> ListTx \cup {Idle}]

(* The Commits of a room form one chain: the epochs 1 .. active_epoch, each *)
(* from exactly one Commit, in the order of sequence_no, however the        *)
(* submissions of several devices interleave, fail and are retried.         *)
CommitChain ==
    \A r \in Rooms :
        /\ {c.epoch : c \in Commits(r)} = 1 .. epoch[r].active
        /\ \A c, d \in Commits(r) :
              c # d => c.epoch # d.epoch /\ (c.epoch < d.epoch <=> c.seq < d.seq)

(* A room is active only under a Commit made for its present membership:    *)
(* no join, leave or dissolution slips between the Commit that is accepted  *)
(* and the members it was accepted for.                                     *)
ActiveIsCurrent ==
    \A r \in Rooms : epoch[r].status = "active" =>
        \E c \in Commits(r) : c.epoch = epoch[r].active /\ c.revision = epoch[r].revision

(* An id is bound once in all rooms and an idempotency key once per room:   *)
(* retries and concurrent duplicates never queue a message twice.           *)
BoundOnce ==
    \A q, r \in Rooms : \A x \in log[q], y \in log[r] :
        (x.id = y.id \/ (q = r /\ x.key = y.key)) => q = r /\ x = y

(* A device that pages with the last sequence_no it was given never jumps   *)
(* over a message queued for it: sequence numbers are drawn before COMMIT,  *)
(* and a smaller one must not become visible after a larger one.            *)
NoSkippedReceipt ==
    \A d \in Devices, r \in Rooms : \A m \in log[r] :
        m.seq <= cursor[d][r] => receipt[d][m.id] # "created"

(* An application message is accepted only from a device that is trusted in *)
(* the room at that moment, although membership and device status were read *)
(* without a lock, before the wait for the epoch row.                       *)
SendAuthority ==
    [][\A r \in Rooms : sent'[r] # sent[r] =>
          TrustedIn(sent'[r][Len(sent'[r])].device, r)]_vars

(* A control message is queued only from an account that is a member of the *)
(* room at that moment, although membership was read without a lock.        *)
ControlFromMember ==
    [][\A r \in Rooms : \A m \in log'[r] \ log[r] : Owner[m.sender] \in members[r]]_vars

(* A device becomes trusted through an approver that is itself still        *)
(* trusted when the approval takes effect.                                  *)
ApproverTrusted ==
    [][\A m \in Managers :
          /\ mgr[m].pc = "approve"
          /\ status[mgr[m].target] # "active" /\ status'[mgr[m].target] = "active"
          => status'[mgr[m].device] = "active"]_vars

(* Revoking a device leaves no room of its account active, not even one the *)
(* account joins after the revocation has looked up its rooms: a Commit for *)
(* that room needs the locked device row for its receipt.                   *)
RevokeForcesRekey ==
    [][\A d \in Devices, r \in Rooms :
          status[d] = "active" /\ status'[d] = "revoked" /\ Owner[d] \in members[r]
              => epoch'[r].status # "active"]_vars

(* Every submission, approval, revocation and send comes to an end, although *)
(* revocations take device rows before epoch rows and submissions the other *)
(* way round, so that they can wait for each other.                         *)
RequestsEnd ==
    /\ \A s \in Submitters : (sub[s].pc # "idle") ~> (sub[s].pc = "idle")
    /\ \A m \in Managers : (mgr[m].pc # "idle") ~> (mgr[m].pc = "idle")
    /\ \A s \in Senders : (snd[s].pc # "idle") ~> (snd[s].pc = "idle")

-----------------------------------------------------------------------------
(* A transaction decides under the lock of the epoch row, inserts and      *)
(* commits later, and may fail and be repeated; the queues look as though  *)
(* every accepted message were decided and appended in one instant.        *)
Queue == INSTANCE ControlQueue

ImplementsQueue == Queue!Spec
=============================================================================
