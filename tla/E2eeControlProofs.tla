------------------------- MODULE E2eeControlProofs -------------------------
(* Proofs about E2eeControl for any number of accounts, devices, rooms and *)
(* concurrent requests.                                                    *)
EXTENDS E2eeControl, FiniteSetTheorems, TLAPS

(* A set of members has a number of elements, because Users is finite. *)
LEMMA MemberCount ==
    ASSUME TypeOK, NEW r \in Rooms
    PROVE  Cardinality(members[r]) \in Nat
<1>1. members[r] \subseteq Users
  BY DEF TypeOK
<1>2. IsFiniteSet(members[r])
  BY <1>1, UsersAssumption, FS_Subset
<1> QED
  BY <1>2, FS_CardinalityType

(* A row of e2ee_room_epochs stays a row when the trigger bumps it. *)
LEMMA BumpRevisionType ==
    ASSUME NEW row \in EpochRow, NEW n \in Nat
    PROVE  BumpRevision(row, n) \in EpochRow
  BY DEF BumpRevision, EpochRow, EpochStatus

(* The first state has the types of the tables. *)
LEMMA TypeInit == Init => TypeOK
<1> SUFFICES ASSUME Init PROVE TypeOK
  OBVIOUS
<1> USE DEF Init
<1>1. status \in [Devices -> DeviceStatus] /\ members \in [Rooms -> SUBSET Users]
  BY InitialAssumption
<1>2. epoch \in [Rooms -> EpochRow]
  BY DEF EpochRow, EpochStatus
<1>3. sent \in [Rooms -> Seq(Application)] /\ log \in [Rooms -> SUBSET Control]
  OBVIOUS
<1>4. receipt \in [Devices -> [Ids -> Stage]] /\ cursor \in [Devices -> [Rooms -> Nat]]
  BY DEF Stage
<1> QED
  BY <1>1, <1>2, <1>3, <1>4 DEF TypeOK

(* A request a client can make is a control message with any sequence_no. *)
LEMMA SubmitRequestsType ==
    ASSUME TypeOK, NEW r \in Rooms, NEW msg \in SubmitRequests(r)
    PROVE  msg \in Control
<1>1. epoch[r].active \in Nat /\ epoch[r].revision \in Nat
  BY DEF TypeOK, EpochRow
<1>2. \A h \in Handles : h[1] \in Ids /\ h[2] \in Keys
  BY HandlesAssumption
<1> QED
  BY <1>1, <1>2, NoDeviceAssumption DEF SubmitRequests, Control, ControlRow

(* Every step keeps the types. *)
LEMMA TypeNext == TypeOK /\ [Next]_vars => TypeOK'
<1> SUFFICES ASSUME TypeOK, [Next]_vars PROVE TypeOK'
  OBVIOUS
<1>1. ASSUME NEW d \in Devices, RegisterDevice(d) PROVE TypeOK'
  BY <1>1 DEF RegisterDevice, TypeOK, DeviceStatus
<1>2. CASE Membership
  <2>1. ASSUME NEW r \in Rooms, NEW u \in Users, AddMember(r, u) PROVE TypeOK'
    <3>1. BumpRevision(epoch[r], 1) \in EpochRow
      BY BumpRevisionType DEF TypeOK
    <3> QED
      BY <2>1, <3>1 DEF AddMember, TypeOK
  <2>2. ASSUME NEW r \in Rooms, NEW u \in Users, RemoveMember(r, u) PROVE TypeOK'
    <3>1. BumpRevision(epoch[r], 1) \in EpochRow
      BY BumpRevisionType DEF TypeOK
    <3> QED
      BY <2>2, <3>1 DEF RemoveMember, TypeOK
  <2>3. ASSUME NEW r \in Rooms, DissolveRoom(r) PROVE TypeOK'
    <3>1. BumpRevision(epoch[r], Cardinality(members[r])) \in EpochRow
      BY BumpRevisionType, MemberCount DEF TypeOK
    <3> QED
      BY <2>3, <3>1 DEF DissolveRoom, TypeOK
  <2> QED
    BY <1>2, <2>1, <2>2, <2>3 DEF Membership
<1>3. CASE Manage
  <2> USE DEF tables
  <2>1. ASSUME NEW m \in Managers, NEW a \in Devices, NEW t \in Devices, ApproveBegin(m, a, t)
        PROVE  TypeOK'
    <3>1. mgr' \in [Managers -> ManageTx \cup {Idle}]
      BY <2>1 DEF ApproveBegin, TypeOK, ManageTx
    <3> QED
      BY <2>1, <3>1 DEF ApproveBegin, TypeOK
  <2>2. ASSUME NEW m \in Managers, NEW d \in Devices, RevokeBegin(m, d) PROVE TypeOK'
    <3>1. mgr' \in [Managers -> ManageTx \cup {Idle}]
      BY <2>2 DEF RevokeBegin, TypeOK, ManageTx
    <3> QED
      BY <2>2, <3>1 DEF RevokeBegin, TypeOK
  <2>3. ASSUME NEW m \in Managers, NEW r \in Rooms, MarkRekey(m, r) PROVE TypeOK'
    <3>1. mgr[m] \in ManageTx
      BY <2>3 DEF MarkRekey, TypeOK, Idle
    <3>2. mgr' \in [Managers -> ManageTx \cup {Idle}]
      BY <2>3, <3>1 DEF MarkRekey, TypeOK, ManageTx
    <3> QED
      BY <2>3, <3>2 DEF MarkRekey, TypeOK
  <2>4. ASSUME NEW m \in Managers, ManageFinish(m) PROVE TypeOK'
    <3>1. mgr[m] \in ManageTx
      BY <2>4 DEF ManageFinish, TypeOK, Idle
    <3>2. status' \in [Devices -> DeviceStatus]
      BY <2>4, <3>1 DEF ManageFinish, TypeOK, ManageTx, DeviceStatus
    <3>3. epoch' \in [Rooms -> EpochRow]
      BY <2>4 DEF ManageFinish, TypeOK, EpochRow, EpochStatus
    <3> QED
      BY <2>4, <3>2, <3>3 DEF ManageFinish, TypeOK
  <2>5. ASSUME NEW m \in Managers, ManageAbort(m) PROVE TypeOK'
    BY <2>5 DEF ManageAbort, TypeOK
  <2> QED
    BY <1>3, <2>1, <2>2, <2>3, <2>4, <2>5 DEF Manage
<1>4. CASE Submit
  <2> USE DEF tables
  <2>1. ASSUME NEW s \in Submitters, NEW r \in Rooms, NEW msg \in SubmitRequests(r),
               SubmitBegin(s, r, msg)
        PROVE  TypeOK'
    <3>1. msg \in Control
      BY SubmitRequestsType
    <3>2. sub' \in [Submitters -> SubmitTx \cup {Idle}]
      BY <2>1, <3>1 DEF SubmitBegin, TypeOK, SubmitTx
    <3> QED
      BY <2>1, <3>2 DEF SubmitBegin, TypeOK
  <2>2. ASSUME NEW s \in Submitters, SubmitCheckRecipient(s) PROVE TypeOK'
    <3>1. sub[s] \in SubmitTx
      BY <2>2 DEF SubmitCheckRecipient, TypeOK, Idle
    <3>2. sub' \in [Submitters -> SubmitTx \cup {Idle}]
      BY <2>2, <3>1 DEF SubmitCheckRecipient, TypeOK, SubmitTx
    <3> QED
      BY <2>2, <3>2 DEF SubmitCheckRecipient, TypeOK
  <2>3. ASSUME NEW s \in Submitters, SubmitLock(s) PROVE TypeOK'
    <3>1. sub[s] \in SubmitTx
      BY <2>3 DEF SubmitLock, TypeOK, Idle
    <3>2. sub' \in [Submitters -> SubmitTx \cup {Idle}]
      BY <2>3, <3>1 DEF SubmitLock, TypeOK, SubmitTx
    <3> QED
      BY <2>3, <3>2 DEF SubmitLock, TypeOK
  <2>4. ASSUME NEW s \in Submitters, SubmitInsert(s) PROVE TypeOK'
    <3>1. sub[s] \in SubmitTx
      BY <2>4 DEF SubmitInsert, TypeOK, Idle
    <3> DEFINE msg == sub[s].msg
               to == IF msg.kind = "commit" THEN CommitReceivers(sub[s].room, msg.sender)
                                            ELSE {msg.recipient}
    <3>2. msg \in ControlRow /\ (msg.kind = "commit") = (msg.recipient = NoDevice)
      BY <3>1 DEF SubmitTx, Control
    <3>3. [msg EXCEPT !.seq = nextSeq] \in Control
      BY <3>2 DEF TypeOK, Control, ControlRow
    <3>4. to \subseteq Devices
      BY <3>2 DEF CommitReceivers, ControlRow
    <3>5. [pc |-> "inserted", room |-> sub[s].room, msg |-> [msg EXCEPT !.seq = nextSeq],
           targets |-> to] \in SubmitTx
      BY <3>1, <3>3, <3>4 DEF SubmitTx
    <3>6. sub' \in [Submitters -> SubmitTx \cup {Idle}]
      BY <2>4, <3>5 DEF SubmitInsert, TypeOK
    <3> QED
      BY <2>4, <3>6 DEF SubmitInsert, TypeOK
  <2>5. ASSUME NEW s \in Submitters, SubmitFinish(s) PROVE TypeOK'
    <3>1. sub[s] \in SubmitTx
      BY <2>5 DEF SubmitFinish, TypeOK, Idle
    <3> DEFINE r == sub[s].room
    <3>a. r \in Rooms /\ sub[s].msg.epoch \in Nat
      BY <3>1 DEF SubmitTx, Control, ControlRow
    <3>b. [epoch[r] EXCEPT !.active = sub[s].msg.epoch, !.status = "active"] \in EpochRow
      BY <3>a DEF TypeOK, EpochRow, EpochStatus
    <3>2. epoch' \in [Rooms -> EpochRow]
      BY <2>5, <3>a, <3>b DEF SubmitFinish, TypeOK
    <3>3. receipt' \in [Devices -> [Ids -> Stage]]
      BY <2>5, <3>1 DEF SubmitFinish, TypeOK, Stage, SubmitTx, Control, ControlRow
    <3>4. log' \in [Rooms -> SUBSET Control]
      BY <2>5, <3>1 DEF SubmitFinish, TypeOK, SubmitTx
    <3>5. sub' \in [Submitters -> SubmitTx \cup {Idle}]
      BY <2>5 DEF SubmitFinish, TypeOK
    <3> QED
      BY <2>5, <3>2, <3>3, <3>4, <3>5 DEF SubmitFinish, TypeOK
  <2>6. ASSUME NEW s \in Submitters, SubmitAbort(s) PROVE TypeOK'
    BY <2>6 DEF SubmitAbort, TypeOK
  <2> QED
    BY <1>4, <2>1, <2>2, <2>3, <2>4, <2>5, <2>6 DEF Submit
<1>5. CASE Send
  <2> USE DEF tables
  <2>1. ASSUME NEW s \in Senders, NEW r \in Rooms, NEW msg \in SendRequests(r),
               SendBegin(s, r, msg)
        PROVE  TypeOK'
    <3>1. msg \in Application
      BY DEF SendRequests, Commits, Application, TypeOK, Control, ControlRow
    <3>2. snd' \in [Senders -> SendTx \cup {Idle}]
      BY <2>1, <3>1 DEF SendBegin, TypeOK, SendTx
    <3> QED
      BY <2>1, <3>2 DEF SendBegin, TypeOK
  <2>2. ASSUME NEW s \in Senders, SendCheckDevice(s) PROVE TypeOK'
    <3>1. snd[s] \in SendTx
      BY <2>2 DEF SendCheckDevice, TypeOK, Idle
    <3>2. snd' \in [Senders -> SendTx \cup {Idle}]
      BY <2>2, <3>1 DEF SendCheckDevice, TypeOK, SendTx
    <3> QED
      BY <2>2, <3>2 DEF SendCheckDevice, TypeOK
  <2>3. ASSUME NEW s \in Senders, SendFinish(s) PROVE TypeOK'
    <3>1. snd[s] \in SendTx
      BY <2>3 DEF SendFinish, TypeOK, Idle
    <3>2. sent[snd[s].room] \in Seq(Application) /\ snd[s].msg \in Application
      BY <3>1 DEF TypeOK, SendTx
    <3>3. Append(sent[snd[s].room], snd[s].msg) \in Seq(Application)
      BY <3>2
    <3>4. sent' \in [Rooms -> Seq(Application)]
      BY <2>3, <3>3 DEF SendFinish, TypeOK
    <3> QED
      BY <2>3, <3>4 DEF SendFinish, TypeOK
  <2>4. ASSUME NEW s \in Senders, SendAbort(s) PROVE TypeOK'
    BY <2>4 DEF SendAbort, TypeOK
  <2> QED
    BY <1>5, <2>1, <2>2, <2>3, <2>4 DEF Send
<1>6. CASE Deliver
  <2>1. ASSUME NEW l \in Listers, NEW r \in Rooms, NEW d \in Devices, NEW n \in 1 .. PageLimit,
               ListBegin(l, r, d, n)
        PROVE  TypeOK'
    <3>1. lst' \in [Listers -> ListTx \cup {Idle}]
      BY <2>1, BoundsAssumption DEF ListBegin, TypeOK, ListTx
    <3> QED
      BY <2>1, <3>1 DEF ListBegin, TypeOK, tables
  <2>2. ASSUME NEW l \in Listers, NEW answered \in BOOLEAN, ListFinish(l, answered)
        PROVE  TypeOK'
    <3>1. lst[l] \in ListTx
      BY <2>2 DEF ListFinish, TypeOK, Idle
    <3>2. receipt' \in [Devices -> [Ids -> Stage]]
      BY <2>2, <3>1 DEF ListFinish, TypeOK, Stage, ListTx
    <3>3. \A m \in Page(lst[l].room, lst[l].device, lst[l].after, lst[l].limit) : m.seq \in Nat
      BY <3>1 DEF Page, TypeOK, ListTx, Control, ControlRow
    <3> DEFINE d == lst[l].device
               r == lst[l].room
               page == Page(r, d, lst[l].after, lst[l].limit)
    <3>a. d \in Devices /\ r \in Rooms
      BY <3>1 DEF ListTx
    <3>b. \A last \in page : [cursor EXCEPT ![d][r] = last.seq] \in [Devices -> [Rooms -> Nat]]
      BY <3>3, <3>a DEF TypeOK
    <3>c. \/ cursor' = cursor
          \/ \E last \in page : cursor' = [cursor EXCEPT ![d][r] = last.seq]
      BY <2>2 DEF ListFinish
    <3>4. cursor' \in [Devices -> [Rooms -> Nat]]
      BY <3>b, <3>c DEF TypeOK
    <3> QED
      BY <2>2, <3>2, <3>4 DEF ListFinish, TypeOK
  <2>3. ASSUME NEW r \in Rooms, NEW d \in Devices, NEW msg \in log[r],
               ConsumeControlMessage(r, d, msg)
        PROVE  TypeOK'
    <3>1. msg.id \in Ids
      BY DEF TypeOK, Control, ControlRow
    <3> QED
      BY <2>3, <3>1 DEF ConsumeControlMessage, TypeOK, Stage
  <2> QED
    BY <1>6, <2>1, <2>2, <2>3 DEF Deliver
<1>7. CASE UNCHANGED vars
  BY <1>7 DEF vars, TypeOK
<1> QED
  BY <1>1, <1>2, <1>3, <1>4, <1>5, <1>6, <1>7 DEF Next

(* Type correctness: every table and every transaction keeps its shape. *)
THEOREM TypeCorrect == Spec => []TypeOK
  BY TypeInit, TypeNext, PTL DEF Spec

-----------------------------------------------------------------------------
(* The queue.  CommitChain, ActiveIsCurrent and BoundOnce say nothing of    *)
(* the transactions in flight and are not inductive.  What carries them is  *)
(* the epoch row lock: one submission at a time holds a room, and what it   *)
(* decided under the lock stays true until it commits.                      *)

Holding == {"locked", "inserted"}

OneHolder ==
    \A r \in Rooms : \A s, t \in Submitters : SubmitHolds(s, r) /\ SubmitHolds(t, r) => s = t

HeldDecision ==
    \A s \in Submitters : sub[s].pc \in Holding =>
        /\ Admissible(epoch[sub[s].room], sub[s].msg)
        /\ \A x \in log[sub[s].room] : x.key # sub[s].msg.key

SeqOrder ==
    /\ \A r \in Rooms : \A x \in log[r] : x.seq < nextSeq
    /\ \A s \in Submitters : sub[s].pc = "inserted" =>
          /\ sub[s].msg.seq < nextSeq
          /\ \A x \in log[sub[s].room] : x.seq < sub[s].msg.seq

(* A request never runs ahead of the revision, and while its revision is    *)
(* the current one its sender is still a member.                            *)
SenderMember ==
    \A s \in Submitters : sub[s].pc # "idle" =>
        /\ sub[s].msg.revision <= epoch[sub[s].room].revision
        /\ sub[s].msg.revision = epoch[sub[s].room].revision
              => Owner[sub[s].msg.sender] \in members[sub[s].room]

QueueInv ==
    /\ OneHolder
    /\ HeldDecision
    /\ SeqOrder
    /\ SenderMember
    /\ CommitChain
    /\ ActiveIsCurrent
    /\ BoundOnce

(* Holds in the first state: no Commit, no submission, no active room. *)
LEMMA QueueInit == Init => QueueInv
<1> SUFFICES ASSUME Init PROVE QueueInv
  OBVIOUS
<1> USE DEF Init
<1>1. OneHolder /\ HeldDecision /\ SeqOrder /\ SenderMember
  BY DEF OneHolder, HeldDecision, SeqOrder, SenderMember, SubmitHolds, Idle, Holding
<1>2. CommitChain
  BY DEF CommitChain, Commits
<1>3. ActiveIsCurrent /\ BoundOnce
  BY DEF ActiveIsCurrent, BoundOnce
<1> QED
  BY <1>1, <1>2, <1>3 DEF QueueInv

(* The steps that leave the queue alone: transactions may roll back or     *)
(* start, rows may stop being active, and the revision of a room moves     *)
(* only while no submission holds its row.                                 *)
Quiet ==
    /\ log' = log /\ nextSeq' = nextSeq
    /\ \A s \in Submitters : sub'[s] = sub[s] \/ sub'[s].pc \notin Holding
    /\ \A r \in Rooms :
          /\ epoch'[r].active = epoch[r].active
          /\ epoch'[r].status = "active" => epoch'[r] = epoch[r]
          /\ epoch'[r].revision # epoch[r].revision => EpochRowFree(r)

(* A quiet step that keeps the senders' standing keeps the invariant. *)
LEMMA QuietStep ==
    ASSUME TypeOK, TypeOK', QueueInv, Quiet, SenderMember'
    PROVE  QueueInv'
<1> USE DEF Quiet
<1>1. \A s \in Submitters : sub'[s].pc \in Holding => sub'[s] = sub[s] /\ sub[s].room \in Rooms
  BY DEF TypeOK, SubmitTx, Idle, Holding
<1>2. OneHolder'
  BY <1>1 DEF QueueInv, OneHolder, SubmitHolds, Holding
<1>3. HeldDecision'
  <2> SUFFICES ASSUME NEW s \in Submitters, sub'[s].pc \in Holding
               PROVE  /\ Admissible(epoch'[sub[s].room], sub[s].msg)
                      /\ \A x \in log[sub[s].room] : x.key # sub[s].msg.key
    BY <1>1 DEF HeldDecision, Admissible
  <2>1. sub'[s] = sub[s] /\ sub[s].room \in Rooms /\ SubmitHolds(s, sub[s].room)
    BY <1>1 DEF SubmitHolds, Holding
  <2>2. epoch'[sub[s].room].revision = epoch[sub[s].room].revision
    BY <2>1 DEF EpochRowFree
  <2> QED
    BY <2>1, <2>2 DEF QueueInv, HeldDecision, Admissible
<1>4. SeqOrder'
  BY <1>1 DEF QueueInv, SeqOrder, Holding
<1>5. CommitChain'
  BY DEF QueueInv, CommitChain, Commits
<1>6. ActiveIsCurrent'
  BY DEF QueueInv, ActiveIsCurrent, Commits
<1>7. BoundOnce'
  BY DEF QueueInv, BoundOnce
<1> QED
  BY <1>2, <1>3, <1>4, <1>5, <1>6, <1>7 DEF QueueInv

(* No step but the start of a request gives a request a new revision, and   *)
(* a sender leaves a room only with a new revision.                         *)
LEMMA SenderStep ==
    ASSUME TypeOK, TypeOK', SenderMember,
           \A s \in Submitters :
               \/ sub'[s].pc = "idle"
               \/ /\ sub[s].pc # "idle" /\ sub'[s].room = sub[s].room
                  /\ sub'[s].msg.revision = sub[s].msg.revision
                  /\ sub'[s].msg.sender = sub[s].msg.sender,
           \A r \in Rooms :
               \/ epoch'[r].revision > epoch[r].revision
               \/ epoch'[r].revision = epoch[r].revision /\ members'[r] = members[r]
    PROVE  SenderMember'
<1> SUFFICES ASSUME NEW s \in Submitters, sub'[s].pc # "idle"
             PROVE  /\ sub'[s].msg.revision <= epoch'[sub'[s].room].revision
                    /\ sub'[s].msg.revision = epoch'[sub'[s].room].revision
                          => Owner[sub'[s].msg.sender] \in members'[sub'[s].room]
  BY DEF SenderMember
<1>1. /\ sub[s].pc # "idle" /\ sub'[s].room = sub[s].room
      /\ sub'[s].msg.revision = sub[s].msg.revision
      /\ sub'[s].msg.sender = sub[s].msg.sender
  OBVIOUS
<1>2. sub[s] \in SubmitTx
  BY <1>1 DEF TypeOK, Idle
<1>3. sub[s].room \in Rooms /\ sub[s].msg.revision \in Nat
  BY <1>2 DEF SubmitTx, Control, ControlRow
<1>4. epoch[sub[s].room].revision \in Nat /\ epoch'[sub[s].room].revision \in Nat
  BY <1>3 DEF TypeOK, EpochRow
<1>5. /\ sub[s].msg.revision <= epoch[sub[s].room].revision
      /\ sub[s].msg.revision = epoch[sub[s].room].revision
            => Owner[sub[s].msg.sender] \in members[sub[s].room]
  BY <1>1 DEF SenderMember
<1> QED
  BY <1>1, <1>3, <1>4, <1>5

(* The trigger: the revision of one room moves, its row free of locks, and  *)
(* the room does not stay active.                                           *)
LEMMA MembershipStep ==
    ASSUME TypeOK, TypeOK', QueueInv, NEW r \in Rooms, NEW n \in Nat \ {0},
           EpochRowFree(r),
           epoch' = [epoch EXCEPT ![r] = BumpRevision(epoch[r], n)],
           \A q \in Rooms \ {r} : members'[q] = members[q],
           UNCHANGED <<log, nextSeq, sub>>
    PROVE  QueueInv'
<1>1. epoch[r] \in EpochRow /\ epoch[r].revision \in Nat
  BY DEF TypeOK, EpochRow
<1>2. /\ epoch'[r].revision = epoch[r].revision + n
      /\ epoch'[r].active = epoch[r].active /\ epoch'[r].status # "active"
  BY <1>1 DEF TypeOK, BumpRevision
<1>3. \A q \in Rooms \ {r} : epoch'[q] = epoch[q]
  BY DEF TypeOK
<1>4. epoch'[r].revision > epoch[r].revision
  BY <1>1, <1>2
<1>5. Quiet
  BY <1>2, <1>3 DEF Quiet
<1>6. SenderMember'
  <2>1. \A s \in Submitters : sub'[s] = sub[s]
    OBVIOUS
  <2>2. \A q \in Rooms : \/ epoch'[q].revision > epoch[q].revision
                         \/ epoch'[q].revision = epoch[q].revision /\ members'[q] = members[q]
    <3> TAKE q \in Rooms
    <3>1. CASE q = r
      BY <1>4, <3>1
    <3>2. CASE q # r
      BY <1>3, <3>2
    <3> QED
      BY <3>1, <3>2
  <2> QED
    BY <2>1, <2>2, SenderStep DEF QueueInv
<1> QED
  BY <1>5, <1>6, QuietStep

(* A step that leaves epochs, queue and members alone. *)
LEMMA IdleStep ==
    ASSUME TypeOK, TypeOK', QueueInv,
           UNCHANGED <<epoch, log, nextSeq, members>>,
           \A s \in Submitters : sub'[s] = sub[s] \/ sub'[s].pc = "idle"
    PROVE  QueueInv'
<1>1. Quiet
  BY DEF Quiet, Holding
<1>2. SenderMember'
  <2>1. \A r \in Rooms : epoch'[r].revision = epoch[r].revision /\ members'[r] = members[r]
    OBVIOUS
  <2> QED
    BY <2>1, SenderStep DEF QueueInv
<1> QED
  BY <1>1, <1>2, QuietStep

(* A submission takes the row: nobody else holds it. *)
LEMMA SubmitLockStep ==
    ASSUME TypeOK, TypeOK', QueueInv, NEW s \in Submitters, SubmitLock(s)
    PROVE  QueueInv'
<1> DEFINE r == sub[s].room
           msg == sub[s].msg
<1>1. sub[s] \in SubmitTx /\ r \in Rooms
  BY DEF TypeOK, SubmitLock, Idle, SubmitTx
<1>2. UNCHANGED <<epoch, log, nextSeq, members>>
  BY DEF SubmitLock, tables
<1>3. CASE sub' = [sub EXCEPT ![s] = Idle]
  BY <1>2, <1>3, IdleStep DEF Idle, TypeOK
<1>4. CASE /\ sub' = [sub EXCEPT ![s] = [sub[s] EXCEPT !.pc = "locked"]]
           /\ ~AlreadyBound(r, msg) /\ Admissible(epoch[r], msg)
  <2>1. sub'[s] = [sub[s] EXCEPT !.pc = "locked"] /\ \A t \in Submitters \ {s} : sub'[t] = sub[t]
    BY <1>4 DEF TypeOK
  <2>2. sub'[s].pc = "locked" /\ sub'[s].room = r /\ sub'[s].msg = msg
    BY <1>1, <2>1 DEF SubmitTx
  <2>3. OneHolder'
    <3>1. \A t \in Submitters : ~SubmitHolds(t, r)
      BY DEF SubmitLock, EpochRowFree
    <3>2. \A t \in Submitters \ {s} : \A q \in Rooms : SubmitHolds(t, q)' <=> SubmitHolds(t, q)
      BY <2>1 DEF SubmitHolds
    <3>3. \A q \in Rooms : SubmitHolds(s, q)' => q = r
      BY <2>2 DEF SubmitHolds
    <3> QED
      BY <3>1, <3>2, <3>3 DEF QueueInv, OneHolder
  <2>4. HeldDecision'
    BY <1>2, <1>4, <2>1, <2>2 DEF QueueInv, HeldDecision, Admissible, AlreadyBound
  <2>5. SeqOrder'
    BY <1>2, <2>1, <2>2 DEF QueueInv, SeqOrder
  <2>6. SenderMember'
    BY <1>2, <2>1, <2>2 DEF QueueInv, SenderMember, SubmitLock
  <2>7. CommitChain' /\ ActiveIsCurrent' /\ BoundOnce'
    BY <1>2 DEF QueueInv, CommitChain, ActiveIsCurrent, BoundOnce, Commits
  <2> QED
    BY <2>3, <2>4, <2>5, <2>6, <2>7 DEF QueueInv
<1> QED
  BY <1>3, <1>4 DEF SubmitLock

(* A submission draws a fresh sequence number under the row lock. *)
LEMMA SubmitInsertStep ==
    ASSUME TypeOK, TypeOK', QueueInv, NEW s \in Submitters, SubmitInsert(s)
    PROVE  QueueInv'
<1> DEFINE r == sub[s].room
           msg == sub[s].msg
<1>1. sub[s] \in SubmitTx /\ r \in Rooms /\ msg \in ControlRow
  BY DEF TypeOK, SubmitInsert, Idle, SubmitTx, Control
<1>2. UNCHANGED <<epoch, log, members>> /\ nextSeq' = nextSeq + 1 /\ nextSeq \in Nat
  BY DEF SubmitInsert, TypeOK
<1>3. sub'[s].pc = "inserted" /\ sub'[s].room = r /\ sub'[s].msg = [msg EXCEPT !.seq = nextSeq]
  BY DEF SubmitInsert, TypeOK
<1>4. \A t \in Submitters \ {s} : sub'[t] = sub[t]
  BY DEF SubmitInsert, TypeOK
<1>5. /\ sub'[s].msg.seq = nextSeq /\ sub'[s].msg.key = msg.key
      /\ sub'[s].msg.kind = msg.kind /\ sub'[s].msg.epoch = msg.epoch
      /\ sub'[s].msg.revision = msg.revision /\ sub'[s].msg.sender = msg.sender
  BY <1>1, <1>3 DEF ControlRow
<1>6. SubmitHolds(s, r) /\ sub[s].pc \in Holding
  BY DEF SubmitInsert, SubmitHolds, Holding
<1>7. OneHolder'
  <2>1. \A t \in Submitters : \A q \in Rooms : SubmitHolds(t, q)' => SubmitHolds(t, q)
    BY <1>3, <1>4, <1>6 DEF SubmitHolds
  <2> QED
    BY <2>1 DEF QueueInv, OneHolder
<1>8. HeldDecision'
  <2> SUFFICES ASSUME NEW t \in Submitters, sub'[t].pc \in Holding
               PROVE  /\ Admissible(epoch[sub'[t].room], sub'[t].msg)
                      /\ \A x \in log[sub'[t].room] : x.key # sub'[t].msg.key
    BY <1>2 DEF HeldDecision, Admissible
  <2>1. CASE t # s
    BY <1>4, <2>1 DEF QueueInv, HeldDecision
  <2>2. CASE t = s
    <3>1. Admissible(epoch[r], msg) /\ \A x \in log[r] : x.key # msg.key
      BY <1>6 DEF QueueInv, HeldDecision
    <3>2. Admissible(epoch[r], sub'[s].msg)
      BY <3>1, <1>5 DEF Admissible
    <3> QED
      BY <1>3, <1>5, <2>2, <3>1, <3>2
  <2> QED
    BY <2>1, <2>2
<1>9. SeqOrder'
  <2>1. \A q \in Rooms : \A x \in log[q] : x.seq \in Nat /\ x.seq < nextSeq
    BY DEF QueueInv, SeqOrder, TypeOK, Control, ControlRow
  <2>2. \A t \in Submitters : sub[t].pc = "inserted" =>
            sub[t].msg.seq \in Nat /\ sub[t].msg.seq < nextSeq
    BY DEF QueueInv, SeqOrder, TypeOK, SubmitTx, Control, ControlRow, Idle
  <2>3. \A q \in Rooms : \A x \in log'[q] : x.seq < nextSeq'
    BY <1>2, <2>1
  <2>4. ASSUME NEW t \in Submitters, sub'[t].pc = "inserted"
        PROVE  /\ sub'[t].msg.seq < nextSeq'
               /\ \A x \in log'[sub'[t].room] : x.seq < sub'[t].msg.seq
    <3>1. CASE t # s
      BY <1>2, <1>4, <2>2, <2>4, <3>1 DEF QueueInv, SeqOrder
    <3>2. CASE t = s
      <4>1. sub'[s].msg.seq < nextSeq'
        BY <1>2, <1>5
      <4>2. \A x \in log'[r] : x.seq < sub'[s].msg.seq
        BY <1>1, <1>2, <1>5, <2>1
      <4> QED
        BY <1>3, <3>2, <4>1, <4>2
    <3> QED
      BY <3>1, <3>2
  <2> QED
    BY <2>3, <2>4 DEF SeqOrder
<1>10. SenderMember'
  <2>1. sub[s].pc # "idle"
    BY DEF SubmitInsert
  <2>2. \A q \in Rooms : epoch'[q].revision = epoch[q].revision /\ members'[q] = members[q]
    BY <1>2
  <2>3. \A t \in Submitters :
            \/ sub'[t].pc = "idle"
            \/ /\ sub[t].pc # "idle" /\ sub'[t].room = sub[t].room
               /\ sub'[t].msg.revision = sub[t].msg.revision
               /\ sub'[t].msg.sender = sub[t].msg.sender
    BY <1>3, <1>4, <1>5, <2>1
  <2> QED
    BY <2>2, <2>3, SenderStep DEF QueueInv
<1>11. CommitChain' /\ ActiveIsCurrent' /\ BoundOnce'
  BY <1>2 DEF QueueInv, CommitChain, ActiveIsCurrent, BoundOnce, Commits
<1> QED
  BY <1>7, <1>8, <1>9, <1>10, <1>11 DEF QueueInv

(* A submission commits: its Commit is the next link of the chain.          *)
LEMMA SubmitFinishStep ==
    ASSUME TypeOK, TypeOK', QueueInv, NEW s \in Submitters, SubmitFinish(s)
    PROVE  QueueInv'
<1> DEFINE r == sub[s].room
           msg == sub[s].msg
<1>1. /\ sub[s] \in SubmitTx /\ r \in Rooms /\ msg \in ControlRow /\ msg.seq \in Nat
      /\ msg.epoch \in Nat /\ epoch[r].active \in Nat /\ epoch[r].revision \in Nat
  BY DEF TypeOK, SubmitFinish, Idle, SubmitTx, Control, ControlRow, EpochRow
<1>2. /\ UNCHANGED <<members, nextSeq>>
      /\ sub'[s] = Idle /\ \A t \in Submitters \ {s} : sub'[t] = sub[t]
  BY DEF SubmitFinish, TypeOK
<1>3. log'[r] = log[r] \cup {msg} /\ \A q \in Rooms \ {r} : log'[q] = log[q]
  BY <1>1 DEF SubmitFinish, TypeOK
<1>4. /\ \A q \in Rooms \ {r} : epoch'[q] = epoch[q]
      /\ epoch'[r].revision = epoch[r].revision
      /\ msg.kind = "commit" => epoch'[r].active = msg.epoch
      /\ msg.kind # "commit" => epoch'[r] = epoch[r]
  BY <1>1 DEF SubmitFinish, TypeOK, EpochRow
<1>5. SubmitHolds(s, r) /\ sub[s].pc \in Holding /\ sub[s].pc = "inserted"
  BY DEF SubmitFinish, SubmitHolds, Holding
<1>6. Admissible(epoch[r], msg) /\ \A x \in log[r] : x.key # msg.key
  BY <1>5 DEF QueueInv, HeldDecision
<1>7. \A x \in log[r] : x.seq \in Nat /\ x.epoch \in Nat /\ x.seq < msg.seq
  BY <1>1, <1>5 DEF QueueInv, SeqOrder, TypeOK, Control, ControlRow
<1>8. \A t \in Submitters : sub'[t].pc \in Holding =>
          t # s /\ sub'[t] = sub[t] /\ sub[t].room \in Rooms /\ sub[t].room # r
  <2> TAKE t \in Submitters
  <2> HAVE sub'[t].pc \in Holding
  <2>1. t # s /\ sub'[t] = sub[t]
    BY <1>2 DEF Idle, Holding
  <2>2. sub[t].room \in Rooms /\ SubmitHolds(t, sub[t].room)
    BY <2>1 DEF TypeOK, SubmitTx, Idle, Holding, SubmitHolds
  <2> QED
    BY <1>1, <1>5, <2>1, <2>2 DEF QueueInv, OneHolder
<1>9. OneHolder'
  BY <1>8 DEF QueueInv, OneHolder, SubmitHolds, Holding
<1>10. HeldDecision'
  BY <1>3, <1>4, <1>8 DEF QueueInv, HeldDecision, Admissible
<1>11. SeqOrder'
  <2>1. msg.seq < nextSeq
    BY <1>5 DEF QueueInv, SeqOrder
  <2>2. \A q \in Rooms : \A x \in log'[q] : x.seq < nextSeq'
    BY <1>2, <1>3, <2>1 DEF QueueInv, SeqOrder
  <2>3. \A t \in Submitters : sub'[t].pc = "inserted" =>
            /\ sub'[t].msg.seq < nextSeq'
            /\ \A x \in log'[sub'[t].room] : x.seq < sub'[t].msg.seq
    BY <1>2, <1>3, <1>8 DEF QueueInv, SeqOrder, Holding
  <2> QED
    BY <2>2, <2>3 DEF SeqOrder
<1>12. SenderMember'
  <2>1. \A q \in Rooms : epoch'[q].revision = epoch[q].revision /\ members'[q] = members[q]
    BY <1>2, <1>4
  <2>2. \A t \in Submitters : sub'[t].pc = "idle" \/ (sub'[t] = sub[t] /\ sub[t].pc # "idle")
    BY <1>2 DEF Idle
  <2> QED
    BY <2>1, <2>2, SenderStep DEF QueueInv
<1>13. CommitChain'
  <2> SUFFICES ASSUME NEW q \in Rooms
               PROVE  /\ {c.epoch : c \in Commits(q)'} = 1 .. epoch'[q].active
                      /\ \A c, d \in Commits(q)' :
                            c # d => c.epoch # d.epoch /\ (c.epoch < d.epoch <=> c.seq < d.seq)
    BY DEF CommitChain
  <2>1. /\ {c.epoch : c \in Commits(q)} = 1 .. epoch[q].active
        /\ \A c, d \in Commits(q) :
              c # d => c.epoch # d.epoch /\ (c.epoch < d.epoch <=> c.seq < d.seq)
    BY DEF QueueInv, CommitChain
  <2>2. CASE q # r
    <3>1. Commits(q)' = Commits(q) /\ epoch'[q] = epoch[q]
      BY <1>3, <1>4, <2>2 DEF Commits
    <3> QED
      BY <2>1, <3>1
  <2>3. CASE q = r /\ msg.kind # "commit"
    <3>1. Commits(q)' = Commits(q) /\ epoch'[q] = epoch[q]
      BY <1>3, <1>4, <2>3 DEF Commits
    <3> QED
      BY <2>1, <3>1
  <2>4. CASE q = r /\ msg.kind = "commit"
    <3>1. Commits(q)' = Commits(r) \cup {msg}
      BY <1>3, <2>4 DEF Commits
    <3>2. msg.epoch = epoch[r].active + 1 /\ epoch'[r].active = epoch[r].active + 1
      BY <1>4, <1>6, <2>4 DEF Admissible
    <3>3. \A c \in Commits(r) : c.epoch \in 1 .. epoch[r].active
      BY <2>1, <2>4
    <3>4. \A c \in Commits(r) : c.epoch < msg.epoch /\ c.seq < msg.seq /\ c.seq \in Nat
      BY <1>1, <1>7, <3>2, <3>3 DEF Commits
    <3>5. {c.epoch : c \in Commits(r) \cup {msg}} = {c.epoch : c \in Commits(r)} \cup {msg.epoch}
      OBVIOUS
    <3>6. 1 .. epoch[r].active + 1 = (1 .. epoch[r].active) \cup {epoch[r].active + 1}
      BY <1>1
    <3>7. {c.epoch : c \in Commits(q)'} = 1 .. epoch'[q].active
      BY <2>1, <2>4, <3>1, <3>2, <3>5, <3>6
    <3>8. ASSUME NEW c \in Commits(r) \cup {msg}, NEW d \in Commits(r) \cup {msg}, c # d
          PROVE  c.epoch # d.epoch /\ (c.epoch < d.epoch <=> c.seq < d.seq)
      <4>1. CASE c \in Commits(r) /\ d \in Commits(r)
        BY <2>1, <2>4, <3>8, <4>1
      <4>2. CASE c = msg /\ d \in Commits(r)
        BY <1>1, <3>3, <3>4, <4>2
      <4>3. CASE d = msg /\ c \in Commits(r)
        BY <1>1, <3>3, <3>4, <4>3
      <4> QED
        BY <3>8, <4>1, <4>2, <4>3
    <3> QED
      BY <3>1, <3>7, <3>8
  <2> QED
    BY <2>2, <2>3, <2>4
<1>14. ActiveIsCurrent'
  <2> SUFFICES ASSUME NEW q \in Rooms, epoch'[q].status = "active"
               PROVE  \E c \in Commits(q)' : /\ c.epoch = epoch'[q].active
                                             /\ c.revision = epoch'[q].revision
    BY DEF ActiveIsCurrent
  <2>1. CASE q = r /\ msg.kind = "commit"
    <3>1. msg \in Commits(q)'
      BY <1>3, <2>1 DEF Commits
    <3>2. msg.epoch = epoch'[q].active /\ msg.revision = epoch'[q].revision
      BY <1>4, <1>6, <2>1 DEF Admissible
    <3> QED
      BY <3>1, <3>2
  <2>2. CASE q # r \/ msg.kind # "commit"
    <3>1. epoch'[q] = epoch[q] /\ Commits(q) \subseteq Commits(q)'
      BY <1>3, <1>4, <2>2 DEF Commits
    <3> QED
      BY <3>1 DEF QueueInv, ActiveIsCurrent
  <2> QED
    BY <2>1, <2>2
<1>15. BoundOnce'
  <2>1. \A q \in Rooms : \A x \in log[q] : x.id # msg.id
    BY DEF SubmitFinish
  <2>2. ASSUME NEW p \in Rooms, NEW q \in Rooms, NEW x \in log'[p], NEW y \in log'[q],
               x.id = y.id \/ (p = q /\ x.key = y.key)
        PROVE  p = q /\ x = y
    <3>1. CASE x \in log[p] /\ y \in log[q]
      BY <2>2, <3>1 DEF QueueInv, BoundOnce
    <3>2. CASE p = r /\ x = msg
      BY <1>3, <1>6, <2>1, <2>2, <3>2
    <3>3. CASE q = r /\ y = msg
      BY <1>3, <1>6, <2>1, <2>2, <3>3
    <3> QED
      BY <1>3, <3>1, <3>2, <3>3
  <2> QED
    BY <2>2 DEF BoundOnce
<1> QED
  BY <1>9, <1>10, <1>11, <1>12, <1>13, <1>14, <1>15 DEF QueueInv

(* Every step keeps the queue in order. *)
LEMMA QueueNext == TypeOK /\ TypeOK' /\ QueueInv /\ [Next]_vars => QueueInv'
<1> SUFFICES ASSUME TypeOK, TypeOK', QueueInv, [Next]_vars PROVE QueueInv'
  OBVIOUS
<1>1. ASSUME NEW d \in Devices, RegisterDevice(d) PROVE QueueInv'
  BY <1>1, IdleStep DEF RegisterDevice
<1>2. CASE Membership
  <2>1. ASSUME NEW r \in Rooms, NEW u \in Users, AddMember(r, u) PROVE QueueInv'
    <3>1. \A q \in Rooms \ {r} : members'[q] = members[q]
      BY <2>1 DEF AddMember, TypeOK
    <3>2. /\ EpochRowFree(r) /\ epoch' = [epoch EXCEPT ![r] = BumpRevision(epoch[r], 1)]
          /\ UNCHANGED <<log, nextSeq, sub>> /\ 1 \in Nat \ {0}
      BY <2>1 DEF AddMember
    <3> QED
      BY <3>1, <3>2, MembershipStep
  <2>2. ASSUME NEW r \in Rooms, NEW u \in Users, RemoveMember(r, u) PROVE QueueInv'
    <3>1. \A q \in Rooms \ {r} : members'[q] = members[q]
      BY <2>2 DEF RemoveMember, TypeOK
    <3>2. /\ EpochRowFree(r) /\ epoch' = [epoch EXCEPT ![r] = BumpRevision(epoch[r], 1)]
          /\ UNCHANGED <<log, nextSeq, sub>> /\ 1 \in Nat \ {0}
      BY <2>2 DEF RemoveMember
    <3> QED
      BY <3>1, <3>2, MembershipStep
  <2>3. ASSUME NEW r \in Rooms, DissolveRoom(r) PROVE QueueInv'
    <3>1. \A q \in Rooms \ {r} : members'[q] = members[q]
      BY <2>3 DEF DissolveRoom, TypeOK
    <3>2. IsFiniteSet(members[r]) /\ members[r] # {}
      BY <2>3, UsersAssumption, FS_Subset DEF TypeOK, DissolveRoom
    <3>3. Cardinality(members[r]) \in Nat \ {0}
      BY <3>2, FS_EmptySet, FS_CardinalityType
    <3> QED
      BY <2>3, <3>1, <3>3, MembershipStep DEF DissolveRoom
  <2> QED
    BY <1>2, <2>1, <2>2, <2>3 DEF Membership
<1>3. CASE Manage
  <2>1. ASSUME NEW m \in Managers, ManageFinish(m) PROVE QueueInv'
    <3>1. \A r \in Rooms : /\ epoch'[r].active = epoch[r].active
                           /\ epoch'[r].revision = epoch[r].revision
                           /\ epoch'[r].status = "active" => epoch'[r] = epoch[r]
      BY <2>1 DEF ManageFinish, TypeOK, EpochRow
    <3>2. Quiet
      BY <2>1, <3>1 DEF Quiet, ManageFinish
    <3>3. \A s \in Submitters : sub'[s] = sub[s]
      BY <2>1 DEF ManageFinish
    <3>4. \A r \in Rooms : members'[r] = members[r]
      BY <2>1 DEF ManageFinish
    <3>5. SenderMember'
      BY <3>1, <3>3, <3>4, SenderStep DEF QueueInv
    <3> QED
      BY <3>2, <3>5, QuietStep
  <2>2. ASSUME NEW m \in Managers,
               \/ \E a, t \in Devices : ApproveBegin(m, a, t)
               \/ \E d \in Devices : RevokeBegin(m, d)
               \/ \E r \in Rooms : MarkRekey(m, r)
               \/ ManageAbort(m)
        PROVE  QueueInv'
    <3>1. UNCHANGED <<epoch, log, nextSeq, members, sub>>
      BY <2>2 DEF ApproveBegin, RevokeBegin, MarkRekey, ManageAbort, tables
    <3> QED
      BY <3>1, IdleStep
  <2> QED
    BY <1>3, <2>1, <2>2 DEF Manage
<1>4. CASE Submit
  <2>1. ASSUME NEW s \in Submitters, NEW r \in Rooms, NEW msg \in SubmitRequests(r),
               SubmitBegin(s, r, msg)
        PROVE  QueueInv'
    <3>1. UNCHANGED <<epoch, log, nextSeq, members>>
      BY <2>1 DEF SubmitBegin, tables
    <3>2. /\ sub'[s].pc \notin Holding /\ sub'[s].room = r /\ sub'[s].msg = msg
          /\ \A t \in Submitters \ {s} : sub'[t] = sub[t]
      BY <2>1 DEF SubmitBegin, TypeOK, Holding
    <3>3. msg.revision = epoch[r].revision /\ msg.revision \in Nat
      BY DEF SubmitRequests, TypeOK, EpochRow
    <3>4. Owner[msg.sender] \in members[r]
      BY <2>1 DEF SubmitBegin, TrustedIn
    <3>5. Quiet
      BY <3>1, <3>2 DEF Quiet
    <3>6. SenderMember'
      <4> SUFFICES ASSUME NEW t \in Submitters, sub'[t].pc # "idle"
                   PROVE  /\ sub'[t].msg.revision <= epoch[sub'[t].room].revision
                          /\ sub'[t].msg.revision = epoch[sub'[t].room].revision
                                => Owner[sub'[t].msg.sender] \in members[sub'[t].room]
        BY <3>1 DEF SenderMember
      <4>1. CASE t # s
        BY <3>2, <4>1 DEF QueueInv, SenderMember
      <4>2. CASE t = s
        BY <3>2, <3>3, <3>4, <4>2
      <4> QED
        BY <4>1, <4>2
    <3> QED
      BY <3>5, <3>6, QuietStep
  <2>2. ASSUME NEW s \in Submitters, SubmitCheckRecipient(s) PROVE QueueInv'
    <3>1. UNCHANGED <<epoch, log, nextSeq, members>>
      BY <2>2 DEF SubmitCheckRecipient, tables
    <3>2. CASE sub' = [sub EXCEPT ![s] = Idle]
      BY <3>1, <3>2, IdleStep DEF TypeOK, Idle
    <3>3. CASE sub' = [sub EXCEPT ![s] = [sub[s] EXCEPT !.pc = "checked"]]
      <4>1. sub[s] \in SubmitTx
        BY <2>2 DEF SubmitCheckRecipient, TypeOK, Idle
      <4>2. /\ sub'[s].pc = "checked" /\ sub'[s].room = sub[s].room
            /\ sub'[s].msg = sub[s].msg /\ sub[s].pc # "idle"
            /\ \A t \in Submitters \ {s} : sub'[t] = sub[t]
        BY <3>3, <4>1 DEF TypeOK, SubmitTx
      <4>3. Quiet
        BY <3>1, <4>2 DEF Quiet, Holding
      <4>4. SenderMember'
        BY <3>1, <4>2 DEF QueueInv, SenderMember
      <4> QED
        BY <4>3, <4>4, QuietStep
    <3> QED
      BY <2>2, <3>2, <3>3 DEF SubmitCheckRecipient
  <2>3. ASSUME NEW s \in Submitters, SubmitAbort(s) PROVE QueueInv'
    BY <2>3, IdleStep DEF SubmitAbort, tables, TypeOK, Idle
  <2> QED
    BY <1>4, <2>1, <2>2, <2>3, SubmitLockStep, SubmitInsertStep, SubmitFinishStep DEF Submit
<1>5. CASE Send
  <2>1. UNCHANGED <<epoch, log, nextSeq, members, sub>>
    BY <1>5 DEF Send, SendBegin, SendCheckDevice, SendFinish, SendAbort, tables
  <2> QED
    BY <2>1, IdleStep
<1>6. CASE Deliver
  <2>1. UNCHANGED <<epoch, log, nextSeq, members, sub>>
    BY <1>6 DEF Deliver, ListBegin, ListFinish, ConsumeControlMessage, tables
  <2> QED
    BY <2>1, IdleStep
<1>7. CASE UNCHANGED vars
  BY <1>7, IdleStep DEF vars
<1> QED
  BY <1>1, <1>2, <1>3, <1>4, <1>5, <1>6, <1>7 DEF Next

(* The invariant that carries the theorems below. *)
THEOREM QueueInvariant == Spec => [](TypeOK /\ QueueInv)
<1>1. Init => TypeOK /\ QueueInv
  BY TypeInit, QueueInit
<1>2. TypeOK /\ QueueInv /\ [Next]_vars => TypeOK' /\ QueueInv'
  BY TypeNext, QueueNext
<1> QED
  BY <1>1, <1>2, PTL DEF Spec

(* Whatever devices submit concurrently, retry or lose, the Commits of a   *)
(* room are one chain of epochs in the order of their sequence numbers.    *)
THEOREM CommitsFormChain == Spec => []CommitChain
<1>1. TypeOK /\ QueueInv => CommitChain
  BY DEF QueueInv
<1> QED
  BY <1>1, QueueInvariant, PTL

(* A room is active only under a Commit made for its present membership. *)
THEOREM ActiveRoomsCurrent == Spec => []ActiveIsCurrent
<1>1. TypeOK /\ QueueInv => ActiveIsCurrent
  BY DEF QueueInv
<1> QED
  BY <1>1, QueueInvariant, PTL

(* Ids and idempotency keys of control messages are bound once. *)
THEOREM ControlsBoundOnce == Spec => []BoundOnce
<1>1. TypeOK /\ QueueInv => BoundOnce
  BY DEF QueueInv
<1> QED
  BY <1>1, QueueInvariant, PTL

(* Only the commit of a submission moves the queues. *)
LEMMA LogMoves ==
    ASSUME [Next]_vars, ~ \E s \in Submitters : SubmitFinish(s)
    PROVE  log' = log
<1>1. CASE Membership \/ \E d \in Devices : RegisterDevice(d)
  BY <1>1 DEF Membership, AddMember, RemoveMember, DissolveRoom, RegisterDevice
<1>2. CASE Manage
  BY <1>2 DEF Manage, ApproveBegin, RevokeBegin, MarkRekey, ManageFinish, ManageAbort, tables
<1>3. CASE Submit
  BY <1>3 DEF Submit, SubmitBegin, SubmitCheckRecipient, SubmitLock, SubmitInsert, SubmitAbort,
              tables
<1>4. CASE Send \/ Deliver
  BY <1>4 DEF Send, SendBegin, SendCheckDevice, SendFinish, SendAbort, Deliver, ListBegin,
              ListFinish, ConsumeControlMessage, tables
<1> QED
  BY <1>1, <1>2, <1>3, <1>4 DEF Next, vars

(* A control message is queued only from an account that is a member then. *)
THEOREM ControlsFromMembers == Spec => ControlFromMember
<1> DEFINE Step == \A r \in Rooms : \A m \in log'[r] \ log[r] : Owner[m.sender] \in members[r]
<1>1. TypeOK /\ QueueInv /\ [Next]_vars => [Step]_vars
  <2> SUFFICES ASSUME TypeOK, QueueInv, Next PROVE log' = log \/ Step
    BY DEF vars
  <2>1. ASSUME NEW s \in Submitters, SubmitFinish(s) PROVE Step
    <3> DEFINE r == sub[s].room
               msg == sub[s].msg
    <3>1. r \in Rooms /\ log' = [log EXCEPT ![r] = log[r] \cup {msg}] /\ sub[s].pc = "inserted"
      BY <2>1 DEF SubmitFinish, TypeOK, SubmitTx, Idle
    <3>2. msg.revision = epoch[r].revision
      BY <3>1 DEF QueueInv, HeldDecision, Holding, Admissible
    <3>3. Owner[msg.sender] \in members[r]
      BY <3>1, <3>2 DEF QueueInv, SenderMember
    <3> QED
      BY <3>1, <3>3 DEF TypeOK
  <2>2. CASE ~ \E s \in Submitters : SubmitFinish(s)
    BY <2>2, LogMoves
  <2> QED
    BY <2>1, <2>2
<1> QED
  BY <1>1, QueueInvariant, PTL DEF Spec, ControlFromMember

-----------------------------------------------------------------------------
(* Receipts.  NoSkippedReceipt speaks of the cursor a client has now; the   *)
(* page it is being given was asked for with the cursor it had then.  What  *)
(* carries both is that a position in a room, once every message up to it   *)
(* is delivered, keeps that: whoever holds the epoch row inserts beyond it. *)

Passed(d, r, k) ==
    /\ k < nextSeq
    /\ \A s \in Submitters : sub[s].pc = "inserted" /\ sub[s].room = r => k < sub[s].msg.seq
    /\ \A m \in log[r] : m.seq <= k => receipt[d][m.id] # "created"

ReceiptInv ==
    /\ \A r \in Rooms : IsFiniteSet(log[r])
    /\ \A d \in Devices, r \in Rooms : Passed(d, r, cursor[d][r])
    /\ \A l \in Listers : lst[l].pc # "idle" => Passed(lst[l].device, lst[l].room, lst[l].after)

(* Holds in the first state: nothing is queued, and every cursor is 0. *)
LEMMA ReceiptInit == Init => ReceiptInv
<1> SUFFICES ASSUME Init PROVE ReceiptInv
  OBVIOUS
<1>1. \A r \in Rooms : IsFiniteSet(log[r])
  BY FS_EmptySet DEF Init
<1> QED
  BY <1>1 DEF Init, ReceiptInv, Passed, Idle

(* The steps that insert nothing and create no receipt. *)
LEMMA PassedQuiet ==
    ASSUME NEW d \in Devices, NEW r \in Rooms, NEW k, Passed(d, r, k),
           log' = log, nextSeq' = nextSeq,
           \A s \in Submitters : sub'[s] = sub[s] \/ sub'[s].pc # "inserted",
           \A m \in log[r] : receipt'[d][m.id] = "created" => receipt[d][m.id] = "created"
    PROVE  Passed(d, r, k)'
  BY DEF Passed

(* An insertion draws a number beyond every position. *)
LEMMA PassedInsert ==
    ASSUME TypeOK, NEW d \in Devices, NEW r \in Rooms, NEW k \in Nat, Passed(d, r, k),
           NEW s \in Submitters, SubmitInsert(s)
    PROVE  Passed(d, r, k)'
<1>1. sub[s] \in SubmitTx
  BY DEF SubmitInsert, TypeOK, Idle
<1>2. sub[s].msg \in ControlRow
  BY <1>1 DEF SubmitTx, Control
<1>3. [sub[s].msg EXCEPT !.seq = nextSeq].seq = nextSeq
  BY <1>2 DEF ControlRow
<1>4. sub'[s].msg.seq = nextSeq /\ \A t \in Submitters \ {s} : sub'[t] = sub[t]
  BY <1>3 DEF SubmitInsert, TypeOK
<1>5. nextSeq' = nextSeq + 1 /\ nextSeq \in Nat /\ UNCHANGED <<log, receipt>>
  BY DEF SubmitInsert, TypeOK
<1> QED
  BY <1>4, <1>5 DEF Passed

(* A commit puts a message beyond every position of its room, under an id   *)
(* no message has.                                                          *)
LEMMA PassedFinish ==
    ASSUME TypeOK, NEW d \in Devices, NEW r \in Rooms, NEW k \in Nat, Passed(d, r, k),
           NEW s \in Submitters, SubmitFinish(s)
    PROVE  Passed(d, r, k)'
<1> DEFINE q == sub[s].room
           msg == sub[s].msg
<1>1. sub[s].pc = "inserted" /\ q \in Rooms /\ msg \in ControlRow
  BY DEF SubmitFinish, TypeOK, SubmitTx, Idle, Control
<1>2. log' = [log EXCEPT ![q] = log[q] \cup {msg}] /\ nextSeq' = nextSeq
  BY DEF SubmitFinish
<1>3. \A t \in Submitters : sub'[t] = sub[t] \/ sub'[t].pc = "idle"
  BY DEF SubmitFinish, TypeOK, Idle
<1>4. \A m \in log[r] : m.id # msg.id /\ m.id \in Ids /\ m.seq \in Nat
  BY DEF SubmitFinish, TypeOK, Control, ControlRow
<1>5. \A i \in Ids \ {msg.id} : receipt'[d][i] = receipt[d][i]
  BY <1>1 DEF SubmitFinish, TypeOK
<1>6. ASSUME NEW m \in log'[r], m.seq <= k PROVE receipt'[d][m.id] # "created"
  <2>1. CASE m \in log[r]
    BY <1>4, <1>5, <1>6, <2>1 DEF Passed
  <2>2. CASE m = msg /\ q = r
    <3>1. k < msg.seq /\ msg.seq \in Nat
      BY <1>1, <2>2 DEF Passed, ControlRow
    <3> QED
      BY <1>6, <2>2, <3>1
  <2> QED
    BY <1>2, <2>1, <2>2 DEF TypeOK
<1> QED
  BY <1>2, <1>3, <1>6 DEF Passed

(* The steps of a submission before its insertion, and its rollback. *)
LEMMA SubmitRests ==
    ASSUME TypeOK, NEW s \in Submitters,
           \/ \E q \in Rooms : \E msg \in SubmitRequests(q) : SubmitBegin(s, q, msg)
           \/ SubmitCheckRecipient(s) \/ SubmitLock(s) \/ SubmitAbort(s)
    PROVE  /\ UNCHANGED <<tables, mgr, snd, lst>>
           /\ \A t \in Submitters : sub'[t] = sub[t] \/ sub'[t].pc # "inserted"
<1>1. CASE \E q \in Rooms : \E msg \in SubmitRequests(q) : SubmitBegin(s, q, msg)
  BY <1>1 DEF SubmitBegin, TypeOK
<1>2. CASE SubmitCheckRecipient(s) \/ SubmitLock(s) \/ SubmitAbort(s)
  <2>1. sub[s] \in SubmitTx
    BY <1>2 DEF SubmitCheckRecipient, SubmitLock, SubmitAbort, TypeOK, Idle
  <2> QED
    BY <1>2, <2>1 DEF SubmitCheckRecipient, SubmitLock, SubmitAbort, TypeOK, SubmitTx, Idle
<1> QED
  BY <1>1, <1>2

(* Every step leaves behind what was behind. *)
LEMMA PassedStep ==
    ASSUME TypeOK, [Next]_vars, NEW d \in Devices, NEW r \in Rooms, NEW k \in Nat,
           Passed(d, r, k)
    PROVE  Passed(d, r, k)'
<1>1. CASE Submit
  <2>1. ASSUME NEW s \in Submitters,
               \/ \E q \in Rooms : \E msg \in SubmitRequests(q) : SubmitBegin(s, q, msg)
               \/ SubmitCheckRecipient(s) \/ SubmitLock(s) \/ SubmitAbort(s)
        PROVE  Passed(d, r, k)'
    <3>1. UNCHANGED <<log, nextSeq, receipt>>
      BY <2>1, SubmitRests DEF tables
    <3>2. \A t \in Submitters : sub'[t] = sub[t] \/ sub'[t].pc # "inserted"
      BY <2>1, SubmitRests
    <3> QED
      BY <3>1, <3>2, PassedQuiet
  <2> QED
    BY <1>1, <2>1, PassedInsert, PassedFinish DEF Submit
<1>2. CASE Deliver
  <2>1. UNCHANGED <<log, nextSeq, sub>>
    BY <1>2 DEF Deliver, ListBegin, ListFinish, ConsumeControlMessage, tables
  <2>2. \A i \in Ids : receipt'[d][i] = "created" => receipt[d][i] = "created"
    <3>1. ASSUME NEW l \in Listers, NEW answered \in BOOLEAN, ListFinish(l, answered)
          PROVE  \A i \in Ids : receipt'[d][i] = "created" => receipt[d][i] = "created"
      BY <3>1 DEF ListFinish, TypeOK
    <3>2. ASSUME NEW q \in Rooms, NEW e \in Devices, NEW msg \in log[q],
                 ConsumeControlMessage(q, e, msg)
          PROVE  \A i \in Ids : receipt'[d][i] = "created" => receipt[d][i] = "created"
      BY <3>2 DEF ConsumeControlMessage, TypeOK
    <3>3. CASE receipt' = receipt
      BY <3>3
    <3> QED
      BY <1>2, <3>1, <3>2, <3>3 DEF Deliver, ListBegin, tables
  <2>3. \A m \in log[r] : m.id \in Ids
    BY DEF TypeOK, Control, ControlRow
  <2> QED
    BY <2>1, <2>2, <2>3, PassedQuiet
<1>3. CASE ~ (Submit \/ Deliver)
  <2>1. UNCHANGED <<log, nextSeq, sub, receipt>>
    <3>1. CASE \E e \in Devices : RegisterDevice(e)
      BY <3>1 DEF RegisterDevice
    <3>2. CASE Membership
      BY <3>2 DEF Membership, AddMember, RemoveMember, DissolveRoom
    <3>3. CASE Manage
      BY <3>3 DEF Manage, ApproveBegin, RevokeBegin, MarkRekey, ManageFinish, ManageAbort, tables
    <3>4. CASE Send
      BY <3>4 DEF Send, SendBegin, SendCheckDevice, SendFinish, SendAbort, tables
    <3>5. CASE UNCHANGED vars
      BY <3>5 DEF vars
    <3> QED
      BY <1>3, <3>1, <3>2, <3>3, <3>4, <3>5 DEF Next
  <2> QED
    BY <2>1, PassedQuiet
<1> QED
  BY <1>1, <1>2, <1>3

(* A page holds every message that is due up to its last one. *)
LEMMA PageComplete ==
    ASSUME TypeOK, NEW d \in Devices, NEW r \in Rooms, IsFiniteSet(log[r]),
           NEW after \in Nat, NEW n \in Nat,
           NEW last \in Page(r, d, after, n), NEW m \in log[r],
           receipt[d][m.id] # "none", after < m.seq, m.seq <= last.seq
    PROVE  m \in Page(r, d, after, n)
<1> DEFINE due == {x \in log[r] : receipt[d][x.id] # "none" /\ x.seq > after}
           Before(y) == {x \in due : x.seq < y.seq}
<1>1. \A x \in log[r] : x.seq \in Nat
  BY DEF TypeOK, Control, ControlRow
<1>2. m \in due /\ last \in due /\ Cardinality(Before(last)) < n
  BY <1>1 DEF Page
<1>3. Before(m) \subseteq Before(last)
  BY <1>1, <1>2
<1>4. IsFiniteSet(Before(last)) /\ IsFiniteSet(Before(m))
  <2>1. Before(last) \subseteq log[r] /\ Before(m) \subseteq log[r]
    OBVIOUS
  <2> HIDE DEF Before
  <2> QED
    BY <2>1, FS_Subset
<1>5. Cardinality(Before(m)) <= Cardinality(Before(last))
  <2> HIDE DEF Before
  <2> QED
    BY <1>3, <1>4, FS_Subset
<1>6. Cardinality(Before(m)) \in Nat /\ Cardinality(Before(last)) \in Nat
  <2> HIDE DEF Before
  <2> QED
    BY <1>4, FS_CardinalityType
<1>7. Cardinality(Before(m)) < n
  <2> HIDE DEF Before
  <2> QED
    BY <1>2, <1>5, <1>6
<1> QED
  BY <1>2, <1>7 DEF Page

(* The client that got a page has everything up to its new cursor. *)
LEMMA PageMovesCursor ==
    ASSUME TypeOK, QueueInv, ReceiptInv, NEW l \in Listers, NEW answered \in BOOLEAN,
           ListFinish(l, answered), cursor' # cursor,
           NEW d, NEW r, d = lst[l].device, r = lst[l].room
    PROVE  \E k \in Nat : cursor' = [cursor EXCEPT ![d][r] = k] /\ Passed(d, r, k)'
<1> DEFINE page == Page(r, d, lst[l].after, lst[l].limit)
<1>1. /\ lst[l].pc # "idle" /\ lst[l].after \in Nat /\ lst[l].limit \in Nat
      /\ r \in Rooms /\ d \in Devices
  BY DEF ListFinish, TypeOK, ListTx, Idle
<1>2. PICK last \in page : cursor' = [cursor EXCEPT ![d][r] = last.seq]
  BY DEF ListFinish
<1>3. last \in log[r] /\ \A m \in log[r] : m.seq \in Nat /\ m.id \in Ids
  BY <1>1 DEF Page, TypeOK, Control, ControlRow
<1>4. UNCHANGED <<log, nextSeq, sub>>
  BY DEF ListFinish
<1>5. last.seq < nextSeq
  BY <1>1, <1>3 DEF QueueInv, SeqOrder
<1>6. \A s \in Submitters : sub[s].pc = "inserted" /\ sub[s].room = r => last.seq < sub[s].msg.seq
  BY <1>3 DEF QueueInv, SeqOrder
<1>7. ASSUME NEW m \in log[r], m.seq <= last.seq PROVE receipt'[d][m.id] # "created"
  <2>0. receipt' = [receipt EXCEPT ![d] = [i \in Ids |->
                       IF receipt[d][i] = "created" /\ \E x \in page : x.id = i
                       THEN "delivered" ELSE receipt[d][i]]]
    BY DEF ListFinish
  <2>1. receipt'[d][m.id] = IF receipt[d][m.id] = "created" /\ \E x \in page : x.id = m.id
                            THEN "delivered" ELSE receipt[d][m.id]
    BY <1>1, <1>3, <2>0 DEF TypeOK
  <2>2. CASE receipt[d][m.id] # "created"
    BY <2>1, <2>2
  <2>3. CASE receipt[d][m.id] = "created"
    <3>1. ~ (m.seq <= lst[l].after)
      BY <1>1, <2>3 DEF ReceiptInv, Passed
    <3>2. IsFiniteSet(log[r])
      BY <1>1 DEF ReceiptInv
    <3>3. m \in page
      BY <1>1, <1>2, <1>3, <1>7, <2>3, <3>1, <3>2, PageComplete
    <3> QED
      BY <2>1, <3>3
  <2> QED
    BY <2>2, <2>3
<1>8. Passed(d, r, last.seq)'
  BY <1>4, <1>5, <1>6, <1>7 DEF Passed
<1> QED
  BY <1>2, <1>3, <1>8

(* Only the answer to a page moves a cursor. *)
LEMMA CursorMoves ==
    ASSUME [Next]_vars, cursor' # cursor
    PROVE  \E l \in Listers, answered \in BOOLEAN : ListFinish(l, answered)
<1>1. ~ (Membership \/ \E d \in Devices : RegisterDevice(d))
  BY DEF Membership, AddMember, RemoveMember, DissolveRoom, RegisterDevice
<1>2. ~ Manage
  BY DEF Manage, ApproveBegin, RevokeBegin, MarkRekey, ManageFinish, ManageAbort, tables
<1>3. ~ Submit
  BY DEF Submit, SubmitBegin, SubmitCheckRecipient, SubmitLock, SubmitInsert, SubmitFinish,
         SubmitAbort, tables
<1>4. ~ Send
  BY DEF Send, SendBegin, SendCheckDevice, SendFinish, SendAbort, tables
<1>5. Deliver => \E l \in Listers, answered \in BOOLEAN : ListFinish(l, answered)
  BY DEF Deliver, ListBegin, ConsumeControlMessage, tables
<1> QED
  BY <1>1, <1>2, <1>3, <1>4, <1>5 DEF Next, vars

(* Only a new request for a page changes one that is not idle afterwards. *)
LEMMA ListMoves ==
    ASSUME TypeOK, [Next]_vars, NEW l \in Listers, lst'[l].pc # "idle",
           lst[l].pc = "idle" \/ lst'[l] # lst[l]
    PROVE  \E r \in Rooms, d \in Devices, n \in 1 .. PageLimit : ListBegin(l, r, d, n)
<1>0. lst' # lst
  OBVIOUS
<1>1. ~ (Membership \/ \E d \in Devices : RegisterDevice(d))
  BY <1>0 DEF Membership, AddMember, RemoveMember, DissolveRoom, RegisterDevice
<1>2. ~ Manage
  BY <1>0 DEF Manage, ApproveBegin, RevokeBegin, MarkRekey, ManageFinish, ManageAbort, tables
<1>3. ~ Submit
  BY <1>0 DEF Submit, SubmitBegin, SubmitCheckRecipient, SubmitLock, SubmitInsert, SubmitFinish,
              SubmitAbort, tables
<1>4. ~ Send
  BY <1>0 DEF Send, SendBegin, SendCheckDevice, SendFinish, SendAbort, tables
<1>5. \A q \in Rooms, e \in Devices : \A msg \in log[q] : ~ ConsumeControlMessage(q, e, msg)
  BY <1>0 DEF ConsumeControlMessage
<1>6. ASSUME NEW k \in Listers, NEW answered \in BOOLEAN PROVE ~ ListFinish(k, answered)
  <2>1. ASSUME ListFinish(k, answered) PROVE FALSE
    <3>1. lst' = [lst EXCEPT ![k] = Idle]
      BY <2>1 DEF ListFinish
    <3>2. lst'[k] = Idle /\ Idle.pc = "idle" /\ (l # k => lst'[l] = lst[l])
      BY <3>1 DEF TypeOK, Idle
    <3> QED
      BY <3>2
  <2> QED
    BY <2>1
<1>7. ASSUME NEW k \in Listers, NEW r \in Rooms, NEW d \in Devices, NEW n \in 1 .. PageLimit,
             ListBegin(k, r, d, n)
      PROVE  k = l
  BY <1>7 DEF ListBegin, TypeOK
<1> QED
  BY <1>0, <1>1, <1>2, <1>3, <1>4, <1>5, <1>6, <1>7 DEF Next, Deliver, vars

(* Every step keeps the receipts in order. *)
LEMMA ReceiptNext == TypeOK /\ TypeOK' /\ QueueInv /\ ReceiptInv /\ [Next]_vars => ReceiptInv'
<1> SUFFICES ASSUME TypeOK, TypeOK', QueueInv, ReceiptInv, [Next]_vars PROVE ReceiptInv'
  OBVIOUS
<1>1. \A r \in Rooms : IsFiniteSet(log'[r])
  <2>1. ASSUME NEW s \in Submitters, SubmitFinish(s) PROVE \A r \in Rooms : IsFiniteSet(log'[r])
    <3> TAKE r \in Rooms
    <3>1. log'[r] = log[r] \/ log'[r] = log[r] \cup {sub[s].msg}
      BY <2>1 DEF SubmitFinish, TypeOK
    <3>2. IsFiniteSet(log[r])
      BY DEF ReceiptInv
    <3>3. IsFiniteSet(log[r] \cup {sub[s].msg})
      BY <3>2, FS_AddElement
    <3> QED
      BY <3>1, <3>2, <3>3
  <2>2. CASE ~ \E s \in Submitters : SubmitFinish(s)
    <3>1. log' = log
      BY <2>2, LogMoves
    <3> QED
      BY <3>1 DEF ReceiptInv
  <2> QED
    BY <2>1, <2>2
<1>2. ASSUME NEW d \in Devices, NEW r \in Rooms PROVE Passed(d, r, cursor[d][r])'
  <2>1. cursor[d][r] \in Nat /\ Passed(d, r, cursor[d][r])
    BY DEF TypeOK, ReceiptInv
  <2>2. CASE cursor'[d][r] = cursor[d][r]
    <3> DEFINE k == cursor[d][r]
    <3>1. k \in Nat /\ Passed(d, r, k)
      BY <2>1
    <3> HIDE DEF k
    <3>2. \A j \in Nat : Passed(d, r, j) => Passed(d, r, j)'
      BY PassedStep
    <3> QED
      BY <2>2, <3>1, <3>2 DEF k, Passed
  <2>3. CASE cursor'[d][r] # cursor[d][r]
    <3>1. PICK l \in Listers, answered \in BOOLEAN : ListFinish(l, answered)
      BY <2>3, CursorMoves
    <3>2. lst[l] \in ListTx
      BY <3>1 DEF ListFinish, TypeOK, Idle
    <3>3. PICK e \in Devices, q \in Rooms, k \in Nat :
              cursor' = [cursor EXCEPT ![e][q] = k] /\ Passed(e, q, k)'
      BY <2>3, <3>1, <3>2, PageMovesCursor DEF ListTx
    <3>4. e = d /\ q = r /\ cursor'[d][r] = k
      BY <2>3, <3>3 DEF TypeOK
    <3> QED
      BY <3>3, <3>4 DEF Passed
  <2> QED
    BY <2>2, <2>3
<1>3. ASSUME NEW l \in Listers, lst'[l].pc # "idle"
      PROVE  Passed(lst[l].device, lst[l].room, lst[l].after)'
  <2>1. CASE lst[l].pc # "idle" /\ lst'[l] = lst[l]
    <3>1. lst[l] \in ListTx
      BY <2>1 DEF TypeOK, Idle
    <3>2. \A e \in Devices, q \in Rooms, k \in Nat : Passed(e, q, k) => Passed(e, q, k)'
      BY PassedStep
    <3> QED
      BY <2>1, <3>1, <3>2 DEF ReceiptInv, ListTx, Passed
  <2>2. CASE lst[l].pc = "idle" \/ lst'[l] # lst[l]
    <3>1. PICK r \in Rooms, d \in Devices, n \in 1 .. PageLimit : ListBegin(l, r, d, n)
      BY <1>3, <2>2, ListMoves
    <3>2. UNCHANGED <<log, nextSeq, receipt, cursor, sub>>
      BY <3>1 DEF ListBegin, tables
    <3>3. lst'[l].room = r /\ lst'[l].device = d /\ lst'[l].after = cursor[d][r]
      BY <3>1 DEF ListBegin, TypeOK
    <3> QED
      BY <3>2, <3>3 DEF ReceiptInv, Passed
  <2> QED
    BY <2>1, <2>2
<1> QED
  BY <1>1, <1>2, <1>3 DEF ReceiptInv

(* Sequence numbers are drawn before COMMIT, and yet a device that pages    *)
(* with the last one it was given never jumps over a message queued for it, *)
(* for any number of submissions and of pages asked for at once.            *)
THEOREM ReceiptsNotSkipped == Spec => []NoSkippedReceipt
<1>1. Init => ReceiptInv
  BY ReceiptInit
<1>2. TypeOK /\ QueueInv /\ TypeOK' /\ ReceiptInv /\ [Next]_vars => ReceiptInv'
  BY ReceiptNext
<1>3. ReceiptInv => NoSkippedReceipt
  BY DEF ReceiptInv, Passed, NoSkippedReceipt
<1> QED
  BY <1>1, <1>2, <1>3, QueueInvariant, PTL DEF Spec

-----------------------------------------------------------------------------
(* Devices.  An approval and a revocation keep the rows they looked at       *)
(* locked, so what they saw stays true until they commit.                    *)

LocksApart ==
    \A m, n \in Managers, d \in Devices : LocksDevice(m, d) /\ LocksDevice(n, d) => m = n

Seen(m) ==
    /\ mgr[m].pc = "approve" => /\ mgr[m].device # mgr[m].target
                                /\ status[mgr[m].device] = "active"
                                /\ status[mgr[m].target] = "pending_approval"
    /\ mgr[m].pc = "revoke"  => status[mgr[m].target] = "active"

DeviceInv == LocksApart /\ \A m \in Managers : Seen(m)

(* Which steps move the devices and the managers. *)
LEMMA DevicesRest ==
    ASSUME [Next]_vars, ~Manage, ~ \E d \in Devices : RegisterDevice(d)
    PROVE  UNCHANGED <<status, mgr>>
<1>1. CASE Membership
  BY <1>1 DEF Membership, AddMember, RemoveMember, DissolveRoom
<1>2. CASE Submit
  BY <1>2 DEF Submit, SubmitBegin, SubmitCheckRecipient, SubmitLock, SubmitInsert, SubmitFinish,
              SubmitAbort, tables
<1>3. CASE Send \/ Deliver
  BY <1>3 DEF Send, SendBegin, SendCheckDevice, SendFinish, SendAbort, Deliver, ListBegin,
              ListFinish, ConsumeControlMessage, tables
<1> QED
  BY <1>1, <1>2, <1>3 DEF Next, vars

(* A transaction that begins holds rows nobody holds. *)
LEMMA DeviceBegin ==
    ASSUME TypeOK, DeviceInv, NEW m \in Managers, NEW a \in Devices, NEW t \in Devices,
           DeviceRowUnlocked(a), DeviceRowUnlocked(t), mgr'[m].device = a, mgr'[m].target = t,
           \A n \in Managers \ {m} : mgr'[n] = mgr[n],
           status' = status, Seen(m)'
    PROVE  DeviceInv'
<1>1. \A n \in Managers \ {m} : Seen(n)'
  BY DEF DeviceInv, Seen
<1>2. \A n \in Managers \ {m}, d \in Devices : LocksDevice(n, d)' <=> LocksDevice(n, d)
  BY DEF LocksDevice
<1>3. \A n \in Managers \ {m}, d \in Devices : ~ (LocksDevice(n, d)' /\ LocksDevice(m, d)')
  BY <1>2 DEF DeviceRowUnlocked, LocksDevice
<1> QED
  BY <1>1, <1>2, <1>3 DEF DeviceInv, LocksApart

(* Every step keeps what the managers have seen. *)
LEMMA DeviceNext == TypeOK /\ DeviceInv /\ [Next]_vars => DeviceInv'
<1> SUFFICES ASSUME TypeOK, DeviceInv, [Next]_vars PROVE DeviceInv'
  OBVIOUS
<1>1. ASSUME NEW d \in Devices, RegisterDevice(d) PROVE DeviceInv'
  <2>1. mgr' = mgr /\ \A e \in Devices : status[e] # "absent" => status'[e] = status[e]
    BY <1>1 DEF RegisterDevice, TypeOK
  <2>2. \A m \in Managers : mgr[m].pc # "idle" => mgr[m].device \in Devices /\ mgr[m].target \in Devices
    BY DEF TypeOK, ManageTx, Idle
  <2>3. \A m \in Managers : Seen(m)'
    BY <2>1, <2>2 DEF DeviceInv, Seen
  <2> QED
    BY <2>1, <2>3 DEF DeviceInv, LocksApart, LocksDevice
<1>2. ASSUME NEW m \in Managers, NEW a \in Devices, NEW t \in Devices, ApproveBegin(m, a, t)
      PROVE  DeviceInv'
  <2>1. /\ mgr'[m].pc = "approve" /\ mgr'[m].device = a /\ mgr'[m].target = t
        /\ \A n \in Managers \ {m} : mgr'[n] = mgr[n]
    BY <1>2 DEF ApproveBegin, TypeOK
  <2>2. status' = status /\ Seen(m)'
    BY <1>2, <2>1 DEF ApproveBegin, Seen, tables
  <2> QED
    BY <1>2, <2>1, <2>2, DeviceBegin DEF ApproveBegin, DeviceRowFree
<1>3. ASSUME NEW m \in Managers, NEW d \in Devices, RevokeBegin(m, d) PROVE DeviceInv'
  <2>1. /\ mgr'[m].pc = "revoke" /\ mgr'[m].device = d /\ mgr'[m].target = d
        /\ \A n \in Managers \ {m} : mgr'[n] = mgr[n]
    BY <1>3 DEF RevokeBegin, TypeOK
  <2>2. status' = status /\ Seen(m)'
    BY <1>3, <2>1 DEF RevokeBegin, Seen, tables
  <2> QED
    BY <1>3, <2>1, <2>2, DeviceBegin DEF RevokeBegin, DeviceRowFree
<1>4. ASSUME NEW m \in Managers, NEW r \in Rooms, MarkRekey(m, r) PROVE DeviceInv'
  <2>1. mgr[m] \in ManageTx
    BY <1>4 DEF MarkRekey, TypeOK, Idle
  <2>2. status' = status /\ \A n \in Managers : /\ mgr'[n].pc = mgr[n].pc
                                                /\ mgr'[n].device = mgr[n].device
                                                /\ mgr'[n].target = mgr[n].target
    BY <1>4, <2>1 DEF MarkRekey, TypeOK, ManageTx, tables
  <2> QED
    BY <2>2 DEF DeviceInv, LocksApart, LocksDevice, Seen
<1>5. ASSUME NEW m \in Managers, ManageFinish(m) PROVE DeviceInv'
  <2>1. \A n \in Managers : mgr[n].pc # "idle" => mgr[n].device \in Devices /\ mgr[n].target \in Devices
    BY DEF TypeOK, ManageTx, Idle
  <2>2. mgr'[m].pc = "idle" /\ \A n \in Managers \ {m} : mgr'[n] = mgr[n]
    BY <1>5 DEF ManageFinish, TypeOK, Idle
  <2>3. \A d \in Devices : d # mgr[m].target => status'[d] = status[d]
    BY <1>5 DEF ManageFinish, TypeOK
  <2>4. \A n \in Managers \ {m} : mgr[n].pc # "idle" => /\ mgr[n].device # mgr[m].target
                                                         /\ mgr[n].target # mgr[m].target
    BY <1>5, <2>1 DEF DeviceInv, LocksApart, LocksDevice, ManageFinish
  <2>5. \A n \in Managers : Seen(n)'
    BY <2>1, <2>2, <2>3, <2>4 DEF DeviceInv, Seen
  <2> QED
    BY <2>2, <2>5 DEF DeviceInv, LocksApart, LocksDevice
<1>6. ASSUME NEW m \in Managers, ManageAbort(m) PROVE DeviceInv'
  <2>1. status' = status /\ \A n \in Managers : mgr'[n] = mgr[n] \/ mgr'[n].pc = "idle"
    BY <1>6 DEF ManageAbort, TypeOK, Idle, tables
  <2> QED
    BY <2>1 DEF DeviceInv, LocksApart, LocksDevice, Seen
<1>7. CASE ~Manage /\ ~ \E d \in Devices : RegisterDevice(d)
  BY <1>7, DevicesRest DEF DeviceInv, LocksApart, LocksDevice, Seen
<1> QED
  BY <1>1, <1>2, <1>3, <1>4, <1>5, <1>6, <1>7 DEF Manage

(* What approvals and revocations have seen of the devices stays true. *)
THEOREM DevicesStayLocked == Spec => []DeviceInv
<1>1. Init => DeviceInv
  BY DEF Init, DeviceInv, LocksApart, LocksDevice, Seen, Idle
<1> QED
  BY <1>1, DeviceNext, TypeCorrect, PTL DEF Spec

(* A device becomes trusted only through an approver that is trusted at that *)
(* moment: a revocation of the approver waits for the approval, or the other *)
(* way round.                                                                *)
THEOREM ApproversTrusted == Spec => ApproverTrusted
<1> DEFINE Step == \A m \in Managers :
                      /\ mgr[m].pc = "approve"
                      /\ status[mgr[m].target] # "active" /\ status'[mgr[m].target] = "active"
                      => status'[mgr[m].device] = "active"
<1>1. TypeOK /\ DeviceInv /\ [Next]_vars => [Step]_vars
  <2> SUFFICES ASSUME TypeOK, DeviceInv, [Next]_vars, NEW m \in Managers, mgr[m].pc = "approve",
                      status[mgr[m].target] # "active", status'[mgr[m].target] = "active"
               PROVE  status'[mgr[m].device] = "active"
    OBVIOUS
  <2>1. /\ mgr[m].device \in Devices /\ mgr[m].target \in Devices
        /\ mgr[m].device # mgr[m].target
        /\ status[mgr[m].device] = "active" /\ status[mgr[m].target] = "pending_approval"
    BY DEF DeviceInv, Seen, TypeOK, ManageTx, Idle
  <2>2. CASE \E d \in Devices : RegisterDevice(d)
    BY <2>1, <2>2 DEF RegisterDevice, TypeOK
  <2>3. ASSUME NEW n \in Managers, ManageFinish(n) PROVE status'[mgr[m].device] = "active"
    <3>1. \A d \in Devices : d # mgr[n].target => status'[d] = status[d]
      BY <2>3 DEF ManageFinish, TypeOK
    <3>2. mgr[n].target = mgr[m].target /\ mgr[n].pc # "idle"
      BY <2>1, <2>3, <3>1 DEF ManageFinish
    <3> QED
      BY <2>1, <3>1, <3>2
  <2>4. CASE Manage /\ ~ \E n \in Managers : ManageFinish(n)
    BY <2>4 DEF Manage, ApproveBegin, RevokeBegin, MarkRekey, ManageAbort, tables
  <2> QED
    BY <2>2, <2>3, <2>4, DevicesRest
<1> QED
  BY <1>1, DevicesStayLocked, TypeCorrect, PTL DEF Spec, ApproverTrusted

-----------------------------------------------------------------------------
(* Revocation.  A room the revocation did not find is one its account has   *)
(* joined since; the join left the room without a current Commit, and a new *)
(* Commit has the device among its receivers and waits for the revocation.  *)

Missed(m, r) ==
    /\ mgr[m].pc = "revoke"
    /\ r \notin mgr[m].todo \cup mgr[m].held
    /\ Owner[mgr[m].target] \in members[r]

Served(s, r, d) ==
    sub[s].pc = "inserted" /\ sub[s].room = r /\ sub[s].msg.kind = "commit" => d \in sub[s].targets

RevokeInv ==
    \A m \in Managers, r \in Rooms : Missed(m, r) =>
        /\ epoch[r].status # "active"
        /\ \A s \in Submitters : Served(s, r, mgr[m].target)

(* The steps that make no room active, no room missed and insert nothing. *)
LEMMA RevokeQuiet ==
    ASSUME RevokeInv,
           \A m \in Managers, r \in Rooms :
               Missed(m, r)' => Missed(m, r) /\ mgr'[m].target = mgr[m].target,
           \A r \in Rooms : epoch'[r].status = "active" => epoch[r].status = "active",
           \A s \in Submitters : sub'[s] = sub[s] \/ sub'[s].pc # "inserted"
    PROVE  RevokeInv'
  BY DEF RevokeInv, Served

(* A change of members: no submission holds the room, and none is active.  *)
LEMMA RevokeMembership ==
    ASSUME TypeOK, RevokeInv, NEW r \in Rooms, NEW n, EpochRowFree(r),
           epoch' = [epoch EXCEPT ![r] = BumpRevision(epoch[r], n)],
           \A q \in Rooms \ {r} : members'[q] = members[q],
           UNCHANGED <<sub, mgr>>
    PROVE  RevokeInv'
<1>1. epoch'[r].status # "active"
  BY DEF BumpRevision, TypeOK, EpochRow
<1>2. \A s \in Submitters, d \in Devices : Served(s, r, d)'
  BY DEF EpochRowFree, SubmitHolds, Served
<1>3. \A m \in Managers : mgr[m].pc # "idle" => mgr[m].target \in Devices
  BY DEF TypeOK, ManageTx, Idle
<1>4. \A q \in Rooms \ {r} : epoch'[q] = epoch[q]
  BY DEF TypeOK
<1> SUFFICES ASSUME NEW m \in Managers, NEW q \in Rooms, Missed(m, q)'
             PROVE  /\ epoch'[q].status # "active"
                    /\ \A s \in Submitters : Served(s, q, mgr[m].target)'
  BY DEF RevokeInv
<1>5. CASE q = r
  BY <1>1, <1>2, <1>3, <1>5 DEF Missed, Served
<1>6. CASE q # r
  BY <1>4, <1>6 DEF RevokeInv, Missed, Served
<1> QED
  BY <1>5, <1>6

(* A Commit inserted after the join has the device among its receivers. *)
LEMMA RevokeInsert ==
    ASSUME TypeOK, DeviceInv, RevokeInv, NEW s \in Submitters, SubmitInsert(s)
    PROVE  RevokeInv'
<1>1. UNCHANGED <<epoch, members, mgr>> /\ \A t \in Submitters \ {s} : sub'[t] = sub[t]
  BY DEF SubmitInsert, TypeOK
<1>2. /\ sub[s] \in SubmitTx /\ sub'[s].room = sub[s].room
      /\ sub'[s].msg = [sub[s].msg EXCEPT !.seq = nextSeq]
      /\ sub[s].msg.kind = "commit" =>
            sub'[s].targets = CommitReceivers(sub[s].room, sub[s].msg.sender)
  BY DEF SubmitInsert, TypeOK, Idle
<1>3. sub'[s].msg.kind = sub[s].msg.kind
  BY <1>2 DEF SubmitTx, Control, ControlRow
<1> SUFFICES ASSUME NEW m \in Managers, NEW r \in Rooms, Missed(m, r)
             PROVE  Served(s, r, mgr[m].target)'
  BY <1>1 DEF RevokeInv, Missed, Served
<1>4. mgr[m].target \in Devices /\ status[mgr[m].target] = "active"
  BY DEF Missed, DeviceInv, Seen, TypeOK, ManageTx, Idle
<1>5. LocksDevice(m, mgr[m].target)
  BY DEF Missed, LocksDevice
<1>6. sub[s].msg.sender # mgr[m].target
  BY <1>5 DEF SubmitInsert, DeviceRowUnlocked
<1> QED
  BY <1>1, <1>2, <1>3, <1>4, <1>6 DEF Served, Missed, CommitReceivers, TrustedIn

(* A Commit takes effect only in a room no revocation has missed. *)
LEMMA RevokeFinish ==
    ASSUME TypeOK, RevokeInv, NEW s \in Submitters, SubmitFinish(s)
    PROVE  RevokeInv'
<1>1. UNCHANGED <<members, mgr>> /\ \A t \in Submitters : sub'[t] = sub[t] \/ sub'[t].pc = "idle"
  BY DEF SubmitFinish, TypeOK, Idle
<1>2. sub[s] \in SubmitTx /\ sub[s].room \in Rooms
  BY DEF SubmitFinish, TypeOK, Idle, SubmitTx
<1>3. ASSUME NEW m \in Managers, NEW r \in Rooms, Missed(m, r) PROVE epoch'[r].status # "active"
  <2>1. epoch[r].status # "active" /\ Served(s, r, mgr[m].target)
    BY <1>3 DEF RevokeInv
  <2>2. LocksDevice(m, mgr[m].target)
    BY <1>3 DEF Missed, LocksDevice
  <2>3. ~ (sub[s].room = r /\ sub[s].msg.kind = "commit")
    BY <2>1, <2>2 DEF SubmitFinish, Served, DeviceRowUnlocked
  <2>4. epoch'[r] = epoch[r]
    BY <2>3 DEF SubmitFinish, TypeOK
  <2> QED
    BY <2>1, <2>4
<1> QED
  BY <1>1, <1>3 DEF RevokeInv, Missed, Served

(* Every step keeps the rooms a revocation missed without a current Commit. *)
LEMMA RevokeNext == TypeOK /\ DeviceInv /\ RevokeInv /\ [Next]_vars => RevokeInv'
<1> SUFFICES ASSUME TypeOK, DeviceInv, RevokeInv, [Next]_vars PROVE RevokeInv'
  OBVIOUS
<1>1. CASE Membership
  <2>1. ASSUME NEW r \in Rooms, NEW u \in Users, AddMember(r, u) \/ RemoveMember(r, u)
        PROVE  RevokeInv'
    <3>1. \A q \in Rooms \ {r} : members'[q] = members[q]
      BY <2>1 DEF AddMember, RemoveMember, TypeOK
    <3> QED
      BY <2>1, <3>1, RevokeMembership DEF AddMember, RemoveMember
  <2>2. ASSUME NEW r \in Rooms, DissolveRoom(r) PROVE RevokeInv'
    <3>1. \A q \in Rooms \ {r} : members'[q] = members[q]
      BY <2>2 DEF DissolveRoom, TypeOK
    <3> QED
      BY <2>2, <3>1, RevokeMembership DEF DissolveRoom
  <2> QED
    BY <1>1, <2>1, <2>2 DEF Membership
<1>2. CASE Manage
  <2>0. UNCHANGED <<members, sub>>
    BY <1>2 DEF Manage, ApproveBegin, RevokeBegin, MarkRekey, ManageFinish, ManageAbort, tables
  <2>1. ASSUME NEW m \in Managers, NEW a \in Devices, NEW t \in Devices, ApproveBegin(m, a, t)
        PROVE  RevokeInv'
    <3>1. /\ mgr'[m].pc = "approve" /\ epoch' = epoch
          /\ \A n \in Managers \ {m} : mgr'[n] = mgr[n]
      BY <2>1 DEF ApproveBegin, TypeOK, tables
    <3>2. \A n \in Managers, r \in Rooms :
             Missed(n, r)' => Missed(n, r) /\ mgr'[n].target = mgr[n].target
      BY <2>0, <3>1 DEF Missed
    <3> QED
      BY <2>0, <3>1, <3>2, RevokeQuiet
  <2>2. ASSUME NEW m \in Managers, NEW d \in Devices, RevokeBegin(m, d) PROVE RevokeInv'
    <3>1. /\ mgr'[m].todo = {r \in Rooms : Owner[d] \in members[r]} /\ mgr'[m].target = d
          /\ epoch' = epoch /\ \A n \in Managers \ {m} : mgr'[n] = mgr[n]
      BY <2>2 DEF RevokeBegin, TypeOK, tables
    <3>2. \A n \in Managers, r \in Rooms :
             Missed(n, r)' => Missed(n, r) /\ mgr'[n].target = mgr[n].target
      BY <2>0, <3>1 DEF Missed
    <3> QED
      BY <2>0, <3>1, <3>2, RevokeQuiet
  <2>3. ASSUME NEW m \in Managers, NEW r \in Rooms, MarkRekey(m, r) PROVE RevokeInv'
    <3>0. mgr[m] \in ManageTx
      BY <2>3 DEF MarkRekey, TypeOK, Idle
    <3>1. /\ mgr'[m].pc = mgr[m].pc /\ mgr'[m].target = mgr[m].target
          /\ mgr[m].pc = "revoke" => mgr'[m].todo \cup mgr'[m].held = mgr[m].todo \cup mgr[m].held
          /\ epoch' = epoch /\ \A n \in Managers \ {m} : mgr'[n] = mgr[n]
      BY <2>3, <3>0 DEF MarkRekey, TypeOK, ManageTx, tables
    <3>2. \A n \in Managers, q \in Rooms :
             Missed(n, q)' => Missed(n, q) /\ mgr'[n].target = mgr[n].target
      BY <2>0, <3>1 DEF Missed
    <3> QED
      BY <2>0, <3>1, <3>2, RevokeQuiet
  <2>4. ASSUME NEW m \in Managers, ManageFinish(m) \/ ManageAbort(m) PROVE RevokeInv'
    <3>1. \A n \in Managers : mgr'[n] = mgr[n] \/ mgr'[n].pc = "idle"
      BY <2>4 DEF ManageFinish, ManageAbort, TypeOK, Idle
    <3>2. \A r \in Rooms : epoch'[r].status = "active" => epoch[r].status = "active"
      BY <2>4 DEF ManageFinish, ManageAbort, tables, TypeOK, EpochRow
    <3>3. \A n \in Managers, r \in Rooms :
             Missed(n, r)' => Missed(n, r) /\ mgr'[n].target = mgr[n].target
      BY <2>0, <3>1 DEF Missed
    <3> QED
      BY <2>0, <3>2, <3>3, RevokeQuiet
  <2> QED
    BY <1>2, <2>1, <2>2, <2>3, <2>4 DEF Manage
<1>3. CASE Submit
  <2>1. ASSUME NEW s \in Submitters,
               \/ \E q \in Rooms : \E msg \in SubmitRequests(q) : SubmitBegin(s, q, msg)
               \/ SubmitCheckRecipient(s) \/ SubmitLock(s) \/ SubmitAbort(s)
        PROVE  RevokeInv'
    <3>1. UNCHANGED <<epoch, members, mgr>>
      BY <2>1 DEF SubmitBegin, SubmitCheckRecipient, SubmitLock, SubmitAbort, tables
    <3>2. \A t \in Submitters : sub'[t] = sub[t] \/ sub'[t].pc # "inserted"
      BY <2>1, SubmitRests
    <3>3. \A n \in Managers, r \in Rooms :
             Missed(n, r)' => Missed(n, r) /\ mgr'[n].target = mgr[n].target
      BY <3>1 DEF Missed
    <3> QED
      BY <3>1, <3>2, <3>3, RevokeQuiet
  <2> QED
    BY <1>3, <2>1, RevokeInsert, RevokeFinish DEF Submit
<1>4. CASE ~ (Membership \/ Manage \/ Submit)
  <2>1. UNCHANGED <<epoch, members, mgr, sub>>
    <3>1. CASE Send \/ Deliver
      BY <3>1 DEF Send, SendBegin, SendCheckDevice, SendFinish, SendAbort, Deliver, ListBegin,
                  ListFinish, ConsumeControlMessage, tables
    <3>2. CASE \E d \in Devices : RegisterDevice(d)
      BY <3>2 DEF RegisterDevice
    <3> QED
      BY <1>4, <3>1, <3>2 DEF Next, vars
  <2> QED
    BY <2>1 DEF RevokeInv, Missed, Served
<1> QED
  BY <1>1, <1>2, <1>3, <1>4

(* The invariants behind the revocations hold. *)
THEOREM RevocationsServed == Spec => [](TypeOK /\ DeviceInv /\ RevokeInv)
<1>1. Init => RevokeInv
  BY DEF Init, RevokeInv, Missed, Idle
<1> QED
  BY <1>1, RevokeNext, DevicesStayLocked, TypeCorrect, PTL DEF Spec

(* A device that stops being trusted leaves no room of its account active. *)
LEMMA RevokedLeavesNone ==
    ASSUME TypeOK, DeviceInv, RevokeInv, [Next]_vars, NEW d \in Devices, NEW r \in Rooms,
           status[d] = "active", status'[d] # "active", Owner[d] \in members[r]
    PROVE  epoch'[r].status # "active"
<1>1. CASE \E e \in Devices : RegisterDevice(e)
  BY <1>1 DEF RegisterDevice, TypeOK
<1>2. ASSUME NEW m \in Managers, ManageFinish(m) PROVE epoch'[r].status # "active"
  <2>1. mgr[m].target = d /\ mgr[m].pc # "approve" /\ mgr[m].todo = {}
    BY <1>2 DEF ManageFinish, TypeOK
  <2>2. mgr[m].pc = "revoke"
    BY <1>2, <2>1 DEF ManageFinish, TypeOK, ManageTx, Idle
  <2>3. CASE r \in mgr[m].held
    <3>1. epoch'[r] = [epoch[r] EXCEPT !.status = "rekey_required"]
      BY <1>2, <2>3 DEF ManageFinish
    <3> QED
      BY <3>1 DEF TypeOK, EpochRow
  <2>4. CASE r \notin mgr[m].held
    BY <1>2, <2>1, <2>2, <2>4 DEF ManageFinish, RevokeInv, Missed
  <2> QED
    BY <2>3, <2>4
<1>3. CASE Manage /\ ~ \E m \in Managers : ManageFinish(m)
  BY <1>3 DEF Manage, ApproveBegin, RevokeBegin, MarkRekey, ManageAbort, tables
<1> QED
  BY <1>1, <1>2, <1>3, DevicesRest

(* The revocation of a device forces a new epoch on every room its account  *)
(* is in at that moment, the ones it joined meanwhile included.             *)
THEOREM RevocationsForceRekey == Spec => RevokeForcesRekey
<1> DEFINE Step == \A d \in Devices, r \in Rooms :
                      status[d] = "active" /\ status'[d] = "revoked" /\ Owner[d] \in members[r]
                          => epoch'[r].status # "active"
<1>1. TypeOK /\ DeviceInv /\ RevokeInv /\ [Next]_vars => [Step]_vars
  BY RevokedLeavesNone
<1> QED
  BY <1>1, RevocationsServed, PTL DEF Spec, RevokeForcesRekey

-----------------------------------------------------------------------------
(* Sends.  The membership a send looked up can only have ended with a newer *)
(* revision, and the trust in its device only with a newer epoch, a room    *)
(* that is not active or, if its account had left before, a newer revision: *)
(* each shows in the epoch row the send is decided by.                      *)

Standing(s, c) ==
    LET r == snd[s].room  d == snd[s].msg.device
        stale == c.revision < epoch[r].revision
    IN  /\ c.id = snd[s].msg.control /\ c.epoch = snd[s].msg.epoch
        /\ stale \/ Owner[d] \in members[r]
        /\ snd[s].pc = "device_ok" =>
              \/ stale \/ status[d] = "active"
              \/ epoch[r].status # "active" \/ c.epoch < epoch[r].active

SendInv ==
    /\ \A r \in Rooms : \A x \in log[r] : x.revision <= epoch[r].revision
    /\ \A s \in Senders : snd[s].pc # "idle" => \E c \in Commits(snd[s].room) : Standing(s, c)

(* What any step may do to a room: its epoch and its revision only grow, the *)
(* members change with the revision, and it becomes active with a new epoch. *)
Grows(r) ==
    /\ log[r] \subseteq log'[r]
    /\ \A x \in log'[r] \ log[r] : x.revision = epoch[r].revision
    /\ epoch[r].revision <= epoch'[r].revision
    /\ epoch[r].active <= epoch'[r].active
    /\ members'[r] = members[r] \/ epoch[r].revision < epoch'[r].revision
    /\ epoch'[r].status = "active" =>
          epoch[r].status = "active" \/ epoch[r].active < epoch'[r].active

(* Every step does no more than that. *)
LEMMA GrowsStep ==
    ASSUME TypeOK, TypeOK', QueueInv, [Next]_vars, NEW r \in Rooms
    PROVE  Grows(r)
<1>0. /\ epoch[r].revision \in Nat /\ epoch[r].active \in Nat
      /\ \A n \in Nat : n <= n
  BY DEF TypeOK, EpochRow
<1>1. CASE Membership
  <2>1. ASSUME NEW q \in Rooms, NEW n \in Nat \ {0}, UNCHANGED log,
               epoch' = [epoch EXCEPT ![q] = BumpRevision(epoch[q], n)],
               \A p \in Rooms \ {q} : members'[p] = members[p]
        PROVE  Grows(r)
    <3>1. CASE q = r
      <4>1. epoch'[r] = BumpRevision(epoch[r], n)
        BY <2>1, <3>1 DEF TypeOK
      <4>2. /\ epoch'[r].revision = epoch[r].revision + n /\ epoch'[r].active = epoch[r].active
            /\ epoch'[r].status # "active"
        BY <4>1 DEF BumpRevision
      <4> QED
        BY <1>0, <2>1, <4>2 DEF Grows
    <3>2. CASE q # r
      BY <1>0, <2>1, <3>2 DEF Grows, TypeOK
    <3> QED
      BY <3>1, <3>2
  <2>2. ASSUME NEW q \in Rooms, NEW u \in Users, AddMember(q, u) \/ RemoveMember(q, u)
        PROVE  Grows(r)
    <3>1. \A p \in Rooms \ {q} : members'[p] = members[p]
      BY <2>2 DEF AddMember, RemoveMember, TypeOK
    <3>2. epoch' = [epoch EXCEPT ![q] = BumpRevision(epoch[q], 1)] /\ UNCHANGED log /\ 1 \in Nat \ {0}
      BY <2>2 DEF AddMember, RemoveMember
    <3> QED
      BY <2>1, <3>1, <3>2
  <2>3. ASSUME NEW q \in Rooms, DissolveRoom(q) PROVE Grows(r)
    <3>1. \A p \in Rooms \ {q} : members'[p] = members[p]
      BY <2>3 DEF DissolveRoom, TypeOK
    <3>2. IsFiniteSet(members[q]) /\ members[q] # {}
      BY <2>3, UsersAssumption, FS_Subset DEF TypeOK, DissolveRoom
    <3>3. Cardinality(members[q]) \in Nat \ {0}
      BY <3>2, FS_EmptySet, FS_CardinalityType
    <3>4. /\ epoch' = [epoch EXCEPT ![q] = BumpRevision(epoch[q], Cardinality(members[q]))]
          /\ UNCHANGED log
      BY <2>3 DEF DissolveRoom
    <3> QED
      BY <2>1, <3>1, <3>3, <3>4
  <2> QED
    BY <1>1, <2>2, <2>3 DEF Membership
<1>2. ASSUME NEW m \in Managers, ManageFinish(m) PROVE Grows(r)
  BY <1>0, <1>2 DEF ManageFinish, Grows, TypeOK, EpochRow
<1>3. ASSUME NEW s \in Submitters, SubmitFinish(s) PROVE Grows(r)
  <2> DEFINE q == sub[s].room
             msg == sub[s].msg
  <2>1. sub[s].pc \in Holding /\ q \in Rooms
    BY <1>3 DEF SubmitFinish, TypeOK, SubmitTx, Idle, Holding
  <2>2. Admissible(epoch[q], msg)
    BY <2>1 DEF QueueInv, HeldDecision
  <2>3. log' = [log EXCEPT ![q] = log[q] \cup {msg}] /\ members' = members
    BY <1>3 DEF SubmitFinish
  <2>4. CASE q = r
    <3>1. log'[r] = log[r] \cup {msg} /\ msg.revision = epoch[r].revision
      BY <2>2, <2>3, <2>4 DEF Admissible, TypeOK
    <3>2. CASE msg.kind = "commit"
      <4>1. epoch' = [epoch EXCEPT ![r].active = msg.epoch, ![r].status = "active"]
        BY <1>3, <2>4, <3>2 DEF SubmitFinish
      <4>2. /\ epoch'[r].revision = epoch[r].revision /\ epoch'[r].active = msg.epoch
            /\ msg.epoch = epoch[r].active + 1
        BY <2>2, <2>4, <3>2, <4>1 DEF Admissible, TypeOK, EpochRow
      <4> QED
        BY <1>0, <2>3, <3>1, <4>2 DEF Grows
    <3>3. CASE msg.kind # "commit"
      <4>1. epoch' = epoch
        BY <1>3, <3>3 DEF SubmitFinish
      <4> QED
        BY <1>0, <2>3, <3>1, <4>1 DEF Grows
    <3> QED
      BY <3>2, <3>3
  <2>5. CASE q # r
    <3>1. epoch'[r] = epoch[r]
      BY <1>3, <2>5 DEF SubmitFinish, TypeOK
    <3> QED
      BY <1>0, <2>3, <2>5, <3>1 DEF Grows, TypeOK
  <2> QED
    BY <2>4, <2>5
<1>4. CASE ~ Membership /\ ~ (\E m \in Managers : ManageFinish(m))
           /\ ~ (\E s \in Submitters : SubmitFinish(s))
  <2>1. log' = log
    BY <1>4, LogMoves
  <2>2. UNCHANGED <<epoch, members>>
    <3>1. CASE Manage
      BY <1>4, <3>1 DEF Manage, ApproveBegin, RevokeBegin, MarkRekey, ManageAbort, tables
    <3>2. CASE Submit
      BY <1>4, <3>2 DEF Submit, SubmitBegin, SubmitCheckRecipient, SubmitLock, SubmitInsert,
                        SubmitAbort, tables
    <3>3. CASE Send \/ Deliver
      BY <3>3 DEF Send, SendBegin, SendCheckDevice, SendFinish, SendAbort, Deliver, ListBegin,
                  ListFinish, ConsumeControlMessage, tables
    <3>4. CASE \E d \in Devices : RegisterDevice(d)
      BY <3>4 DEF RegisterDevice
    <3> QED
      BY <1>4, <3>1, <3>2, <3>3, <3>4 DEF Next, vars
  <2> QED
    BY <1>0, <2>1, <2>2 DEF Grows
<1> QED
  BY <1>1, <1>2, <1>3, <1>4

(* What a waiting send stands on stays, or shows in the epoch row. *)
LEMMA StandingKept ==
    ASSUME TypeOK, TypeOK', QueueInv, DeviceInv, RevokeInv, SendInv, [Next]_vars,
           NEW s \in Senders, snd[s].pc # "idle", snd'[s] = snd[s]
    PROVE  \E c \in Commits(snd[s].room)' : Standing(s, c)'
<1> DEFINE r == snd[s].room
           d == snd[s].msg.device
<1>1. r \in Rooms /\ d \in Devices
  BY DEF TypeOK, SendTx, Application, Idle
<1>2. PICK c \in Commits(r) : Standing(s, c)
  BY DEF SendInv
<1>3. /\ epoch[r].revision \in Nat /\ epoch'[r].revision \in Nat /\ c.revision \in Nat
      /\ epoch[r].active \in Nat /\ epoch'[r].active \in Nat /\ c.epoch \in Nat
  BY <1>1, <1>2 DEF TypeOK, EpochRow, Commits, Control, ControlRow
<1>4. c.revision <= epoch[r].revision /\ c.epoch <= epoch[r].active
  <2>1. c.epoch \in 1 .. epoch[r].active
    BY <1>1, <1>2 DEF QueueInv, CommitChain
  <2> QED
    BY <1>1, <1>2, <1>3, <2>1 DEF SendInv, Commits
<1>5. Grows(r)
  BY <1>1, GrowsStep
<1>6. c \in log'[r] /\ c.kind = "commit"
  BY <1>2, <1>5 DEF Grows, Commits
<1>7. c.revision < epoch'[r].revision \/ Owner[d] \in members'[r]
  BY <1>2, <1>3, <1>4, <1>5 DEF Grows, Standing
<1>8. ASSUME snd[s].pc = "device_ok"
      PROVE  \/ c.revision < epoch'[r].revision \/ status'[d] = "active"
             \/ epoch'[r].status # "active" \/ c.epoch < epoch'[r].active
  <2>1. CASE c.revision < epoch[r].revision
    BY <1>3, <1>5, <2>1 DEF Grows
  <2>2. CASE c.epoch < epoch[r].active
    BY <1>3, <1>5, <2>2 DEF Grows
  <2>3. CASE epoch[r].status # "active"
    BY <1>3, <1>4, <1>5, <2>3 DEF Grows
  <2>4. CASE status[d] = "active" /\ Owner[d] \in members[r]
    BY <1>1, <2>4, RevokedLeavesNone
  <2> QED
    BY <1>2, <1>8, <2>1, <2>2, <2>3, <2>4 DEF Standing
<1> QED
  BY <1>2, <1>6, <1>7, <1>8 DEF Standing, Commits

(* Which steps move the sends. *)
LEMMA SendsRest ==
    ASSUME [Next]_vars, ~ Send
    PROVE  UNCHANGED <<snd, sent>>
<1>1. CASE Membership \/ \E d \in Devices : RegisterDevice(d)
  BY <1>1 DEF Membership, AddMember, RemoveMember, DissolveRoom, RegisterDevice
<1>2. CASE Manage
  BY <1>2 DEF Manage, ApproveBegin, RevokeBegin, MarkRekey, ManageFinish, ManageAbort, tables
<1>3. CASE Submit
  BY <1>3 DEF Submit, SubmitBegin, SubmitCheckRecipient, SubmitLock, SubmitInsert, SubmitFinish,
              SubmitAbort, tables
<1>4. CASE Deliver
  BY <1>4 DEF Deliver, ListBegin, ListFinish, ConsumeControlMessage, tables
<1> QED
  BY <1>1, <1>2, <1>3, <1>4 DEF Next, vars

(* Every step keeps what the sends stand on. *)
LEMMA SendNext ==
    TypeOK /\ TypeOK' /\ QueueInv /\ DeviceInv /\ RevokeInv /\ SendInv /\ [Next]_vars => SendInv'
<1> SUFFICES ASSUME TypeOK, TypeOK', QueueInv, DeviceInv, RevokeInv, SendInv, [Next]_vars
             PROVE  SendInv'
  OBVIOUS
<1>1. \A r \in Rooms : \A x \in log'[r] : x.revision <= epoch'[r].revision
  <2> TAKE r \in Rooms
  <2>1. Grows(r)
    BY GrowsStep
  <2>2. epoch[r].revision \in Nat /\ epoch'[r].revision \in Nat
    BY DEF TypeOK, EpochRow
  <2>3. \A x \in log'[r] : x.revision \in Nat
    BY DEF TypeOK, Control, ControlRow
  <2> QED
    BY <2>1, <2>2, <2>3 DEF SendInv, Grows
<1>2. ASSUME NEW s \in Senders, snd'[s].pc # "idle"
      PROVE  \E c \in Commits(snd[s].room)' : Standing(s, c)'
  <2>1. CASE snd'[s] = snd[s]
    BY <1>2, <2>1, StandingKept
  <2>2. ASSUME NEW r \in Rooms, NEW msg \in SendRequests(r), SendBegin(s, r, msg)
        PROVE  \E c \in Commits(snd[s].room)' : Standing(s, c)'
    <3>1. snd'[s].pc = "member_ok" /\ snd'[s].room = r /\ snd'[s].msg = msg
      BY <2>2 DEF SendBegin, TypeOK
    <3>2. UNCHANGED <<log, epoch, members>> /\ Owner[msg.device] \in members[r]
      BY <2>2 DEF SendBegin, tables
    <3>3. PICK c \in Commits(r) : msg.control = c.id /\ msg.epoch = c.epoch
      BY DEF SendRequests
    <3> QED
      BY <3>1, <3>2, <3>3 DEF Standing, Commits
  <2>3. CASE SendCheckDevice(s) /\ snd'[s] # snd[s]
    <3>1. snd[s] \in SendTx
      BY <2>3 DEF SendCheckDevice, TypeOK, Idle
    <3>2. /\ snd'[s] = [snd[s] EXCEPT !.pc = "device_ok"]
          /\ status[snd[s].msg.device] = "active" /\ snd[s].pc # "idle"
      BY <1>2, <2>3 DEF SendCheckDevice, TypeOK, Idle
    <3>3. snd'[s].room = snd[s].room /\ snd'[s].msg = snd[s].msg
      BY <3>1, <3>2 DEF SendTx
    <3>4. UNCHANGED <<log, epoch, members, status>>
      BY <2>3 DEF SendCheckDevice, tables
    <3> QED
      BY <3>2, <3>3, <3>4 DEF SendInv, Standing, Commits
  <2>4. CASE SendFinish(s) \/ SendAbort(s)
    BY <1>2, <2>4 DEF SendFinish, SendAbort, TypeOK, Idle
  <2>5. ASSUME NEW t \in Senders, t # s,
               \/ \E r \in Rooms : \E msg \in SendRequests(r) : SendBegin(t, r, msg)
               \/ SendCheckDevice(t) \/ SendFinish(t) \/ SendAbort(t)
        PROVE  snd'[s] = snd[s]
    BY <2>5 DEF SendBegin, SendCheckDevice, SendFinish, SendAbort, TypeOK
  <2> QED
    BY <2>1, <2>2, <2>3, <2>4, <2>5, SendsRest DEF Send
<1> QED
  BY <1>1, <1>2 DEF SendInv

(* The invariants behind the sends hold. *)
THEOREM SendsStand == Spec => [](TypeOK /\ QueueInv /\ SendInv)
<1>1. Init => SendInv
  BY DEF Init, SendInv, Idle
<1> QED
  BY <1>1, SendNext, QueueInvariant, RevocationsServed, PTL DEF Spec

(* A message is accepted only from a device that is trusted in the room at   *)
(* that moment: what was read without a lock is made up for by the epoch row *)
(* that is read under one.                                                   *)
THEOREM SendsAuthorised == Spec => SendAuthority
<1> DEFINE Step == \A r \in Rooms : sent'[r] # sent[r] =>
                      TrustedIn(sent'[r][Len(sent'[r])].device, r)
<1>1. TypeOK /\ QueueInv /\ SendInv /\ [Next]_vars => [Step]_vars
  <2> SUFFICES ASSUME TypeOK, QueueInv, SendInv, [Next]_vars, NEW r \in Rooms, sent'[r] # sent[r]
               PROVE  TrustedIn(sent'[r][Len(sent'[r])].device, r)
    OBVIOUS
  <2>1. PICK s \in Senders : SendFinish(s)
    BY SendsRest DEF Send, SendBegin, SendCheckDevice, SendAbort, tables
  <2> DEFINE msg == snd[s].msg
  <2>2. snd[s] \in SendTx /\ msg \in Application /\ snd[s].pc = "device_ok"
    BY <2>1 DEF SendFinish, TypeOK, SendTx, Idle
  <2>3. snd[s].room = r /\ Sendable(r, msg) /\ sent'[r] = Append(sent[r], msg)
    BY <2>1, <2>2 DEF SendFinish, TypeOK, SendTx
  <2>4. sent'[r][Len(sent'[r])] = msg
    BY <2>2, <2>3 DEF TypeOK
  <2>5. PICK c \in Commits(r) : Standing(s, c)
    BY <2>2, <2>3 DEF SendInv
  <2>6. PICK e \in Commits(r) : e.id = msg.control /\ e.revision = epoch[r].revision
    BY <2>3 DEF Sendable
  <2>7. c = e
    BY <2>5, <2>6 DEF Standing, Commits, QueueInv, BoundOnce
  <2>8. epoch[r].revision \in Nat /\ epoch[r].active \in Nat
    BY DEF TypeOK, EpochRow
  <2>9. Owner[msg.device] \in members[r] /\ status[msg.device] = "active"
    BY <2>2, <2>3, <2>5, <2>6, <2>7, <2>8 DEF Standing, Sendable
  <2> QED
    BY <2>4, <2>9 DEF TrustedIn
<1> QED
  BY <1>1, SendsStand, PTL DEF Spec, SendAuthority

-----------------------------------------------------------------------------
(* The abstract queues.  Nothing of a transaction shows but its commit.    *)

(* A submission commits what the queues allow at that instant.             *)
LEMMA FinishAppends ==
    ASSUME TypeOK, QueueInv, NEW s \in Submitters, SubmitFinish(s)
    PROVE  Queue!Next
<1> DEFINE r == sub[s].room
           msg == sub[s].msg
<1>1. /\ r \in Rooms /\ sub[s].pc = "inserted" /\ sub[s].pc \in Holding
      /\ msg \in ControlRow
  BY DEF SubmitFinish, TypeOK, SubmitTx, Idle, Control, Holding
<1>2. /\ log' = [log EXCEPT ![r] = log[r] \cup {msg}] /\ msg \in log'[r]
      /\ ~ \E q \in Rooms : \E x \in log[q] : x.id = msg.id
  BY <1>1 DEF SubmitFinish, TypeOK
<1>3. Admissible(epoch[r], msg) /\ \A x \in log[r] : x.key # msg.key
  BY <1>1 DEF QueueInv, HeldDecision
<1>4. \A x \in log[r] : x.seq < msg.seq
  BY <1>1 DEF QueueInv, SeqOrder
<1>5. Queue!Append(r, msg)
  BY <1>2, <1>3, <1>4 DEF Queue!Append, Queue!New, Admissible
<1>6. CASE msg.kind = "commit"
  <2>1. msg.epoch = epoch[r].active + 1
    BY <1>3, <1>6 DEF Admissible
  <2>2. epoch' = [epoch EXCEPT ![r].active = msg.epoch, ![r].status = "active"]
    BY <1>6 DEF SubmitFinish
  <2>3. Queue!Commit(r, msg)
    BY <1>5, <1>6, <2>1, <2>2 DEF Queue!Commit
  <2> QED
    BY <1>1, <1>2, <2>3 DEF Queue!Next
<1>7. CASE msg.kind = "welcome"
  <2>1. msg.epoch = epoch[r].active /\ epoch[r].active > 0
    BY <1>3, <1>7 DEF Admissible
  <2>2. UNCHANGED epoch
    BY <1>7 DEF SubmitFinish
  <2>3. Queue!Welcome(r, msg)
    BY <1>5, <1>7, <2>1, <2>2 DEF Queue!Welcome
  <2> QED
    BY <1>1, <1>2, <2>3 DEF Queue!Next
<1> QED
  BY <1>1, <1>6, <1>7 DEF ControlRow

(* A change of the members of a room by n of them. *)
LEMMA BumpChanges ==
    ASSUME TypeOK, NEW r \in Rooms, NEW n \in Nat \ {0}, UNCHANGED log,
           epoch' = [epoch EXCEPT ![r] = BumpRevision(epoch[r], n)]
    PROVE  Queue!Next
<1>1. epoch[r] \in EpochRow
  BY DEF TypeOK
<1>2. epoch'[r] = BumpRevision(epoch[r], n)
  BY DEF TypeOK
<1>3. epoch'[r].revision = epoch[r].revision + n /\ epoch[r].revision \in Nat
  BY <1>1, <1>2 DEF BumpRevision, EpochRow
<1>4. BumpRevision(epoch[r], n) =
         [revision |-> epoch'[r].revision, active |-> epoch[r].active,
          status |-> IF epoch[r].status = "active" THEN "rekey_required" ELSE epoch[r].status]
  BY <1>3 DEF BumpRevision
<1>5. epoch' = [epoch EXCEPT ![r] =
         [revision |-> epoch'[r].revision, active |-> epoch[r].active,
          status |-> IF epoch[r].status = "active" THEN "rekey_required" ELSE epoch[r].status]]
  BY <1>4, Zenon
<1>6. epoch'[r].revision > epoch[r].revision
  BY <1>3
<1>7. Queue!Change(r)
  BY <1>5, <1>6, Zenon DEF Queue!Change
<1> QED
  BY <1>7 DEF Queue!Next

(* The control plane implements the abstract queues: the first states are  *)
(* the same, and every step is a step of theirs or leaves them alone.      *)
THEOREM QueueImplemented == Spec => ImplementsQueue
<1>1. Init => Queue!Init
  BY DEF Init, Queue!Init
<1>2. TypeOK /\ QueueInv /\ [Next]_vars => [Queue!Next]_<<epoch, log>>
  <2> SUFFICES ASSUME TypeOK, QueueInv, Next
               PROVE  Queue!Next \/ UNCHANGED <<epoch, log>>
    BY DEF vars, tables
  <2>1. CASE \E d \in Devices : RegisterDevice(d)
    BY <2>1 DEF RegisterDevice
  <2>2. CASE Membership
    <3>1. ASSUME NEW r \in Rooms, NEW u \in Users, AddMember(r, u) \/ RemoveMember(r, u)
          PROVE  Queue!Next
      BY <3>1, BumpChanges, 1 \in Nat \ {0} DEF AddMember, RemoveMember
    <3>2. ASSUME NEW r \in Rooms, DissolveRoom(r) PROVE Queue!Next
      <4>1. IsFiniteSet(members[r])
        BY UsersAssumption, FS_Subset DEF TypeOK
      <4>2. Cardinality(members[r]) \in Nat \ {0}
        BY <3>2, <4>1, FS_EmptySet, FS_CardinalityType DEF DissolveRoom
      <4> QED
        BY <3>2, <4>2, BumpChanges DEF DissolveRoom
    <3> QED
      BY <2>2, <3>1, <3>2 DEF Membership
  <2>3. CASE Manage
    <3>1. ASSUME NEW m \in Managers, ManageFinish(m) PROVE Queue!Next
      <4> DEFINE S == mgr[m].held \cap Rooms
      <4>1. S \in SUBSET Rooms /\ UNCHANGED log
        BY <3>1 DEF ManageFinish
      <4>2. epoch' = [r \in Rooms |-> IF r \in S THEN [epoch[r] EXCEPT !.status = "rekey_required"]
                                      ELSE epoch[r]]
        BY <3>1 DEF ManageFinish
      <4>3. Queue!Rekey
        BY <4>1, <4>2 DEF Queue!Rekey
      <4> QED
        BY <4>3 DEF Queue!Next
    <3>2. CASE ~ \E m \in Managers : ManageFinish(m)
      BY <2>3, <3>2 DEF Manage, ApproveBegin, RevokeBegin, MarkRekey, ManageAbort, tables
    <3> QED
      BY <3>1, <3>2
  <2>4. CASE Submit
    <3>1. ASSUME NEW s \in Submitters, SubmitFinish(s) PROVE Queue!Next
      BY <3>1, FinishAppends
    <3>2. CASE ~ \E s \in Submitters : SubmitFinish(s)
      BY <2>4, <3>2 DEF Submit, SubmitBegin, SubmitCheckRecipient, SubmitLock, SubmitInsert,
                        SubmitAbort, tables
    <3> QED
      BY <3>1, <3>2
  <2>5. CASE Send
    BY <2>5 DEF Send, SendBegin, SendCheckDevice, SendFinish, SendAbort, tables
  <2>6. CASE Deliver
    BY <2>6 DEF Deliver, ListBegin, ListFinish, ConsumeControlMessage, tables
  <2> QED
    BY <2>1, <2>2, <2>3, <2>4, <2>5, <2>6 DEF Next
<1> QED
  BY <1>1, <1>2, QueueInvariant, PTL DEF Spec, ImplementsQueue, Queue!Spec, Queue!queues
=============================================================================
