------------------------- MODULE E2eeClientsProofs -------------------------
(***************************************************************************)
(* Proofs about E2eeClients, for any number of accounts, devices, changes, *)
(* operations and top-ups.                                                 *)
(***************************************************************************)
EXTENDS E2eeClients, FiniteSetTheorems, WellFoundedInduction, TLAPS

-----------------------------------------------------------------------------
(* Shapes of groups and messages *)

Group == [id : Nat \cup Devices \cup {None}, epoch : Nat, leaves : SUBSET Devices]

Message == [id : Nat, key : Nat, sender : Devices, revision : Nat, seq : Nat,
            kind : {"commit", "welcome"}, to : SUBSET Devices, epoch : Nat,
            group : Group, from : Group]

(* A Commit is for the epoch of its group; a Welcome follows the Commit    *)
(* that led to its group.                                                  *)
Placed(cs, p) ==
    /\ cs[p].epoch = cs[p].group.epoch
    /\ cs[p].kind = "welcome" =>
          /\ p - 1 \in DOMAIN cs
          /\ cs[p - 1].kind = "commit" /\ cs[p - 1].group = cs[p].group

(* A list of controls with the ids after n. *)
ControlList(cs, n) ==
    /\ cs \in Seq(Message) /\ cs # <<>>
    /\ \A p \in DOMAIN cs : Placed(cs, p) /\ cs[p].id = n + p

-----------------------------------------------------------------------------
(* Positions: of r removals the p-th control is that of the p-th device;   *)
(* after them a Welcome is preceded by the Commit of its device.           *)
LEMMA Positions ==
    ASSUME NEW r \in Nat, NEW n \in Nat, NEW p \in 1 .. r + 2 * n
    PROVE  /\ DeviceOf(r, p) \in 1 .. r + n
           /\ ~IsCommit(r, p) => /\ p - 1 \in 1 .. r + 2 * n
                                 /\ IsCommit(r, p - 1) /\ DeviceOf(r, p - 1) = DeviceOf(r, p)
<1>1. DeviceOf(r, p) \in 1 .. r + n
  BY DEF DeviceOf
<1>2. ASSUME ~IsCommit(r, p)
      PROVE  /\ p - 1 \in 1 .. r + 2 * n
             /\ IsCommit(r, p - 1) /\ DeviceOf(r, p - 1) = DeviceOf(r, p)
  BY <1>2 DEF DeviceOf, IsCommit
<1>. QED
  BY <1>1, <1>2

(* The commit numbers are numbers. *)
LEMMA CommitNumber ==
    ASSUME NEW r \in Nat, NEW i \in Nat, i # 0
    PROVE  CommitOf(r, i) \in Nat
BY DEF CommitOf

(* What reconcileGroup and bootstrapRoom make is a list of controls with   *)
(* new ids.                                                                *)
LEMMA ControlsListed ==
    ASSUME made \in Nat, NEW d \in Devices, NEW revision \in Nat, NEW base \in Group,
           NEW removes \in Seq(Devices), NEW adds \in Seq(Devices),
           Len(removes) + Len(adds) > 0
    PROVE  ControlList(Controls(d, revision, base, removes, adds), made)
<1> DEFINE r   == Len(removes)
           n   == Len(adds)
           all == removes \o adds
           gone(i) == {all[k] : k \in {j \in 1 .. i : j <= r}}
           come(i) == {all[k] : k \in {j \in 1 .. i : j > r}}
           after(i) == IF i = 0 THEN base
                       ELSE Changed(base, made + CommitOf(r, i), i, gone(i), come(i))
           cs  == Controls(d, revision, base, removes, adds)
<1>1. r \in Nat /\ n \in Nat /\ r + 2 * n \in Nat /\ r + 2 * n > 0
  OBVIOUS
<1>2. all \in Seq(Devices) /\ Len(all) = r + n
  OBVIOUS
<1>3. \A i \in 0 .. r + n : after(i) \in Group
  <2> SUFFICES ASSUME NEW i \in 0 .. r + n PROVE after(i) \in Group
    OBVIOUS
  <2>1. CASE i = 0
    BY <2>1
  <2>2. CASE i # 0
    <3>1. \A k \in 1 .. i : all[k] \in Devices
      BY <1>1, <1>2, <2>2
    <3>2. come(i) \subseteq Devices
      BY <3>1
    <3>3. i \in Nat /\ CommitOf(r, i) \in Nat /\ base.epoch \in Nat
      BY CommitNumber, <1>1, <2>2 DEF Group
    <3>4. made + CommitOf(r, i) \in Nat /\ base.epoch + i \in Nat
      BY <3>3
    <3>. QED
      BY <2>2, <3>2, <3>4 DEF Group, Changed
  <2>. QED
    BY <2>1, <2>2
<1>4. cs = [p \in 1 .. r + 2 * n |->
               [id |-> made + p, key |-> made + p, sender |-> d, revision |-> revision, seq |-> 0,
                kind  |-> IF IsCommit(r, p) THEN "commit" ELSE "welcome",
                to    |-> IF IsCommit(r, p) THEN {} ELSE {all[DeviceOf(r, p)]},
                epoch |-> after(DeviceOf(r, p)).epoch, group |-> after(DeviceOf(r, p)),
                from |-> after(DeviceOf(r, p) - 1)]]
  BY DEF Controls
<1>. HIDE DEF after, all, cs, r, n
<1>5. ASSUME NEW p \in 1 .. r + 2 * n
      PROVE  cs[p] \in Message /\ Placed(cs, p) /\ cs[p].id = made + p
  <2>1. DeviceOf(r, p) \in 1 .. r + n
    BY Positions, <1>1, <1>5
  <2>2. after(DeviceOf(r, p)) \in Group /\ after(DeviceOf(r, p) - 1) \in Group
    BY <1>1, <1>3, <2>1
  <2>3. all[DeviceOf(r, p)] \in Devices
    BY <1>1, <1>2, <2>1
  <2>4. made + p \in Nat /\ after(DeviceOf(r, p)).epoch \in Nat
    BY <2>2, <1>1 DEF Group
  <2>5. cs[p] \in Message
    BY <1>4, <2>2, <2>3, <2>4 DEF Message
  <2>6. Placed(cs, p)
    <3>1. ASSUME cs[p].kind = "welcome"
          PROVE  p - 1 \in DOMAIN cs /\ cs[p - 1].kind = "commit" /\ cs[p - 1].group = cs[p].group
      <4>1. ~IsCommit(r, p)
        BY <3>1, <1>4
      <4>2. p - 1 \in 1 .. r + 2 * n /\ IsCommit(r, p - 1) /\ DeviceOf(r, p - 1) = DeviceOf(r, p)
        BY Positions, <4>1, <1>1
      <4>. QED
        BY <1>4, <4>2
    <3>. QED
      BY <1>4, <3>1 DEF Placed
  <2>. QED
    BY <1>4, <2>5, <2>6
<1>6. PICK N \in Nat : N = r + 2 * n /\ N > 0
  BY <1>1
<1>7. cs \in [1 .. N -> Message]
  BY <1>4, <1>5, <1>6
<1>8. cs \in Seq(Message) /\ DOMAIN cs = 1 .. N /\ Len(cs) = N
  BY <1>6, <1>7
<1>. QED
  BY <1>5, <1>6, <1>8 DEF ControlList, cs

-----------------------------------------------------------------------------
(* The devices of a set, in any order. *)
LEMMA OrdersListed ==
    ASSUME NEW S, S \subseteq Devices, NEW s \in Orders(S)
    PROVE  s \in Seq(Devices) /\ (S # {} => Len(s) > 0)
<1>1. IsFiniteSet(S)
  BY FS_Subset, DevicesAssumption
<1>2. PICK n \in Nat : n = Cardinality(S)
  BY <1>1, FS_CardinalityType
<1>3. S # {} => n > 0
  BY <1>1, <1>2, FS_EmptySet
<1>4. s \in [1 .. n -> S]
  BY <1>2 DEF Orders
<1>5. s \in Seq(S) /\ Len(s) = n
  BY <1>4
<1>. QED
  BY <1>3, <1>5

(* A set of numbers has a least one. *)
LEMMA Least ==
    ASSUME NEW T, T \subseteq Nat, T # {}
    PROVE  \E x \in T : \A y \in T : x <= y
<1>1. PICK x \in T : \A y \in T : <<y, x>> \notin OpToRel(<, Nat)
  BY WFMin, NatLessThanWellFounded
<1>2. \A y \in T : ~(y < x)
  BY <1>1 DEF OpToRel
<1>. QED
  BY <1>2

(* The first and the last message of a page are messages of the page.      *)
LEMMA FirstIn ==
    ASSUME NEW S, S \subseteq Message, S # {}
    PROVE  First(S) \in S
<1>1. \A m \in S : m.seq \in Nat
  BY DEF Message
<1>2. PICK x \in {m.seq : m \in S} : \A y \in {m.seq : m \in S} : x <= y
  <2>1. {m.seq : m \in S} \subseteq Nat /\ {m.seq : m \in S} # {}
    BY <1>1
  <2>. QED
    BY <2>1, Least
<1>3. \E m \in S : \A y \in S : m.seq <= y.seq
  BY <1>2
<1>. QED
  BY <1>3 DEF First

(* The last one, as their places are bounded, is a message of the page     *)
(* that none comes after.                                                  *)
LEMMA LastOf ==
    ASSUME NEW S, S \subseteq Message, S # {}, NEW n \in Nat, \A m \in S : m.seq <= n
    PROVE  Last(S) \in S /\ \A m \in S : m.seq <= Last(S).seq
<1>1. \A m \in S : m.seq \in Nat /\ n - m.seq \in Nat
  BY DEF Message
<1>2. PICK x \in {n - m.seq : m \in S} : \A y \in {n - m.seq : m \in S} : x <= y
  <2>1. {n - m.seq : m \in S} \subseteq Nat /\ {n - m.seq : m \in S} # {}
    BY <1>1
  <2>. QED
    BY <2>1, Least
<1>3. PICK m \in S : x = n - m.seq
  BY <1>2
<1>4. \A y \in S : y.seq <= m.seq
  <2> SUFFICES ASSUME NEW y \in S PROVE y.seq <= m.seq
    OBVIOUS
  <2>1. n - m.seq <= n - y.seq
    BY <1>2, <1>3
  <2>. QED
    BY <2>1, <1>1
<1>. QED
  BY <1>4 DEF Last

-----------------------------------------------------------------------------
(* The inductive invariant.  Its parts are stated of the messages L the    *)
(* server has and of the n ids drawn so far.                               *)

OnLog(L, g) == g = NoGroup \/ \E c \in L : c.kind = "commit" /\ c.group = g

(* There is one Commit per epoch, none beyond the active one, and every    *)
(* message is about a group some Commit led to.                            *)
LogInv(L, active, n) ==
    /\ IsFiniteSet(L)
    /\ \E b \in Nat : \A m \in L : m.seq <= b
    /\ \A m \in L : /\ m.id <= n
                    /\ m.epoch = m.group.epoch /\ 0 < m.epoch /\ m.epoch <= active
                    /\ \E c \in L : c.kind = "commit" /\ c.group = m.group
    /\ \A m, c \in L : m.kind = "commit" /\ c.kind = "commit" /\ m.epoch = c.epoch => m = c

(* The server has nothing but a control under its id.                      *)
SameAs(x, c) ==
    x.id = c.id => /\ x.kind = c.kind /\ x.sender = c.sender
                   /\ x.group = c.group /\ x.from = c.from

GroupOpInv(L, n, op) ==
    /\ \E k \in Nat : ControlList(op.controls, k) /\ k + Len(op.controls) <= n
    /\ op.group = op.controls[Len(op.controls)].group
    /\ op.previous \in Group /\ OnLog(L, op.previous)
    /\ op.kind = "rekey" => op.previous # NoGroup
    /\ \A x \in L, p \in DOMAIN op.controls : SameAs(x, op.controls[p])

OpInv(L, n, op) ==
    /\ op.kind \in Kinds
    /\ op.kind \in GroupKinds => GroupOpInv(L, n, op)
    /\ op.kind = "inbound" => /\ op.cursor \in Nat /\ op.cursor > 0
                              /\ op.group \in Group /\ OnLog(L, op.group)
    /\ op.kind = "application" => /\ op.key \in Nat /\ op.control # None
                                  /\ op.group \in Group /\ op.group # NoGroup /\ OnLog(L, op.group)

(* A call submits the controls in their order, and writes what a group     *)
(* operation leads to once the server has them all.                        *)
InLog(L, c) == \E x \in L : x.id = c.id

CallInv(L, op, c) ==
    /\ c.pc = "submit" =>
          /\ op.kind \in GroupKinds /\ c.next \in DOMAIN op.controls
          /\ \A p \in DOMAIN op.controls : p < c.next => InLog(L, op.controls[p])
    /\ c.pc \in {"check", "restore", "drop"} => op.kind = "rekey"
    /\ c.pc = "send" => op.kind = "application"
    /\ c.pc = "profile" => op.kind \in GroupKinds \cup {"inbound"}
    /\ c.pc \in {"write", "delete"} => op.kind \in Kinds
    /\ c.pc \in {"write", "profile", "delete"} /\ op.kind \in GroupKinds =>
          \A p \in DOMAIN op.controls : InLog(L, op.controls[p])

Working == {"submit", "check", "restore", "drop", "write", "profile", "delete", "send"}

Busy(d) == pending[d] # NoOperation \/ call[d].pc \in Working

(* No two devices draw the same id. *)
Distinct(op, other) ==
    op.kind \in GroupKinds /\ other.kind \in GroupKinds =>
        \A p \in DOMAIN op.controls, q \in DOMAIN other.controls :
            op.controls[p].id # other.controls[q].id

Places == Working \cup {"idle", "reconcile", "rekey", "list", "epoch", "bootstrap"}

CallRecord == [pc : Places, then : {"end", "reconcile", "list", "epoch"}, next : Nat, revision : Nat]

EpochRow == [revision : Nat, active : Nat, status : {"preparing", "active", "rekey_required"}]

Types ==
    /\ members \subseteq Users /\ trusted \subseteq Devices /\ astray \subseteq Devices
    /\ made \in Nat /\ topUps \in 0 .. MaxTopUps
    /\ epoch \in [{Room} -> EpochRow]
    /\ log \in [{Room} -> SUBSET Message]
    /\ sent \subseteq [key : Nat, group : Group]
    /\ group \in [Devices -> Group]
    /\ topUp \in [Devices -> Group \cup {None}]
    /\ DOMAIN profile = Devices /\ \A d \in Devices : profile[d].cursor \in Nat
    /\ DOMAIN pending = Devices
    /\ call \in [Devices -> CallRecord]

Inv ==
    /\ Types
    /\ LogInv(log[Room], Row.active, made)
    /\ \A d \in Devices : OnLog(log[Room], group[d])
    /\ \A d \in Devices : topUp[d] # None => OnLog(log[Room], topUp[d])
    /\ \A s \in sent : OnLog(log[Room], s.group)
    /\ \A d \in Devices : Busy(d) => OpInv(log[Room], made, pending[d])
    /\ \A d \in Devices : CallInv(log[Room], pending[d], call[d])
    /\ \A d, e \in Devices : d # e /\ Busy(d) /\ Busy(e) => Distinct(pending[d], pending[e])

-----------------------------------------------------------------------------
(* Groups and calls at the start are of their types.                       *)
LEMMA NoGroupTyped == NoGroup \in Group /\ \A d \in Devices : Root(d) \in Group
BY DEF NoGroup, Root, Group

(* So is a device that does nothing.                                       *)
LEMMA IdleTyped == Idle \in CallRecord
BY DEF Idle, At, CallRecord, Places

(* The invariant holds at the start.                                       *)
LEMMA InvInit == Init => Inv
<1>. SUFFICES ASSUME Init PROVE Inv
  OBVIOUS
<1>. USE DEF Init
<1>1. Types
  <2>1. epoch \in [{Room} -> EpochRow]
    BY DEF EpochRow
  <2>2. group \in [Devices -> Group] /\ topUp \in [Devices -> Group \cup {None}]
    BY NoGroupTyped
  <2>3. call \in [Devices -> CallRecord]
    BY IdleTyped
  <2>4. DOMAIN profile = Devices /\ \A d \in Devices : profile[d].cursor \in Nat
    OBVIOUS
  <2>. QED
    BY <2>1, <2>2, <2>3, <2>4, MembersAssumption, BoundAssumption DEF Types
<1>2. log[Room] = {}
  OBVIOUS
<1>3. LogInv(log[Room], Row.active, made)
  BY <1>2, FS_EmptySet DEF LogInv
<1>4. \A d \in Devices : ~Busy(d)
  BY DEF Busy, Idle, At, Working
<1>5. \A d \in Devices : CallInv(log[Room], pending[d], call[d])
  BY DEF CallInv, Idle, At
<1>. QED
  BY <1>1, <1>3, <1>4, <1>5 DEF Inv, OnLog

(* What is known of fewer messages and ids stays known of more.            *)
LEMMA OpKept ==
    ASSUME NEW L, NEW M, L \subseteq M, NEW n \in Nat, NEW k \in Nat, n <= k,
           NEW op, OpInv(L, n, op),
           op.kind \in GroupKinds =>
              \A x \in M \ L, p \in DOMAIN op.controls : SameAs(x, op.controls[p])
    PROVE  OpInv(M, k, op)
<1>1. \A g : OnLog(L, g) => OnLog(M, g)
  BY DEF OnLog
<1>2. ASSUME op.kind \in GroupKinds PROVE GroupOpInv(M, k, op)
  <2>1. GroupOpInv(L, n, op)
    BY <1>2 DEF OpInv
  <2>2. PICK i \in Nat : ControlList(op.controls, i) /\ i + Len(op.controls) <= n
    BY <2>1 DEF GroupOpInv
  <2>3. i + Len(op.controls) <= k
    <3>1. Len(op.controls) \in Nat
      BY <2>2 DEF ControlList
    <3>. QED
      BY <2>2, <3>1
  <2>4. \A x \in M, p \in DOMAIN op.controls : SameAs(x, op.controls[p])
    BY <2>1, <1>2 DEF GroupOpInv
  <2>. QED
    BY <1>1, <2>1, <2>2, <2>3, <2>4 DEF GroupOpInv
<1>. QED
  BY <1>1, <1>2 DEF OpInv

(* So does what a call relies on.                                          *)
LEMMA CallKept ==
    ASSUME NEW L, NEW M, L \subseteq M, NEW op, NEW c, CallInv(L, op, c)
    PROVE  CallInv(M, op, c)
<1>1. \A x : InLog(L, x) => InLog(M, x)
  BY DEF InLog
<1>. QED
  BY <1>1 DEF CallInv

(* A step of one device that leaves the messages of the server alone.      *)
Alone(d) ==
    /\ log' = log /\ epoch'[Room].active = Row.active /\ made <= made'
    /\ \A e \in Devices \ {d} : /\ group'[e] = group[e] /\ pending'[e] = pending[e]
                               /\ call'[e] = call[e]
    /\ \A e \in Devices : topUp'[e] # None => topUp'[e] = topUp[e] \/ OnLog(log[Room], topUp'[e])
    /\ \A s \in sent' : OnLog(log[Room], s.group)
    /\ OnLog(log[Room], group'[d])
    /\ CallInv(log[Room], pending'[d], call'[d])
    /\ pending'[d] # NoOperation \/ call'[d].pc \in Working =>
          \/ Busy(d) /\ pending'[d] = pending[d]
          \/ /\ OpInv(log[Room], made', pending'[d])
             /\ pending'[d].kind \in GroupKinds =>
                   \A p \in DOMAIN pending'[d].controls : pending'[d].controls[p].id > made

(* The ids of a device's controls have been drawn.                         *)
LEMMA OwnIds ==
    ASSUME NEW L, NEW n \in Nat, NEW op, GroupOpInv(L, n, op)
    PROVE  \A p \in DOMAIN op.controls : op.controls[p].id \in Nat /\ op.controls[p].id <= n
<1>1. PICK k \in Nat : ControlList(op.controls, k) /\ k + Len(op.controls) <= n
  BY DEF GroupOpInv
<1>2. PICK m \in Nat : m = Len(op.controls) /\ DOMAIN op.controls = 1 .. m
  BY <1>1 DEF ControlList
<1>. QED
  BY <1>1, <1>2 DEF ControlList

(* Such a step keeps the invariant: it changes what one device knows, and  *)
(* a new operation has ids nobody else has.                                *)
LEMMA AloneKeeps ==
    ASSUME Inv, Types', NEW d \in Devices, Alone(d)
    PROVE  Inv'
<1>. USE DEF Inv
<1>0. made \in Nat /\ made' \in Nat /\ made <= made'
  BY DEF Types, Alone
<1>1. LogInv(log[Room], Row.active, made)'
  <2>1. \A m \in log[Room] : m.id \in Nat
    BY DEF Types, Message
  <2>. QED
    BY <1>0, <2>1 DEF LogInv, Alone, Row
<1>2. \A e \in Devices : OnLog(log[Room], group[e])'
  BY DEF Alone
<1>3. \A e \in Devices : (topUp[e] # None => OnLog(log[Room], topUp[e]))'
  BY DEF Alone
<1>4. \A s \in sent' : OnLog(log'[Room], s.group)
  BY DEF Alone
<1>5. \A e \in Devices : Busy(e)' =>
          \/ Busy(e) /\ pending'[e] = pending[e]
          \/ /\ e = d /\ OpInv(log[Room], made', pending'[e])
             /\ pending'[e].kind \in GroupKinds =>
                   \A p \in DOMAIN pending'[e].controls : pending'[e].controls[p].id > made
  BY DEF Alone, Busy
<1>6. \A e \in Devices : (Busy(e) => OpInv(log[Room], made, pending[e]))'
  BY <1>0, <1>5, OpKept DEF Alone
<1>7. \A e \in Devices : CallInv(log[Room], pending[e], call[e])'
  BY DEF Alone
<1>8. ASSUME NEW e \in Devices, NEW f \in Devices, e # f, Busy(e)', Busy(f)'
      PROVE  Distinct(pending'[e], pending'[f])
  <2>1. \A x \in Devices : Busy(x) /\ pending[x].kind \in GroupKinds =>
            \A p \in DOMAIN pending[x].controls :
                pending[x].controls[p].id \in Nat /\ pending[x].controls[p].id <= made
    BY <1>0, OwnIds DEF OpInv
  <2>2. \A x \in Devices : Busy(x)' /\ pending'[x].kind \in GroupKinds =>
            \A p \in DOMAIN pending'[x].controls : pending'[x].controls[p].id \in Nat
    BY <1>0, <1>6, OwnIds DEF OpInv
  <2>3. CASE e # d /\ f # d
    BY <1>5, <1>8, <2>3
  <2>4. CASE e = d
    BY <1>0, <1>5, <1>8, <2>1, <2>2, <2>4 DEF Distinct
  <2>5. CASE f = d
    BY <1>0, <1>5, <1>8, <2>1, <2>2, <2>5 DEF Distinct
  <2>. QED
    BY <2>3, <2>4, <2>5
<1>. QED
  BY <1>1, <1>2, <1>3, <1>4, <1>6, <1>7, <1>8

-----------------------------------------------------------------------------
(* One lemma per action. *)

(* Members, devices and the row that asks for a rekey change. *)
LEMMA MembershipKeeps == Inv /\ Membership => Inv'
<1>. SUFFICES ASSUME Inv, Membership PROVE Inv'
  OBVIOUS
<1>1. /\ epoch' \in [{Room} -> EpochRow] /\ epoch'[Room].active = Row.active
      /\ members' \subseteq Users /\ trusted' \subseteq Devices /\ astray' \subseteq Devices
      /\ UNCHANGED <<log, sent, storage, call, topUp, topUps, made>>
  <2>1. epoch \in [{Room} -> EpochRow]
    BY DEF Inv, Types
  <2>2. ASSUME BumpRevision
        PROVE  epoch' \in [{Room} -> EpochRow] /\ epoch'[Room].active = Row.active
    BY <2>1, <2>2 DEF BumpRevision, EpochRow, Row
  <2>3. CASE \E u \in Users : AddMember(u)
    BY <2>2, <2>3 DEF AddMember, Inv, Types
  <2>4. CASE \E u \in Users : RemoveMember(u)
    BY <2>2, <2>4 DEF RemoveMember, Inv, Types
  <2>5. CASE \E d \in Devices : Revoke(d)
    BY <2>1, <2>5 DEF Revoke, Inv, Types, EpochRow, Row
  <2>. QED
    BY <2>3, <2>4, <2>5 DEF Membership
<1>2. Types'
  BY <1>1 DEF Inv, Types, storage
<1>. QED
  BY <1>1, <1>2 DEF Inv, Busy, storage, LogInv, Row

(* Where a step leaves a call. *)
LEMMA Gone ==
    ASSUME Inv, NEW d \in Devices, NEW pc \in Places, Goto(d, pc)
    PROVE  /\ call' \in [Devices -> CallRecord]
           /\ call'[d].pc = pc /\ call'[d].next = call[d].next
           /\ \A e \in Devices \ {d} : call'[e] = call[e]
<1>1. call \in [Devices -> CallRecord]
  BY DEF Inv, Types
<1>2. /\ [call[d] EXCEPT !.pc = pc] \in CallRecord
      /\ [call[d] EXCEPT !.pc = pc].pc = pc /\ [call[d] EXCEPT !.pc = pc].next = call[d].next
  BY <1>1 DEF CallRecord
<1>3. call' = [call EXCEPT ![d] = [call[d] EXCEPT !.pc = pc]]
  BY <1>1 DEF Goto
<1>. QED
  BY <1>1, <1>2, <1>3

(* A call is set as a whole. *)
LEMMA Set ==
    ASSUME Inv, NEW d \in Devices, NEW c \in CallRecord, call' = [call EXCEPT ![d] = c]
    PROVE  /\ call' \in [Devices -> CallRecord] /\ call'[d] = c
           /\ \A e \in Devices \ {d} : call'[e] = call[e]
BY DEF Inv, Types

(* A call that has just come somewhere. *)
LEMMA AtTyped ==
    ASSUME NEW pc \in Places
    PROVE  At(pc) \in CallRecord /\ At(pc).pc = pc /\ At(pc).next = 1
BY DEF At, CallRecord

(* A step that changes nothing but the call of a device. *)
LEMMA CallOnly ==
    ASSUME Inv, NEW d \in Devices, UNCHANGED <<server, storage, topUp, topUps, made, astray>>,
           call' \in [Devices -> CallRecord], \A e \in Devices \ {d} : call'[e] = call[e],
           CallInv(log[Room], pending[d], call'[d]), call'[d].pc \in Working => Busy(d)
    PROVE  Inv'
<1>1. Types'
  BY DEF Inv, Types, server, storage
<1>2. Alone(d)
  <2>1. made <= made'
    BY DEF Inv, Types
  <2>. QED
    BY <2>1 DEF Inv, Alone, server, storage, Row, Busy
<1>. QED
  BY <1>1, <1>2, AloneKeeps

(* A call ends. *)
LEMMA ReturnKeeps ==
    ASSUME Inv, NEW d \in Devices, Return(d),
           UNCHANGED <<server, storage, topUp, topUps, made, astray>>
    PROVE  Inv'
<1>1. Idle \in CallRecord /\ Idle.pc = "idle"
  BY IdleTyped DEF Idle, At
<1>2. call' \in [Devices -> CallRecord] /\ call'[d] = Idle /\ \A e \in Devices \ {d} : call'[e] = call[e]
  BY <1>1, Set DEF Return
<1>3. CallInv(log[Room], pending[d], call'[d]) /\ call'[d].pc \notin Working
  BY <1>1, <1>2 DEF CallInv, Working
<1>. QED
  BY <1>2, <1>3, CallOnly

(* To a place where no operation is needed. *)
LEMMA GotoKeeps ==
    ASSUME Inv, NEW d \in Devices, NEW pc \in Places \ Working, Goto(d, pc),
           UNCHANGED <<server, storage, topUp, topUps, made, astray>>
    PROVE  Inv'
<1>1. /\ call' \in [Devices -> CallRecord] /\ call'[d].pc = pc
      /\ \A e \in Devices \ {d} : call'[e] = call[e]
  BY Gone
<1>2. CallInv(log[Room], pending[d], call'[d]) /\ call'[d].pc \notin Working
  BY <1>1 DEF CallInv, Working
<1>. QED
  BY <1>1, <1>2, CallOnly

(* A call takes up an operation from its start. *)
LEMMA Resumed ==
    ASSUME NEW L, NEW op, NEW then \in {"end", "reconcile", "list", "epoch"}, op.kind \in Kinds,
           op.kind \in GroupKinds => 1 \in DOMAIN op.controls /\ DOMAIN op.controls \subseteq Nat \ {0}
    PROVE  /\ Resume(op, then) \in CallRecord /\ CallInv(L, op, Resume(op, then))
           /\ Resume(op, then).pc \in Working
<1>1. PICK pc \in {"submit", "write", "send"} :
          /\ Resume(op, then) = [At(pc) EXCEPT !.then = then]
          /\ pc = "submit" => op.kind \in GroupKinds
          /\ pc = "write" => op.kind = "inbound"
          /\ pc = "send" => op.kind = "application"
  <2>1. CASE op.kind \in GroupKinds
    BY <2>1 DEF Resume, Kinds, GroupKinds
  <2>2. CASE op.kind = "inbound"
    BY <2>2 DEF Resume, Kinds, GroupKinds
  <2>3. CASE op.kind = "application"
    BY <2>3 DEF Resume, Kinds, GroupKinds
  <2>. QED
    BY <2>1, <2>2, <2>3 DEF Kinds
<1>2. Resume(op, then) = [pc |-> pc, then |-> then, next |-> 1, revision |-> 0]
  BY <1>1 DEF At
<1>3. Resume(op, then) \in CallRecord /\ Resume(op, then).pc \in Working
  <2>1. pc \in Places /\ pc \in Working
    BY <1>1 DEF Places, Working
  <2>2. [pc |-> pc, then |-> then, next |-> 1, revision |-> 0] \in CallRecord
    BY <2>1 DEF CallRecord
  <2>. QED
    BY <1>2, <2>1, <2>2
<1>4. Resume(op, then).pc = pc /\ Resume(op, then).next = 1
  BY <1>2
<1>5. CASE pc = "submit"
  <2>1. \A p \in DOMAIN op.controls : ~(p < 1)
    BY <1>1, <1>5
  <2>. QED
    BY <1>1, <1>3, <1>4, <1>5, <2>1 DEF CallInv
<1>6. CASE pc = "write"
  BY <1>1, <1>3, <1>4, <1>6 DEF CallInv, Kinds, GroupKinds
<1>7. CASE pc = "send"
  BY <1>1, <1>3, <1>4, <1>7 DEF CallInv
<1>. QED
  BY <1>1, <1>5, <1>6, <1>7

(* The controls of a pending operation. *)
LEMMA OwnControls ==
    ASSUME NEW L, NEW n, NEW op, GroupOpInv(L, n, op)
    PROVE  \E m \in Nat : /\ m > 0 /\ Len(op.controls) = m /\ DOMAIN op.controls = 1 .. m
                          /\ \A p \in 1 .. m : op.controls[p] \in Message /\ Placed(op.controls, p)
<1>1. PICK k \in Nat : ControlList(op.controls, k)
  BY DEF GroupOpInv
<1>2. PICK m \in Nat : m = Len(op.controls) /\ DOMAIN op.controls = 1 .. m
  BY <1>1 DEF ControlList
<1>. QED
  BY <1>1, <1>2 DEF ControlList

(* A call begins, with its pending operation if there is one. *)
LEMMA StartKeeps == ASSUME Inv, NEW d \in Devices, Start(d) PROVE Inv'
<1>. DEFINE op == pending[d]
<1>1. CASE op = NoOperation
  <2>1. call' = [call EXCEPT ![d] = At("reconcile")]
    BY <1>1 DEF Start
  <2>2. "reconcile" \in Places /\ "reconcile" \notin Working
    BY DEF Places, Working
  <2>3. /\ call' \in [Devices -> CallRecord] /\ call'[d] = At("reconcile")
        /\ \A e \in Devices \ {d} : call'[e] = call[e]
    BY <2>1, <2>2, AtTyped, Set
  <2>4. CallInv(log[Room], op, call'[d]) /\ call'[d].pc \notin Working
    BY <2>2, <2>3, AtTyped DEF CallInv
  <2>. QED
    BY <2>3, <2>4, CallOnly DEF Start
<1>2. CASE op # NoOperation
  <2>1. OpInv(log[Room], made, op)
    BY <1>2 DEF Inv, Busy
  <2>2. op.kind \in Kinds
    BY <2>1 DEF OpInv
  <2>3. op.kind \in GroupKinds => 1 \in DOMAIN op.controls /\ DOMAIN op.controls \subseteq Nat \ {0}
    BY <2>1, OwnControls DEF OpInv
  <2>4. PICK then \in {"end", "reconcile"} : call' = [call EXCEPT ![d] = Resume(op, then)]
    BY <1>2 DEF Start
  <2>5. /\ Resume(op, then) \in CallRecord /\ CallInv(log[Room], op, Resume(op, then))
        /\ Resume(op, then).pc \in Working
    BY <2>2, <2>3, Resumed
  <2>6. /\ call' \in [Devices -> CallRecord] /\ call'[d] = Resume(op, then)
        /\ \A e \in Devices \ {d} : call'[e] = call[e]
    BY <2>4, <2>5, Set
  <2>. QED
    BY <1>2, <2>5, <2>6, CallOnly DEF Start, Busy
<1>. QED
  BY <1>1, <1>2

(* A call that stops leaves its device idle.                               *)
LEMMA AbandonKeeps == ASSUME Inv, NEW d \in Devices, Abandon(d) PROVE Inv'
BY ReturnKeeps DEF Abandon

(* Where a call goes after reading the room changes no record.             *)
LEMMA ReadEpochKeeps == ASSUME Inv, NEW d \in Devices, ReadEpoch(d) PROVE Inv'
<1>0. "rekey" \in Places \ Working /\ "list" \in Places \ Working
  BY DEF Places, Working
<1>1. CASE Goto(d, "list")
  BY <1>0, <1>1, GotoKeeps DEF ReadEpoch
<1>2. CASE call' = [call EXCEPT ![d].pc = "rekey", ![d].revision = Row.revision]
  <2>1. call[d] \in CallRecord /\ Row.revision \in Nat
    BY DEF Inv, Types, EpochRow, Row
  <2>2. PICK c : c = [call[d] EXCEPT !.pc = "rekey", !.revision = Row.revision]
    OBVIOUS
  <2>3. c \in CallRecord /\ c.pc = "rekey"
    BY <1>0, <2>1, <2>2 DEF CallRecord
  <2>4. call' = [call EXCEPT ![d] = c]
    BY <1>2, <2>2 DEF Inv, Types
  <2>5. call' \in [Devices -> CallRecord] /\ call'[d] = c /\ \A e \in Devices \ {d} : call'[e] = call[e]
    BY <2>3, <2>4, Set
  <2>6. CallInv(log[Room], pending[d], call'[d]) /\ call'[d].pc \notin Working
    BY <1>0, <2>3, <2>5 DEF CallInv
  <2>. QED
    BY <2>5, <2>6, CallOnly DEF ReadEpoch
<1>. QED
  BY <1>1, <1>2 DEF ReadEpoch

(* A call at a place where it works on its operation. *)
LEMMA AtWork ==
    ASSUME Inv, NEW d \in Devices, call[d].pc \in Working
    PROVE  /\ Busy(d) /\ OpInv(log[Room], made, pending[d])
           /\ CallInv(log[Room], pending[d], call[d])
BY DEF Inv, Busy

(* A submission fails: the call ends, or a rekey looks at the room. *)
LEMMA FailedKeeps ==
    ASSUME Inv, NEW d \in Devices, call[d].pc = "submit", Failed(d),
           UNCHANGED <<server, storage, topUp, topUps, made, astray>>
    PROVE  Inv'
<1>1. CASE Return(d)
  BY <1>1, ReturnKeeps
<1>2. CASE pending[d].kind = "rekey" /\ Goto(d, "check")
  <2>1. "check" \in Places /\ "submit" \in Working
    BY DEF Places, Working
  <2>2. /\ call' \in [Devices -> CallRecord] /\ call'[d].pc = "check"
        /\ \A e \in Devices \ {d} : call'[e] = call[e]
    BY <1>2, <2>1, Gone
  <2>3. CallInv(log[Room], pending[d], call'[d])
    BY <1>2, <2>2 DEF CallInv
  <2>. QED
    BY <2>1, <2>2, <2>3, AtWork, CallOnly
<1>. QED
  BY <1>1, <1>2 DEF Failed

(* A refused control is a failed one.                                      *)
LEMMA SubmitRefusedKeeps == ASSUME Inv, NEW d \in Devices, SubmitRefused(d) PROVE Inv'
BY FailedKeeps DEF SubmitRefused

(* Looking at a failed rekey changes no record.                            *)
LEMMA CheckRekeyKeepsInv == ASSUME Inv, NEW d \in Devices, CheckRekey(d) PROVE Inv'
<1>1. CASE Return(d)
  BY <1>1, ReturnKeeps DEF CheckRekey
<1>2. CASE Goto(d, "restore")
  <2>1. "restore" \in Places /\ "check" \in Working
    BY DEF Places, Working
  <2>2. /\ call' \in [Devices -> CallRecord] /\ call'[d].pc = "restore"
        /\ \A e \in Devices \ {d} : call'[e] = call[e]
    BY <1>2, <2>1, Gone
  <2>3. Busy(d) /\ pending[d].kind = "rekey"
    BY <2>1, AtWork DEF CheckRekey, CallInv
  <2>4. CallInv(log[Room], pending[d], call'[d])
    BY <2>2, <2>3 DEF CallInv
  <2>. QED
    BY <2>2, <2>3, <2>4, CallOnly DEF CheckRekey
<1>. QED
  BY <1>1, <1>2 DEF CheckRekey

(* A device begins a bootstrap or a rekey: its controls are new. *)
LEMMA BeginKeeps ==
    ASSUME Inv, NEW d \in Devices, NEW kind \in GroupKinds, NEW cs, ControlList(cs, made),
           NEW previous \in Group, OnLog(log[Room], previous), kind = "rekey" => previous # NoGroup,
           NEW then \in {"end", "reconcile", "list", "epoch"},
           Begin(d, GroupOperation(kind, cs, previous), then, Len(cs)),
           UNCHANGED <<server, group, profile, topUp, topUps, astray>>
    PROVE  Inv'
<1>1. PICK op : op = GroupOperation(kind, cs, previous)
  OBVIOUS
<1>2. /\ op.kind = kind /\ op.controls = cs /\ op.previous = previous
      /\ op.group = cs[Len(cs)].group
  BY <1>1 DEF GroupOperation
<1>3. PICK m \in Nat : m > 0 /\ Len(cs) = m /\ DOMAIN cs = 1 .. m
  BY DEF ControlList
<1>4. made \in Nat /\ made' = made + m /\ pending' = [pending EXCEPT ![d] = op]
      /\ call' = [call EXCEPT ![d] = Resume(op, then)]
  BY <1>1, <1>3 DEF Begin, Inv, Types
<1>5. \A x \in log[Room], p \in DOMAIN cs : SameAs(x, cs[p])
  <2>1. \A x \in log[Room] : x.id \in Nat /\ x.id <= made
    BY DEF Inv, Types, LogInv, Message
  <2>2. \A p \in 1 .. m : cs[p].id = made + p
    BY <1>3 DEF ControlList
  <2>. QED
    BY <1>3, <1>4, <2>1, <2>2 DEF SameAs
<1>6. OpInv(log[Room], made', op)
  <2>1. made \in Nat /\ ControlList(cs, made) /\ made + Len(cs) <= made'
    BY <1>3, <1>4
  <2>2. GroupOpInv(log[Room], made', op)
    BY <1>2, <1>5, <2>1 DEF GroupOpInv
  <2>. QED
    BY <1>2, <2>2 DEF OpInv, Kinds, GroupKinds
<1>7. /\ Resume(op, then) \in CallRecord /\ CallInv(log[Room], op, Resume(op, then))
      /\ Resume(op, then).pc \in Working
  <2>1. op.kind \in Kinds
    BY <1>2 DEF Kinds
  <2>2. 1 \in DOMAIN op.controls /\ DOMAIN op.controls \subseteq Nat \ {0}
    BY <1>2, <1>3
  <2>. QED
    BY <2>1, <2>2, Resumed
<1>8. /\ call' \in [Devices -> CallRecord] /\ call'[d] = Resume(op, then)
      /\ \A e \in Devices \ {d} : call'[e] = call[e]
  BY <1>4, <1>7, Set
<1>9. /\ pending'[d] = op /\ DOMAIN pending' = Devices
      /\ \A e \in Devices \ {d} : pending'[e] = pending[e]
  BY <1>4 DEF Inv, Types
<1>10. Types'
  BY <1>3, <1>4, <1>8, <1>9 DEF Inv, Types, server
<1>11. Alone(d)
  <2>1. \A p \in DOMAIN op.controls : op.controls[p].id > made
    BY <1>2, <1>3, <1>4 DEF ControlList
  <2>2. made <= made'
    BY <1>3, <1>4
  <2>3. log' = log /\ epoch' = epoch /\ group' = group /\ topUp' = topUp /\ sent' = sent
    BY DEF server
  <2>. QED
    BY <1>6, <1>7, <1>8, <1>9, <2>1, <2>2, <2>3 DEF Inv, Alone, Row
<1>. QED
  BY <1>10, <1>11, AloneKeeps

(* A rekey starts from a group on the log, with new ids.                   *)
LEMMA ReconcileKeeps == ASSUME Inv, NEW d \in Devices, Reconcile(d) PROVE Inv'
<1>. DEFINE toRemove == group[d].leaves \ MemberDevices
            toAdd    == MemberDevices \ group[d].leaves
<1>1. group[d] \in Group /\ OnLog(log[Room], group[d])
  BY DEF Inv, Types
<1>2. CASE toRemove \cup toAdd = {}
  <2>1. "list" \in Places \ Working
    BY DEF Places, Working
  <2>2. Goto(d, "list") /\ UNCHANGED <<server, storage, topUp, topUps, made, astray>>
    BY <1>2 DEF Reconcile, storage
  <2>. QED
    BY <2>1, <2>2, GotoKeeps
<1>3. CASE toRemove \cup toAdd # {}
  <2>1. PICK removes \in Orders(toRemove), adds \in Orders(toAdd) :
            LET cs == Controls(d, call[d].revision, group[d], removes, adds)
            IN  Begin(d, GroupOperation("rekey", cs, group[d]), "list", Len(cs))
    BY <1>3 DEF Reconcile
  <2>2. /\ removes \in Seq(Devices) /\ adds \in Seq(Devices)
        /\ toRemove # {} => Len(removes) > 0
        /\ toAdd # {} => Len(adds) > 0
    <3>1. toRemove \subseteq Devices /\ toAdd \subseteq Devices
      BY <1>1 DEF Group, MemberDevices
    <3>. QED
      BY <3>1, <2>1, OrdersListed
  <2>3. Len(removes) + Len(adds) > 0
    <3>1. Len(removes) \in Nat /\ Len(adds) \in Nat
      BY <2>2
    <3>. QED
      BY <1>3, <2>2, <3>1
  <2>4. made \in Nat /\ call[d].revision \in Nat
    BY DEF Inv, Types, CallRecord
  <2>5. PICK cs : cs = Controls(d, call[d].revision, group[d], removes, adds)
    OBVIOUS
  <2>6. ControlList(cs, made)
    BY <1>1, <2>2, <2>3, <2>4, <2>5, ControlsListed
  <2>7. Begin(d, GroupOperation("rekey", cs, group[d]), "list", Len(cs))
    BY <2>1, <2>5
  <2>8. group[d] # NoGroup
    BY DEF Reconcile, NoGroup
  <2>9. "rekey" \in GroupKinds /\ "list" \in {"end", "reconcile", "list", "epoch"}
    BY DEF GroupKinds
  <2>10. UNCHANGED <<server, group, profile, topUp, topUps, astray>>
    BY DEF Reconcile
  <2>. QED
    BY <1>1, <2>6, <2>7, <2>8, <2>9, <2>10, BeginKeeps
<1>. QED
  BY <1>2, <1>3

(* A bootstrap starts from no group, with new ids.                         *)
LEMMA BootstrapKeeps == ASSUME Inv, NEW d \in Devices, Bootstrap(d) PROVE Inv'
<1>. DEFINE others == {e \in MemberDevices : Owner[e] # Owner[d]}
<1>1. PICK adds \in Orders(others) :
          LET cs == Controls(d, call[d].revision, Root(d), <<>>, adds)
          IN  Begin(d, GroupOperation("bootstrap", cs, NoGroup), "epoch", Len(cs))
  BY DEF Bootstrap
<1>2. adds \in Seq(Devices) /\ Len(adds) > 0
  BY <1>1, OrdersListed DEF Bootstrap, MemberDevices
<1>3. made \in Nat /\ call[d].revision \in Nat
  BY DEF Inv, Types, CallRecord
<1>4. PICK none \in Seq(Devices) : none = <<>> /\ Len(none) = 0
  <2>1. <<>> \in Seq(Devices) /\ Len(<<>>) = 0
    OBVIOUS
  <2>. QED
    BY <2>1
<1>5. Len(none) + Len(adds) > 0
  BY <1>2, <1>4
<1>6. PICK cs : cs = Controls(d, call[d].revision, Root(d), none, adds)
  OBVIOUS
<1>7. ControlList(cs, made)
  BY <1>2, <1>3, <1>4, <1>5, <1>6, ControlsListed, NoGroupTyped
<1>8. Begin(d, GroupOperation("bootstrap", cs, NoGroup), "epoch", Len(cs))
  BY <1>1, <1>4, <1>6
<1>9. "bootstrap" \in GroupKinds /\ "epoch" \in {"end", "reconcile", "list", "epoch"}
  BY DEF GroupKinds
<1>10. OnLog(log[Room], NoGroup)
  BY DEF OnLog
<1>11. UNCHANGED <<server, group, profile, topUp, topUps, astray>>
  BY DEF Bootstrap
<1>. QED
  BY <1>7, <1>8, <1>9, <1>10, <1>11, BeginKeeps, NoGroupTyped

(* The state before a rekey is one of a group on the log, too. *)
LEMMA RestoreStateKeeps == ASSUME Inv, NEW d \in Devices, RestoreState(d) PROVE Inv'
<1>1. call[d].pc = "restore" /\ "restore" \in Working /\ "drop" \in Places
  BY DEF RestoreState, Working, Places
<1>2. Busy(d) /\ pending[d].kind = "rekey" /\ OpInv(log[Room], made, pending[d])
  BY <1>1, AtWork DEF CallInv
<1>3. pending[d].previous \in Group /\ OnLog(log[Room], pending[d].previous)
  BY <1>2 DEF OpInv, GroupOpInv, GroupKinds
<1>4. /\ call' \in [Devices -> CallRecord] /\ call'[d].pc = "drop"
      /\ \A e \in Devices \ {d} : call'[e] = call[e]
  BY <1>1, Gone DEF RestoreState
<1>5. /\ group' \in [Devices -> Group] /\ group'[d] = pending[d].previous
      /\ \A e \in Devices \ {d} : group'[e] = group[e]
  BY <1>3 DEF RestoreState, Inv, Types
<1>6. astray' \subseteq Devices
  BY DEF RestoreState, Inv, Types
<1>7. UNCHANGED <<server, profile, pending, topUp, topUps, made>>
  BY DEF RestoreState
<1>8. Types'
  BY <1>4, <1>5, <1>6, <1>7 DEF Inv, Types, server
<1>9. CallInv(log[Room], pending[d], call'[d])
  BY <1>2, <1>4 DEF CallInv
<1>10. made <= made'
  BY <1>7 DEF Inv, Types
<1>11. Alone(d)
  BY <1>2, <1>3, <1>4, <1>5, <1>7, <1>9, <1>10 DEF Inv, Alone, Row, server
<1>. QED
  BY <1>8, <1>11, AloneKeeps

(* A call that needs no operation any more leaves the pending one behind.  *)
LEMMA DroppedKeeps ==
    ASSUME Inv, NEW d \in Devices, NEW c \in CallRecord, c.pc \notin Working,
           call' = [call EXCEPT ![d] = c], pending' = [pending EXCEPT ![d] = NoOperation],
           UNCHANGED <<server, group, profile, topUp, topUps, made, astray>>
    PROVE  Inv'
<1>1. /\ call' \in [Devices -> CallRecord] /\ call'[d] = c
      /\ \A e \in Devices \ {d} : call'[e] = call[e]
  BY Set
<1>2. /\ DOMAIN pending' = Devices /\ pending'[d] = NoOperation
      /\ \A e \in Devices \ {d} : pending'[e] = pending[e]
  BY DEF Inv, Types
<1>3. Types'
  BY <1>1, <1>2 DEF Inv, Types, server
<1>4. CallInv(log[Room], pending'[d], call'[d])
  BY <1>1 DEF CallInv, Working
<1>5. made <= made'
  BY DEF Inv, Types
<1>6. Alone(d)
  BY <1>1, <1>2, <1>4, <1>5 DEF Inv, Alone, Row, server
<1>. QED
  BY <1>3, <1>6, AloneKeeps

(* A device that gives up its rekey has no operation.                      *)
LEMMA DropPendingKeeps == ASSUME Inv, NEW d \in Devices, DropPending(d) PROVE Inv'
<1>1. "reconcile" \in Places /\ "reconcile" \notin Working
  BY DEF Places, Working
<1>. QED
  BY <1>1, AtTyped, DroppedKeeps DEF DropPending

(* Neither has one whose operation is done.                                *)
LEMMA DeletePendingKeeps == ASSUME Inv, NEW d \in Devices, DeletePending(d) PROVE Inv'
<1>1. PICK pc : pc = IF call[d].then = "end" THEN "idle" ELSE call[d].then
  OBVIOUS
<1>2. pc \in Places /\ pc \notin Working
  BY <1>1 DEF Inv, Types, CallRecord, Places, Working
<1>3. call' = [call EXCEPT ![d] = At(pc)]
  BY <1>1 DEF DeletePending, Continue, Inv, Types
<1>. QED
  BY <1>2, <1>3, AtTyped, DroppedKeeps DEF DeletePending

(* The group of a page is one some Commit led to. *)
LEMMA PageGroup ==
    ASSUME Inv, NEW d \in Devices, NEW S, S \subseteq log[Room], S # {},
           Joined(d) \/ Welcomes(S) # {}
    PROVE  /\ Applied(d, S).group \in Group /\ OnLog(log[Room], Applied(d, S).group)
           /\ Last(S) \in S
<1>1. \A m \in log[Room] : m \in Message /\ m.group \in Group /\ OnLog(log[Room], m.group)
  BY DEF Inv, Types, LogInv, Message, OnLog
<1>2. PICK b \in Nat : \A m \in log[Room] : m.seq <= b
  BY DEF Inv, LogInv
<1>3. \A T : T \subseteq S /\ T # {} => Last(T) \in T
  BY <1>1, <1>2, LastOf
<1>4. ASSUME NEW g \in Group, OnLog(log[Room], g), NEW T, T \subseteq S
      PROVE  GroupAfter(g, T) \in Group /\ OnLog(log[Room], GroupAfter(g, T))
  BY <1>1, <1>3, <1>4 DEF GroupAfter
<1>5. CASE Joined(d)
  <2>1. group[d] \in Group /\ OnLog(log[Room], group[d])
    BY DEF Inv, Types
  <2>2. Applied(d, S).group = GroupAfter(group[d], S)
    BY <1>5 DEF Applied
  <2>. QED
    BY <1>3, <1>4, <2>1, <2>2
<1>6. CASE ~Joined(d)
  <2>1. PICK w : w = First(Welcomes(S))
    OBVIOUS
  <2>2. w \in Welcomes(S)
    <3>1. Welcomes(S) \subseteq Message /\ Welcomes(S) # {}
      BY <1>1, <1>6 DEF Welcomes
    <3>. QED
      BY <2>1, <3>1, FirstIn
  <2>3. w.group \in Group /\ OnLog(log[Room], w.group)
    BY <1>1, <2>2 DEF Welcomes
  <2>4. PICK T : T = {m \in S : m.seq > w.seq}
    OBVIOUS
  <2>5. Applied(d, S).group = GroupAfter(w.group, T)
    BY <1>6, <2>1, <2>4 DEF Applied
  <2>. QED
    BY <1>3, <1>4, <2>3, <2>4, <2>5
<1>. QED
  BY <1>5, <1>6

(* A page leads to a group on the log.                                     *)
LEMMA ListControlsKeeps == ASSUME Inv, NEW d \in Devices, ListControls(d) PROVE Inv'
<1>. DEFINE page == Due(d)
<1>1. CASE page = {} \/ (~Joined(d) /\ Welcomes(page) = {})
  <2>1. "epoch" \in Places \ Working
    BY DEF Places, Working
  <2>2. Goto(d, "epoch") /\ UNCHANGED <<server, storage, topUp, topUps, made, astray>>
    BY <1>1 DEF ListControls, storage
  <2>. QED
    BY <2>1, <2>2, GotoKeeps
<1>2. CASE page # {} /\ (Joined(d) \/ Welcomes(page) # {})
  <2>1. page \subseteq log[Room] /\ profile[d].cursor \in Nat
    BY DEF Due, Inv, Types
  <2>2. /\ Applied(d, page).group \in Group /\ OnLog(log[Room], Applied(d, page).group)
        /\ Last(page) \in page
    BY <1>2, <2>1, PageGroup
  <2>3. Last(page).seq \in Nat /\ Last(page).seq > 0
    BY <2>1, <2>2 DEF Due, Inv, Types, Message
  <2>4. PICK last : Begin(d, [kind |-> "inbound", group |-> Applied(d, page).group,
                              cursor |-> Last(page).seq, last |-> last], "epoch", 0)
    BY <1>2 DEF ListControls
  <2>5. PICK op : op = [kind |-> "inbound", group |-> Applied(d, page).group,
                        cursor |-> Last(page).seq, last |-> last]
    OBVIOUS
  <2>6. op.kind = "inbound" /\ op.group = Applied(d, page).group /\ op.cursor = Last(page).seq
    BY <2>5
  <2>7. op.kind \in Kinds /\ op.kind \notin GroupKinds
    BY <2>6 DEF Kinds, GroupKinds
  <2>8. OpInv(log[Room], made, op)
    BY <2>2, <2>3, <2>6, <2>7 DEF OpInv
  <2>9. /\ Resume(op, "epoch") \in CallRecord /\ CallInv(log[Room], op, Resume(op, "epoch"))
        /\ Resume(op, "epoch").pc \in Working
    BY <2>7, Resumed
  <2>10. /\ pending' = [pending EXCEPT ![d] = op] /\ made' = made
         /\ call' = [call EXCEPT ![d] = Resume(op, "epoch")]
    BY <2>4, <2>5 DEF Begin, Inv, Types
  <2>11. /\ call' \in [Devices -> CallRecord] /\ call'[d] = Resume(op, "epoch")
         /\ \A e \in Devices \ {d} : call'[e] = call[e]
    BY <2>9, <2>10, Set
  <2>12. /\ pending'[d] = op /\ DOMAIN pending' = Devices
         /\ \A e \in Devices \ {d} : pending'[e] = pending[e]
    BY <2>10 DEF Inv, Types
  <2>13. UNCHANGED <<server, group, profile, topUp, topUps, astray>>
    BY DEF ListControls
  <2>14. Types'
    BY <2>10, <2>11, <2>12, <2>13 DEF Inv, Types, server
  <2>15. made <= made'
    BY <2>10 DEF Inv, Types
  <2>16. Alone(d)
    BY <2>7, <2>8, <2>9, <2>10, <2>11, <2>12, <2>13, <2>15 DEF Inv, Alone, Row, server
  <2>. QED
    BY <2>14, <2>16, AloneKeeps
<1>. QED
  BY <1>1, <1>2

(* What a group operation leads to is written after the server has taken   *)
(* all of its controls, the last of which is for that group.               *)
LEMMA WriteStateKeeps == ASSUME Inv, NEW d \in Devices, WriteState(d) PROVE Inv'
<1>1. call[d].pc = "write" /\ "write" \in Working
  BY DEF WriteState, Working
<1>2. Busy(d) /\ OpInv(log[Room], made, pending[d]) /\ CallInv(log[Room], pending[d], call[d])
  BY <1>1, AtWork
<1>3. pending[d].group \in Group /\ OnLog(log[Room], pending[d].group)
  <2>1. CASE pending[d].kind \in GroupKinds
    <3>1. PICK m \in Nat : /\ m > 0 /\ Len(pending[d].controls) = m
                           /\ DOMAIN pending[d].controls = 1 .. m
                           /\ \A p \in 1 .. m : pending[d].controls[p] \in Message
      BY <1>2, <2>1, OwnControls DEF OpInv
    <3>2. pending[d].group = pending[d].controls[m].group
      BY <1>2, <2>1, <3>1 DEF OpInv, GroupOpInv
    <3>3. PICK x \in log[Room] : x.id = pending[d].controls[m].id
      BY <1>1, <1>2, <2>1, <3>1 DEF CallInv, InLog
    <3>4. x.group = pending[d].group
      BY <1>2, <2>1, <3>1, <3>2, <3>3 DEF OpInv, GroupOpInv, SameAs
    <3>5. OnLog(log[Room], x.group)
      BY DEF Inv, LogInv, OnLog
    <3>. QED
      BY <3>1, <3>2, <3>4, <3>5 DEF Message
  <2>2. CASE pending[d].kind \notin GroupKinds
    BY <1>2, <2>2 DEF OpInv, Kinds
  <2>. QED
    BY <2>1, <2>2
<1>4. PICK pc \in {"delete", "profile"} :
          Goto(d, pc) /\ (pc = "profile" => pending[d].kind # "application")
  BY DEF WriteState
<1>5. pc \in Places
  BY DEF Places, Working
<1>6. /\ call' \in [Devices -> CallRecord] /\ call'[d].pc = pc
      /\ \A e \in Devices \ {d} : call'[e] = call[e]
  BY <1>4, <1>5, Gone
<1>7. /\ group' \in [Devices -> Group] /\ group'[d] = pending[d].group
      /\ \A e \in Devices \ {d} : group'[e] = group[e]
  BY <1>3 DEF WriteState, Inv, Types
<1>8. UNCHANGED <<server, profile, pending, topUp, topUps, made, astray>>
  BY DEF WriteState
<1>9. Types'
  BY <1>6, <1>7, <1>8 DEF Inv, Types, server
<1>10. CallInv(log[Room], pending[d], call'[d])
  BY <1>1, <1>2, <1>4, <1>6 DEF CallInv, OpInv, Kinds
<1>11. made <= made'
  BY <1>8 DEF Inv, Types
<1>12. Alone(d)
  BY <1>2, <1>3, <1>6, <1>7, <1>8, <1>10, <1>11 DEF Inv, Alone, Row, server
<1>. QED
  BY <1>9, <1>12, AloneKeeps

(* The cursor written is a number.                                         *)
LEMMA WriteProfileKeeps == ASSUME Inv, NEW d \in Devices, WriteProfile(d) PROVE Inv'
<1>1. call[d].pc = "profile" /\ "profile" \in Working /\ "delete" \in Places
  BY DEF WriteProfile, Working, Places
<1>2. Busy(d) /\ OpInv(log[Room], made, pending[d]) /\ CallInv(log[Room], pending[d], call[d])
  BY <1>1, AtWork
<1>3. /\ call' \in [Devices -> CallRecord] /\ call'[d].pc = "delete"
      /\ \A e \in Devices \ {d} : call'[e] = call[e]
  BY <1>1, Gone DEF WriteProfile
<1>4. DOMAIN profile' = Devices /\ \A e \in Devices : profile'[e].cursor \in Nat
  BY <1>2 DEF WriteProfile, Inv, Types, OpInv
<1>5. UNCHANGED <<server, group, pending, topUp, topUps, made, astray>>
  BY DEF WriteProfile
<1>6. Types'
  BY <1>3, <1>4, <1>5 DEF Inv, Types, server
<1>7. CallInv(log[Room], pending[d], call'[d])
  BY <1>1, <1>2, <1>3 DEF CallInv, Kinds
<1>8. made <= made'
  BY <1>5 DEF Inv, Types
<1>9. Alone(d)
  BY <1>2, <1>3, <1>5, <1>7, <1>8 DEF Inv, Alone, Row, server
<1>. QED
  BY <1>6, <1>9, AloneKeeps

(* A message is encrypted to a group on the log, under a new key.          *)
LEMMA ReadRoomKeeps == ASSUME Inv, NEW d \in Devices, ReadRoom(d) PROVE Inv'
<1>1. CASE Row.active = 0
  <2>1. "bootstrap" \in Places /\ "bootstrap" \notin Working
    BY DEF Places, Working
  <2>2. call[d] \in CallRecord /\ Row.revision \in Nat
    BY DEF Inv, Types, EpochRow, Row
  <2>3. PICK c : c = [call[d] EXCEPT !.pc = "bootstrap", !.revision = Row.revision]
    OBVIOUS
  <2>4. c \in CallRecord /\ c.pc = "bootstrap"
    BY <2>1, <2>2, <2>3 DEF CallRecord
  <2>5. call' = [call EXCEPT ![d] = c]
    BY <1>1, <2>3 DEF ReadRoom, Inv, Types
  <2>6. call' \in [Devices -> CallRecord] /\ call'[d] = c /\ \A e \in Devices \ {d} : call'[e] = call[e]
    BY <2>4, <2>5, Set
  <2>7. CallInv(log[Room], pending[d], call'[d]) /\ call'[d].pc \notin Working
    BY <2>1, <2>4, <2>6 DEF CallInv
  <2>. QED
    BY <1>1, <2>6, <2>7, CallOnly DEF ReadRoom, storage
<1>2. CASE Row.active # 0
  <2>1. /\ Joined(d) /\ d \in group[d].leaves /\ Return(d) /\ made' = made + 1
        /\ pending' = [pending EXCEPT ![d] = [kind |-> "application", key |-> made + 1,
                                              group |-> group[d], control |-> profile[d].last]]
        /\ UNCHANGED <<server, group, profile, topUp, topUps, astray>>
    BY <1>2 DEF ReadRoom, CanEncrypt
  <2>2. group[d] \in Group /\ group[d] # NoGroup /\ OnLog(log[Room], group[d]) /\ made \in Nat
    BY <2>1 DEF Inv, Types, NoGroup
  <2>3. PICK op : op = [kind |-> "application", key |-> made + 1,
                        group |-> group[d], control |-> profile[d].last]
    OBVIOUS
  <2>4. op.kind = "application" /\ op.key = made + 1 /\ op.group = group[d] /\ op.control # None
    BY <2>1, <2>3 DEF Joined
  <2>5. OpInv(log[Room], made', op) /\ op.kind \notin GroupKinds
    BY <2>1, <2>2, <2>4 DEF OpInv, Kinds, GroupKinds
  <2>6. Idle \in CallRecord /\ Idle.pc = "idle"
    BY IdleTyped DEF Idle, At
  <2>7. /\ call' \in [Devices -> CallRecord] /\ call'[d] = Idle
        /\ \A e \in Devices \ {d} : call'[e] = call[e]
    BY <2>1, <2>6, Set DEF Return
  <2>8. /\ pending'[d] = op /\ DOMAIN pending' = Devices
        /\ \A e \in Devices \ {d} : pending'[e] = pending[e]
    BY <2>1, <2>3 DEF Inv, Types
  <2>9. Types'
    BY <2>1, <2>2, <2>7, <2>8 DEF Inv, Types, server
  <2>10. CallInv(log[Room], op, call'[d])
    BY <2>6, <2>7 DEF CallInv
  <2>11. made <= made'
    BY <2>1, <2>2
  <2>12. Alone(d)
    BY <2>1, <2>5, <2>7, <2>8, <2>10, <2>11 DEF Inv, Alone, Row, server
  <2>. QED
    BY <2>9, <2>12, AloneKeeps
<1>. QED
  BY <1>1, <1>2

(* A message sent is of the group of its operation.                        *)
LEMMA SendKeeps == ASSUME Inv, NEW d \in Devices, Send(d) PROVE Inv'
<1>1. call[d].pc = "send" /\ "send" \in Working /\ "write" \in Places
  BY DEF Send, Working, Places
<1>2. Busy(d) /\ OpInv(log[Room], made, pending[d]) /\ CallInv(log[Room], pending[d], call[d])
  BY <1>1, AtWork
<1>3. pending[d].kind = "application"
  BY <1>1, <1>2 DEF CallInv
<1>4. /\ pending[d].key \in Nat /\ pending[d].group \in Group
      /\ OnLog(log[Room], pending[d].group)
  BY <1>2, <1>3 DEF OpInv
<1>5. /\ call' \in [Devices -> CallRecord] /\ call'[d].pc = "write"
      /\ \A e \in Devices \ {d} : call'[e] = call[e]
  BY <1>1, Gone DEF Send
<1>6. sent' = sent \cup {[key |-> pending[d].key, group |-> pending[d].group]}
  BY DEF Send
<1>7. UNCHANGED <<members, trusted, epoch, log, storage, topUp, topUps, made, astray>>
  BY DEF Send
<1>8. Types'
  BY <1>4, <1>5, <1>6, <1>7 DEF Inv, Types, storage
<1>9. \A s \in sent' : OnLog(log[Room], s.group)
  BY <1>4, <1>6 DEF Inv
<1>10. CallInv(log[Room], pending[d], call'[d])
  BY <1>3, <1>5 DEF CallInv, Kinds, GroupKinds
<1>11. made <= made'
  BY <1>7 DEF Inv, Types
<1>12. Alone(d)
  BY <1>2, <1>5, <1>7, <1>9, <1>10, <1>11 DEF Inv, Alone, Row, storage
<1>. QED
  BY <1>8, <1>12, AloneKeeps

(* A top-up reads a group on the log.                                      *)
LEMMA TopUpReadKeeps == ASSUME Inv, NEW d \in Devices, TopUpRead(d) PROVE Inv'
<1>1. /\ topUps' = topUps + 1 /\ topUps < MaxTopUps /\ topUp' = [topUp EXCEPT ![d] = group[d]]
      /\ UNCHANGED <<server, storage, call, made, astray>>
  BY DEF TopUpRead
<1>2. /\ topUp' \in [Devices -> Group \cup {None}] /\ topUp'[d] = group[d]
      /\ \A e \in Devices \ {d} : topUp'[e] = topUp[e]
  BY <1>1 DEF Inv, Types
<1>3. topUps' \in 0 .. MaxTopUps
  BY <1>1, BoundAssumption DEF Inv, Types
<1>4. Types'
  BY <1>1, <1>2, <1>3 DEF Inv, Types, server, storage
<1>5. made <= made'
  BY <1>1 DEF Inv, Types
<1>6. Alone(d)
  BY <1>1, <1>2, <1>5 DEF Inv, Alone, Row, server, storage, Busy
<1>. QED
  BY <1>4, <1>6, AloneKeeps

(* It writes one: an old group is still on the log.                        *)
LEMMA TopUpWriteKeeps == ASSUME Inv, NEW d \in Devices, TopUpWrite(d) PROVE Inv'
<1>1. /\ topUp[d] # None /\ topUp' = [topUp EXCEPT ![d] = None]
      /\ group' = [group EXCEPT ![d] = topUp[d]]
      /\ UNCHANGED <<server, profile, pending, call, topUps, made>>
  BY DEF TopUpWrite
<1>2. topUp[d] \in Group /\ OnLog(log[Room], topUp[d])
  BY <1>1 DEF Inv, Types
<1>3. /\ group' \in [Devices -> Group] /\ group'[d] = topUp[d]
      /\ \A e \in Devices \ {d} : group'[e] = group[e]
  BY <1>1, <1>2 DEF Inv, Types
<1>4. /\ topUp' \in [Devices -> Group \cup {None}] /\ topUp'[d] = None
      /\ \A e \in Devices \ {d} : topUp'[e] = topUp[e]
  BY <1>1 DEF Inv, Types
<1>5. astray' \subseteq Devices
  BY DEF TopUpWrite, Inv, Types
<1>6. Types'
  BY <1>1, <1>3, <1>4, <1>5 DEF Inv, Types, server
<1>7. made <= made'
  BY <1>1 DEF Inv, Types
<1>8. Alone(d)
  BY <1>1, <1>2, <1>3, <1>4, <1>7 DEF Inv, Alone, Row, server, Busy
<1>. QED
  BY <1>6, <1>8, AloneKeeps

-----------------------------------------------------------------------------
(* The server appends a control of a device: it knows the group of a       *)
(* Welcome from the Commit before it.                                      *)
LEMMA AppendKeeps ==
    ASSUME Inv, NEW d \in Devices, call[d].pc = "submit", Accept(Control(d)), made' = made
    PROVE  /\ log' \in [{Room} -> SUBSET Message] /\ epoch' \in [{Room} -> EpochRow]
           /\ log[Room] \subseteq log'[Room]
           /\ LogInv(log'[Room], epoch'[Room].active, made)
           /\ InLog(log'[Room], Control(d))
           /\ \A e \in Devices : Busy(e) => OpInv(log'[Room], made, pending[e])
<1>. DEFINE op == pending[d]
            n  == call[d].next
<1>1. "submit" \in Working /\ made \in Nat
  BY DEF Working, Inv, Types
<1>2. /\ Busy(d) /\ OpInv(log[Room], made, op) /\ CallInv(log[Room], op, call[d])
  BY <1>1, AtWork
<1>3. /\ op.kind \in GroupKinds /\ n \in DOMAIN op.controls
      /\ \A p \in DOMAIN op.controls : p < n => InLog(log[Room], op.controls[p])
  BY <1>2 DEF CallInv
<1>4. GroupOpInv(log[Room], made, op)
  BY <1>2, <1>3 DEF OpInv
<1>5. PICK len \in Nat : /\ DOMAIN op.controls = 1 .. len
                         /\ \A p \in 1 .. len : op.controls[p] \in Message /\ Placed(op.controls, p)
  BY <1>4, OwnControls
<1>6. PICK m \in Message : m = Control(d) /\ m = op.controls[n]
  BY <1>3, <1>5 DEF Control
<1>7. IsFiniteSet(log[Room]) /\ Cardinality(log[Room]) \in Nat /\ log[Room] \subseteq Message
  BY FS_CardinalityType DEF Inv, LogInv, Types
<1>8. PICK row : /\ row = [m EXCEPT !.seq = Cardinality(log[Room]) + 1,
                                    !.to = IF m.kind = "commit" THEN MemberDevices \ {m.sender} ELSE @]
                 /\ Queue!Commit(Room, row) \/ Queue!Welcome(Room, row)
  BY <1>6 DEF Accept
<1>9. /\ row \in Message /\ row.id = m.id /\ row.kind = m.kind
      /\ row.epoch = m.epoch /\ row.group = m.group
      /\ row.sender = m.sender /\ row.from = m.from
  <2>1. Cardinality(log[Room]) + 1 \in Nat
    BY <1>7
  <2>2. PICK to \in SUBSET Devices :
            row = [m EXCEPT !.seq = Cardinality(log[Room]) + 1, !.to = to]
    <3>1. m.to \in SUBSET Devices /\ MemberDevices \ {m.sender} \in SUBSET Devices
      BY DEF Message, MemberDevices
    <3>. QED
      BY <1>8, <3>1
  <2>. QED
    BY <2>1, <2>2 DEF Message
<1>10. log'[Room] = log[Room] \cup {row} /\ log' \in [{Room} -> SUBSET Message]
  <2>1. log' = [log EXCEPT ![Room] = @ \cup {row}]
    BY <1>8 DEF Queue!Commit, Queue!Welcome, Queue!Append
  <2>. QED
    BY <1>9, <2>1 DEF Inv, Types
<1>11. epoch[Room] \in EpochRow /\ DOMAIN epoch = {Room} /\ Row = epoch[Room]
  BY DEF Inv, Types, Row
<1>12. /\ epoch' \in [{Room} -> EpochRow]
       /\ \/ /\ row.kind = "commit" /\ row.epoch = Row.active + 1
             /\ epoch'[Room].active = Row.active + 1
          \/ /\ row.kind = "welcome" /\ row.epoch = Row.active /\ row.epoch > 0
             /\ epoch'[Room].active = Row.active
  <2>1. CASE Queue!Commit(Room, row)
    <3>1. /\ row.kind = "commit" /\ row.epoch = epoch[Room].active + 1
          /\ epoch' = [epoch EXCEPT ![Room].active = row.epoch, ![Room].status = "active"]
      BY <2>1 DEF Queue!Commit
    <3>2. PICK e : e = [epoch[Room] EXCEPT !.active = row.epoch, !.status = "active"]
      OBVIOUS
    <3>3. e \in EpochRow /\ e.active = row.epoch
      BY <1>9, <1>11, <3>2 DEF EpochRow, Message
    <3>4. epoch' = [epoch EXCEPT ![Room] = e]
      BY <1>11, <3>1, <3>2
    <3>. QED
      BY <1>11, <3>1, <3>3, <3>4 DEF Inv, Types
  <2>2. CASE Queue!Welcome(Room, row)
    BY <1>11, <2>2 DEF Queue!Welcome, Inv, Types
  <2>. QED
    BY <1>8, <2>1, <2>2
<1>13. InLog(log'[Room], Control(d))
  BY <1>6, <1>9, <1>10 DEF InLog
<1>14. row.epoch = row.group.epoch
  BY <1>3, <1>5, <1>6, <1>9 DEF Placed
<1>15. \E c \in log'[Room] : c.kind = "commit" /\ c.group = row.group
  <2>1. CASE row.kind = "commit"
    BY <1>10, <2>1
  <2>2. CASE row.kind = "welcome"
    <3>0. n \in 1 .. len /\ Placed(op.controls, n) /\ op.controls[n].kind = "welcome"
      BY <1>3, <1>5, <1>6, <1>9, <2>2
    <3>1. n - 1 \in DOMAIN op.controls /\ n - 1 < n
      <4>1. n - 1 \in DOMAIN op.controls
        BY <3>0 DEF Placed
      <4>. QED
        BY <3>0, <4>1
    <3>2. op.controls[n - 1].kind = "commit" /\ op.controls[n - 1].group = m.group
      BY <1>6, <3>0 DEF Placed
    <3>3. PICK x \in log[Room] : x.id = op.controls[n - 1].id
      BY <1>3, <3>1 DEF InLog
    <3>4. x.kind = "commit" /\ x.group = m.group
      BY <1>4, <3>1, <3>2, <3>3 DEF GroupOpInv, SameAs
    <3>. QED
      BY <1>9, <1>10, <3>4
  <2>. QED
    BY <1>9, <2>1, <2>2 DEF Message
<1>16. row.id <= made /\ row.id \in Nat
  BY <1>1, <1>3, <1>4, <1>6, <1>9, OwnIds
<1>17. LogInv(log'[Room], epoch'[Room].active, made)
  <2>1. IsFiniteSet(log'[Room])
    BY <1>7, <1>10, FS_AddElement
  <2>2. \E b \in Nat : \A x \in log'[Room] : x.seq <= b
    <3>1. PICK b \in Nat : \A x \in log[Room] : x.seq <= b
      BY DEF Inv, LogInv
    <3>2. row.seq \in Nat /\ \A x \in log[Room] : x.seq \in Nat
      BY <1>7, <1>9 DEF Message
    <3>3. b + row.seq \in Nat /\ \A x \in log'[Room] : x.seq <= b + row.seq
      BY <1>10, <3>1, <3>2
    <3>. QED
      BY <3>3
  <2>3. Row.active \in Nat /\ \A x \in log[Room] : x.epoch \in Nat
    BY <1>7, <1>11 DEF EpochRow, Message
  <2>4. \A x \in log[Room] : /\ x.id <= made /\ x.epoch = x.group.epoch /\ 0 < x.epoch
                             /\ x.epoch <= Row.active
                             /\ \E c \in log[Room] : c.kind = "commit" /\ c.group = x.group
    BY DEF Inv, LogInv
  <2>5. \A x \in log'[Room] : /\ x.id <= made /\ x.epoch = x.group.epoch
                              /\ 0 < x.epoch /\ x.epoch <= epoch'[Room].active
    BY <1>10, <1>12, <1>14, <1>16, <2>3, <2>4
  <2>6. \A x \in log'[Room] : \E c \in log'[Room] : c.kind = "commit" /\ c.group = x.group
    BY <1>10, <1>15, <2>4
  <2>7. \A x \in log[Room] : x.epoch # row.epoch \/ row.kind = "welcome"
    BY <1>12, <2>3, <2>4
  <2>8. \A x, c \in log'[Room] :
            x.kind = "commit" /\ c.kind = "commit" /\ x.epoch = c.epoch => x = c
    <3>1. \A x, c \in log[Room] :
            x.kind = "commit" /\ c.kind = "commit" /\ x.epoch = c.epoch => x = c
      BY DEF Inv, LogInv
    <3>. QED
      BY <1>10, <2>7, <3>1
  <2>. QED
    BY <2>1, <2>2, <2>5, <2>6, <2>8 DEF LogInv
<1>18. ASSUME NEW e \in Devices, Busy(e)
       PROVE  OpInv(log'[Room], made, pending[e])
  <2>1. OpInv(log[Room], made, pending[e])
    BY <1>18 DEF Inv
  <2>2. ASSUME pending[e].kind \in GroupKinds, NEW p \in DOMAIN pending[e].controls
        PROVE  SameAs(row, pending[e].controls[p])
    <3>1. CASE e = d
      <4>1. PICK k \in Nat : \A q \in DOMAIN op.controls : op.controls[q].id = k + q
        BY <1>4 DEF GroupOpInv, ControlList
      <4>2. row.id = k + n /\ op.controls[p].id = k + p
        BY <1>3, <1>6, <1>9, <2>2, <3>1, <4>1
      <4>3. p \in Nat /\ n \in Nat
        BY <1>3, <1>5, <2>2, <3>1
      <4>4. row.id = op.controls[p].id => p = n
        BY <4>2, <4>3
      <4>. QED
        BY <1>6, <1>9, <3>1, <4>4 DEF SameAs
    <3>2. CASE e # d
      <4>1. Distinct(op, pending[e])
        BY <1>2, <1>18, <3>2 DEF Inv
      <4>. QED
        BY <1>3, <1>6, <1>9, <2>2, <4>1 DEF Distinct, SameAs
    <3>. QED
      BY <3>1, <3>2
  <2>. QED
    BY <1>1, <1>10, <2>1, <2>2, OpKept
<1>. QED
  BY <1>10, <1>12, <1>13, <1>17, <1>18

(* A control the server has taken is in its log. *)
LEMMA TakenStored ==
    ASSUME Inv, NEW d \in Devices, call[d].pc = "submit", Taken(Control(d)), made' = made
    PROVE  log[Room] \subseteq log'[Room] /\ InLog(log'[Room], Control(d))
<1>1. CASE Stored(Control(d))
  BY <1>1 DEF Taken, Stored, InLog
<1>2. CASE ~Stored(Control(d))
  BY <1>2, AppendKeeps DEF Taken
<1>. QED
  BY <1>1, <1>2

(* Whether the server has taken a control or not, what a device did while  *)
(* submitting it keeps the invariant if its call is in order.              *)
LEMMA TakenKeeps ==
    ASSUME Inv, NEW d \in Devices, call[d].pc = "submit",
           Taken(Control(d)) \/ UNCHANGED <<epoch, log>>,
           UNCHANGED <<members, trusted, sent, storage, topUp, topUps, made, astray>>,
           call' \in [Devices -> CallRecord], \A e \in Devices \ {d} : call'[e] = call[e],
           CallInv(log'[Room], pending[d], call'[d])
    PROVE  Inv'
<1>1. Busy(d)
  BY AtWork DEF Working
<1>2. CASE UNCHANGED <<epoch, log>>
  BY <1>1, <1>2, CallOnly DEF server
<1>3. CASE Accept(Control(d))
  <2>1. /\ log' \in [{Room} -> SUBSET Message] /\ epoch' \in [{Room} -> EpochRow]
        /\ log[Room] \subseteq log'[Room]
        /\ LogInv(log'[Room], epoch'[Room].active, made)
        /\ \A e \in Devices : Busy(e) => OpInv(log'[Room], made, pending[e])
    BY <1>3, AppendKeeps
  <2>2. Types'
    BY <2>1 DEF Inv, Types, storage
  <2>3. \A g : OnLog(log[Room], g) => OnLog(log'[Room], g)
    BY <2>1 DEF OnLog
  <2>4. \A e \in Devices : CallInv(log'[Room], pending[e], call'[e])
    <3>1. \A e \in Devices \ {d} : CallInv(log'[Room], pending[e], call'[e])
      BY <2>1, CallKept DEF Inv
    <3>. QED
      BY <3>1
  <2>5. \A e \in Devices : Busy(e)' => Busy(e)
    BY <1>1 DEF Busy, storage
  <2>. QED
    BY <2>1, <2>2, <2>3, <2>4, <2>5 DEF Inv, storage, Row
<1>. QED
  BY <1>2, <1>3 DEF Taken

(* A control whose answer is lost is taken or not.                         *)
LEMMA SubmitLostKeeps == ASSUME Inv, NEW d \in Devices, SubmitLost(d) PROVE Inv'
<1>1. call[d].pc = "submit" /\ (Taken(Control(d)) \/ UNCHANGED <<epoch, log>>)
  BY DEF SubmitLost
<1>2. /\ call' \in [Devices -> CallRecord] /\ \A e \in Devices \ {d} : call'[e] = call[e]
      /\ CallInv(log'[Room], pending[d], call'[d])
  <2>1. CASE Return(d)
    <3>1. Idle \in CallRecord /\ Idle.pc = "idle"
      BY IdleTyped DEF Idle, At
    <3>. QED
      BY <2>1, <3>1, Set DEF Return, CallInv
  <2>2. CASE pending[d].kind = "rekey" /\ Goto(d, "check")
    <3>1. "check" \in Places
      BY DEF Places, Working
    <3>2. /\ call' \in [Devices -> CallRecord] /\ call'[d].pc = "check"
          /\ \A e \in Devices \ {d} : call'[e] = call[e]
      BY <2>2, <3>1, Gone
    <3>. QED
      BY <2>2, <3>2 DEF CallInv
  <2>. QED
    BY <2>1, <2>2 DEF SubmitLost, Failed
<1>3. UNCHANGED <<members, trusted, sent, storage, topUp, topUps, made, astray>>
  BY DEF SubmitLost
<1>. QED
  BY <1>1, <1>2, <1>3, TakenKeeps

(* A control is taken: the call goes on to the next, or to the writes. *)
LEMMA SubmitKeeps == ASSUME Inv, NEW d \in Devices, Submit(d) PROVE Inv'
<1>. DEFINE op == pending[d]
            n  == call[d].next
<1>1. /\ call[d].pc = "submit" /\ Taken(Control(d))
      /\ UNCHANGED <<members, trusted, sent, storage, topUp, topUps, made, astray>>
  BY DEF Submit
<1>2. OpInv(log[Room], made, op) /\ CallInv(log[Room], op, call[d])
  BY <1>1, AtWork DEF Working
<1>3. /\ op.kind \in GroupKinds /\ n \in DOMAIN op.controls
      /\ \A p \in DOMAIN op.controls : p < n => InLog(log[Room], op.controls[p])
  BY <1>1, <1>2 DEF CallInv
<1>4. PICK len \in Nat : len > 0 /\ Len(op.controls) = len /\ DOMAIN op.controls = 1 .. len
  BY <1>2, <1>3, OwnControls DEF OpInv
<1>5. n \in 1 .. len /\ n \in Nat
  BY <1>3, <1>4
<1>6. \A p \in DOMAIN op.controls : p <= n => InLog(log'[Room], op.controls[p])
  <2>1. log[Room] \subseteq log'[Room] /\ InLog(log'[Room], op.controls[n])
    BY <1>1, TakenStored DEF Control
  <2>2. \A p \in DOMAIN op.controls : p < n => InLog(log'[Room], op.controls[p])
    BY <1>3, <2>1 DEF InLog
  <2>. QED
    BY <1>4, <1>5, <2>1, <2>2
<1>7. CASE n < len
  <2>1. call[d] \in CallRecord
    BY DEF Inv, Types
  <2>2. PICK c : c = [call[d] EXCEPT !.next = n + 1]
    OBVIOUS
  <2>3. c \in CallRecord /\ c.pc = "submit" /\ c.next = n + 1
    BY <1>1, <1>5, <2>1, <2>2 DEF CallRecord
  <2>4. call' = [call EXCEPT ![d] = c]
    BY <1>4, <1>7, <2>2 DEF Submit, Inv, Types
  <2>5. call' \in [Devices -> CallRecord] /\ call'[d] = c /\ \A e \in Devices \ {d} : call'[e] = call[e]
    BY <2>3, <2>4, Set
  <2>6. n + 1 \in DOMAIN op.controls /\ \A p \in DOMAIN op.controls : p < n + 1 => p <= n
    BY <1>4, <1>5, <1>7
  <2>7. CallInv(log'[Room], op, call'[d])
    BY <1>3, <1>6, <2>3, <2>5, <2>6 DEF CallInv
  <2>. QED
    BY <1>1, <2>5, <2>7, TakenKeeps
<1>8. CASE ~(n < len)
  <2>1. Goto(d, "write") /\ "write" \in Places
    BY <1>4, <1>8 DEF Submit, Places, Working
  <2>2. /\ call' \in [Devices -> CallRecord] /\ call'[d].pc = "write"
        /\ \A e \in Devices \ {d} : call'[e] = call[e]
    BY <2>1, Gone
  <2>3. \A p \in DOMAIN op.controls : InLog(log'[Room], op.controls[p])
    BY <1>4, <1>5, <1>6, <1>8
  <2>4. CallInv(log'[Room], op, call'[d])
    BY <1>3, <2>2, <2>3 DEF CallInv, Kinds
  <2>. QED
    BY <1>1, <2>2, <2>4, TakenKeeps
<1>. QED
  BY <1>7, <1>8

-----------------------------------------------------------------------------
(* The invariant is one of the system. *)
LEMMA InvStep ==
    ASSUME Callers \subseteq Devices, Inv, [Next]_vars
    PROVE  Inv'
<1>1. CASE UNCHANGED vars
  BY <1>1 DEF vars, server, storage, Inv, Types, Row, Busy
<1>2. CASE Membership
  BY <1>2, MembershipKeeps
<1>3. ASSUME NEW d \in Devices, Call(d) PROVE Inv'
  BY <1>3, StartKeeps, AbandonKeeps, ReadEpochKeeps, ReconcileKeeps, ListControlsKeeps,
     ReadRoomKeeps, BootstrapKeeps, SubmitKeeps, SubmitRefusedKeeps, SubmitLostKeeps,
     CheckRekeyKeepsInv, RestoreStateKeeps, DropPendingKeeps, WriteStateKeeps,
     WriteProfileKeeps, DeletePendingKeeps, SendKeeps DEF Call
<1>4. ASSUME NEW d \in Devices, TopUpRead(d) \/ TopUpWrite(d) PROVE Inv'
  BY <1>4, TopUpReadKeeps, TopUpWriteKeeps
<1>. QED
  BY <1>1, <1>2, <1>3, <1>4 DEF Next

(* Hence in every reachable state. *)
LEMMA InvHolds == Spec => []Inv
<1>1. Init => Inv
  BY InvInit
<1>2. Inv /\ [Next]_vars => Inv'
  BY InvStep, CallersAssumption
<1>. QED
  BY <1>1, <1>2, PTL DEF Spec

(* Whatever a device has stored, its groups have leaves, its pending       *)
(* operation the fields of its kind, and a call works on an operation of   *)
(* the kind its place is for.                                              *)
THEOREM TypeCorrect == Spec => []TypeOK
<1>1. Inv => TypeOK
  <2>. SUFFICES ASSUME Inv PROVE TypeOK
    OBVIOUS
  <2>1. ASSUME NEW op, OpInv(log[Room], made, op) PROVE OperationOK(op)
    <3>1. op.kind \in GroupKinds => op.controls # <<>>
      BY <2>1 DEF OpInv, GroupOpInv, ControlList
    <3>2. op.kind = "rekey" => op.previous # NoGroup
      BY <2>1 DEF OpInv, GroupOpInv, GroupKinds
    <3>. QED
      BY <2>1, <3>1, <3>2 DEF OpInv, OperationOK
  <2>2. ASSUME NEW d \in Devices
        PROVE  /\ group[d].epoch \in Nat /\ group[d].leaves \subseteq Devices
               /\ pending[d] # NoOperation => OperationOK(pending[d])
               /\ CallOK(d)
    <3>1. group[d] \in Group
      BY DEF Inv, Types
    <3>2. pending[d] # NoOperation => OpInv(log[Room], made, pending[d])
      BY DEF Inv, Busy
    <3>3. CallInv(log[Room], pending[d], call[d])
      BY DEF Inv
    <3>. QED
      BY <2>1, <3>1, <3>2, <3>3 DEF Group, CallInv, CallOK
  <2>. QED
    BY <2>2 DEF TypeOK, Inv, Types
<1>. QED
  BY <1>1, InvHolds, PTL

(* All stored states and all messages of one epoch are of one group, for   *)
(* any number of devices that bootstrap, rekey, send and stop anywhere:    *)
(* every group in use is one some accepted Commit led to, and the server   *)
(* accepts one Commit per epoch.                                           *)
THEOREM OneGroup == Spec => []OneGroupPerEpoch
<1>1. Inv => OneGroupPerEpoch
  <2>. SUFFICES ASSUME Inv, NEW g \in Used, NEW h \in Used, g.epoch = h.epoch PROVE g = h
    BY DEF OneGroupPerEpoch
  <2>1. OnLog(log[Room], g) /\ OnLog(log[Room], h)
    BY DEF Inv, Used
  <2>2. \A x \in log[Room] : x.epoch = x.group.epoch /\ 0 < x.epoch
    BY DEF Inv, LogInv
  <2>3. \A x, y \in log[Room] :
            x.kind = "commit" /\ y.kind = "commit" /\ x.epoch = y.epoch => x = y
    BY DEF Inv, LogInv
  <2>4. NoGroup.epoch = 0 /\ ~(0 < 0)
    BY DEF NoGroup
  <2>. QED
    BY <2>1, <2>2, <2>3, <2>4 DEF OnLog
<1>. QED
  BY <1>1, InvHolds, PTL
-----------------------------------------------------------------------------
(* The order of the controls *)

(* Every control of device d is one step after another or after the base;  *)
(* there is a Commit for every epoch up to the last one, and a Welcome is  *)
(* for a device its Commit has added.                                      *)
ControlChain(cs, d, base) ==
    /\ \A p \in DOMAIN cs :
          /\ cs[p].sender = d
          /\ cs[p].epoch <= cs[Len(cs)].group.epoch
          /\ base.epoch < cs[p].epoch /\ cs[p].epoch = cs[p].from.epoch + 1
          /\ \/ cs[p].from = base
             \/ \E q \in DOMAIN cs : /\ q < p /\ cs[q].kind = "commit"
                                     /\ cs[q].group = cs[p].from
          /\ cs[p].kind = "welcome" =>
                /\ cs[p - 1].from = cs[p].from
                /\ cs[p].to \subseteq cs[p].group.leaves \ cs[p].from.leaves
    /\ \A e \in (base.epoch + 1) .. cs[Len(cs)].group.epoch :
          \E p \in DOMAIN cs : cs[p].kind = "commit" /\ cs[p].epoch = e

(* No control takes out others than the devices gone, nor brings in others *)
(* than those come.                                                        *)
LeavesChange(cs, base, gone, come) ==
    \A p \in DOMAIN cs :
        /\ cs[p].from.leaves \ gone \subseteq cs[p].group.leaves
        /\ cs[p].group.leaves \subseteq base.leaves \cup come

(* Where the Commit of the i-th device is.                                 *)
LEMMA CommitPlace ==
    ASSUME NEW r \in Nat, NEW n \in Nat, NEW i \in 1 .. r + n
    PROVE  /\ CommitOf(r, i) \in 1 .. r + 2 * n
           /\ IsCommit(r, CommitOf(r, i)) /\ DeviceOf(r, CommitOf(r, i)) = i
BY DEF CommitOf, IsCommit, DeviceOf

(* It is before everything of the devices after it.                        *)
LEMMA CommitBefore ==
    ASSUME NEW r \in Nat, NEW n \in Nat, NEW p \in 1 .. r + 2 * n, DeviceOf(r, p) # 1
    PROVE  DeviceOf(r, p) - 1 \in 1 .. r + n /\ CommitOf(r, DeviceOf(r, p) - 1) < p
BY DEF CommitOf, DeviceOf

(* And the last control is of the last device.                             *)
LEMMA LastDevice ==
    ASSUME NEW r \in Nat, NEW n \in Nat, r + n > 0
    PROVE  DeviceOf(r, r + 2 * n) = r + n
BY DEF DeviceOf

(* The devices of a set in some order: each comes once.                    *)
LEMMA OrderIn ==
    ASSUME NEW S, S \subseteq Devices, NEW s \in Orders(S)
    PROVE  s \in Seq(S) /\ \A i, j \in 1 .. Len(s) : s[i] = s[j] => i = j
<1>1. PICK n \in Nat : n = Cardinality(S)
  BY FS_CardinalityType, FS_Subset, DevicesAssumption
<1>2. s \in [1 .. n -> S] /\ \A i, j \in DOMAIN s : s[i] = s[j] => i = j
  BY <1>1 DEF Orders
<1>. QED
  BY <1>2

(* What reconcileGroup and bootstrapRoom make is such a chain.             *)
LEMMA ControlsChained ==
    ASSUME made \in Nat, NEW d \in Devices, NEW revision \in Nat, NEW base \in Group,
           NEW gone, NEW come, gone \subseteq base.leaves, come \subseteq Devices,
           come \cap base.leaves = {}, gone \cup come # {},
           NEW removes \in Orders(gone), NEW adds \in Orders(come)
    PROVE  /\ ControlChain(Controls(d, revision, base, removes, adds), d, base)
           /\ LeavesChange(Controls(d, revision, base, removes, adds), base, gone, come)
<1> DEFINE r   == Len(removes)
           n   == Len(adds)
           all == removes \o adds
           left(i) == {all[k] : k \in {j \in 1 .. i : j <= r}}
           entered(i) == {all[k] : k \in {j \in 1 .. i : j > r}}
           after(i) == IF i = 0 THEN base
                       ELSE Changed(base, made + CommitOf(r, i), i, left(i), entered(i))
           cs  == Controls(d, revision, base, removes, adds)
<1>1. gone \subseteq Devices
  BY DEF Group
<1>2. removes \in Seq(Devices) /\ adds \in Seq(Devices) /\ Len(removes) + Len(adds) > 0
  <2>1. /\ removes \in Seq(Devices) /\ adds \in Seq(Devices)
        /\ gone # {} => Len(removes) > 0
        /\ come # {} => Len(adds) > 0
    BY <1>1, OrdersListed
  <2>2. Len(removes) \in Nat /\ Len(adds) \in Nat
    BY <2>1
  <2>. QED
    BY <2>1, <2>2
<1>3. /\ \A j \in 1 .. r : removes[j] \in gone
      /\ \A j \in 1 .. n : adds[j] \in come
      /\ \A i, j \in 1 .. n : adds[i] = adds[j] => i = j
  <2>1. removes \in Seq(gone) /\ adds \in Seq(come)
    BY <1>1, OrderIn
  <2>. QED
    BY <2>1, OrderIn
<1>4. r \in Nat /\ n \in Nat /\ r + 2 * n \in Nat /\ r + n > 0 /\ r + 2 * n > 0
  BY <1>2
<1>5. \A i \in 0 .. r + n : /\ i > 0 => after(i).leaves = (base.leaves \ left(i)) \cup entered(i)
                            /\ after(i).epoch = base.epoch + i
  BY DEF Changed, Group
<1>6. /\ \A i \in 0 .. r + n : left(i) \subseteq gone /\ entered(i) \subseteq come
      /\ \A i \in 1 .. r + n : entered(i - 1) \subseteq entered(i)
      /\ left(0) = {} /\ entered(0) = {}
  <2>1. \A j \in 1 .. r : all[j] \in gone
    BY <1>2, <1>3
  <2>2. \A j \in 1 .. r + n : j > r => all[j] \in come
    BY <1>2, <1>3
  <2>3. \A i \in 0 .. r + n : \A j \in 1 .. i : j \in 1 .. r + n /\ (j <= r => j \in 1 .. r)
    BY <1>4
  <2>4. \A i \in 0 .. r + n : left(i) \subseteq gone /\ entered(i) \subseteq come
    BY <2>1, <2>2, <2>3
  <2>5. \A i \in 1 .. r + n : \A j \in 1 .. i - 1 : j \in 1 .. i
    BY <1>4
  <2>. QED
    BY <2>4, <2>5
<1>7. ASSUME NEW i \in 1 .. r + n, i > r PROVE all[i] \in entered(i) /\ all[i] \notin entered(i - 1)
  <2>1. all[i] = adds[i - r] /\ i - r \in 1 .. n
    BY <1>2, <1>4, <1>7
  <2>2. ASSUME NEW j \in 1 .. i - 1, j > r PROVE all[j] # all[i]
    <3>1. all[j] = adds[j - r] /\ j - r \in 1 .. n /\ j - r # i - r
      BY <1>2, <1>4, <1>7, <2>2
    <3>. QED
      BY <1>3, <2>1, <3>1
  <2>3. i \in 1 .. i
    BY <1>4
  <2>. QED
    BY <1>7, <2>2, <2>3
<1>8. cs = [p \in 1 .. r + 2 * n |->
               [id |-> made + p, key |-> made + p, sender |-> d, revision |-> revision, seq |-> 0,
                kind  |-> IF IsCommit(r, p) THEN "commit" ELSE "welcome",
                to    |-> IF IsCommit(r, p) THEN {} ELSE {all[DeviceOf(r, p)]},
                epoch |-> after(DeviceOf(r, p)).epoch, group |-> after(DeviceOf(r, p)),
                from |-> after(DeviceOf(r, p) - 1)]]
  BY DEF Controls
<1>9. after(0) = base
  OBVIOUS
<1>10. base.epoch \in Nat
  BY DEF Group
<1>11. \A p \in 1 .. r + 2 * n : DeviceOf(r, p) \in 1 .. r + n
  BY <1>4, Positions
<1>. HIDE DEF after, all, cs, r, n, left, entered
<1>12. ASSUME NEW i \in 1 .. r + n
       PROVE  /\ after(i - 1).leaves \ gone \subseteq after(i).leaves
              /\ after(i).leaves \subseteq base.leaves \cup come
              /\ i > r => all[i] \in after(i).leaves \ after(i - 1).leaves
  <2>1. i \in 0 .. r + n /\ i - 1 \in 0 .. r + n /\ i > 0
    BY <1>4
  <2>2. after(i - 1).leaves = (base.leaves \ left(i - 1)) \cup entered(i - 1)
    <3>1. CASE i - 1 = 0
      BY <1>6, <1>9, <3>1
    <3>2. CASE i - 1 > 0
      BY <1>5, <2>1, <3>2
    <3>. QED
      BY <2>1, <3>1, <3>2
  <2>3. i > r => all[i] \in come
    BY <1>6, <1>7, <2>1
  <2>. QED
    BY <1>5, <1>6, <1>7, <2>1, <2>2, <2>3
<1>13. PICK N \in Nat : N = r + 2 * n /\ N > 0
  BY <1>4
<1>14. DOMAIN cs = 1 .. N /\ Len(cs) = N
  <2>1. DOMAIN cs = 1 .. N
    BY <1>8, <1>13
  <2>2. cs \in Seq(Message)
    BY <1>2, ControlsListed DEF cs, ControlList
  <2>. QED
    BY <1>13, <2>1, <2>2
<1>15. cs[N].group = after(r + n) /\ cs[N].group.epoch = base.epoch + (r + n)
  <2>1. DeviceOf(r, r + 2 * n) = r + n
    BY <1>4, LastDevice
  <2>2. N \in 1 .. r + 2 * n /\ r + n \in 0 .. r + n
    BY <1>4, <1>13
  <2>3. cs[N].group = after(r + n)
    BY <1>8, <1>13, <2>1, <2>2
  <2>. QED
    BY <1>5, <2>2, <2>3
<1>16. ASSUME NEW p \in 1 .. N
       PROVE  /\ cs[p].sender = d
              /\ cs[p].epoch <= cs[N].group.epoch
              /\ base.epoch < cs[p].epoch /\ cs[p].epoch = cs[p].from.epoch + 1
              /\ cs[p].from.leaves \ gone \subseteq cs[p].group.leaves
              /\ cs[p].group.leaves \subseteq base.leaves \cup come
  <2>1. PICK i \in 1 .. r + n : i = DeviceOf(r, p)
    BY <1>11, <1>13
  <2>2. cs[p].sender = d /\ cs[p].epoch = after(i).epoch /\ cs[p].group = after(i)
        /\ cs[p].from = after(i - 1)
    BY <1>8, <1>13, <2>1
  <2>3. after(i).epoch = base.epoch + i /\ after(i - 1).epoch = base.epoch + (i - 1)
    BY <1>4, <1>5
  <2>4. base.epoch + i <= base.epoch + (r + n) /\ base.epoch < base.epoch + i
        /\ base.epoch + i = base.epoch + (i - 1) + 1
    BY <1>4, <1>10
  <2>. QED
    BY <1>12, <1>15, <2>2, <2>3, <2>4
<1>17. ASSUME NEW p \in 1 .. N
       PROVE  \/ cs[p].from = base
              \/ \E q \in 1 .. N : q < p /\ cs[q].kind = "commit" /\ cs[q].group = cs[p].from
  <2>1. PICK i \in 1 .. r + n : i = DeviceOf(r, p)
    BY <1>11, <1>13
  <2>2. cs[p].from = after(i - 1)
    BY <1>8, <1>13, <2>1
  <2>3. CASE i = 1
    BY <1>9, <2>2, <2>3
  <2>4. CASE i # 1
    <3>1. PICK q : q = CommitOf(r, i - 1)
      OBVIOUS
    <3>2. i - 1 \in 1 .. r + n /\ q < p
      BY <1>4, <1>13, <2>1, <2>4, <3>1, CommitBefore
    <3>3. q \in 1 .. N /\ IsCommit(r, q) /\ DeviceOf(r, q) = i - 1
      BY <1>4, <1>13, <3>1, <3>2, CommitPlace
    <3>4. cs[q].kind = "commit" /\ cs[q].group = after(i - 1)
      BY <1>8, <1>13, <3>3
    <3>. QED
      BY <2>2, <3>2, <3>3, <3>4
  <2>. QED
    BY <2>3, <2>4
<1>18. ASSUME NEW p \in 1 .. N, cs[p].kind = "welcome"
       PROVE  /\ cs[p - 1].from = cs[p].from
              /\ cs[p].to \subseteq cs[p].group.leaves \ cs[p].from.leaves
  <2>1. ~IsCommit(r, p)
    BY <1>8, <1>13, <1>18
  <2>2. PICK i \in 1 .. r + n : i = DeviceOf(r, p)
    BY <1>11, <1>13
  <2>3. p - 1 \in 1 .. N /\ DeviceOf(r, p - 1) = i
    BY <1>4, <1>13, <2>1, <2>2, Positions
  <2>4. cs[p - 1].from = after(i - 1) /\ cs[p].from = after(i - 1) /\ cs[p].group = after(i)
    BY <1>8, <1>13, <2>2, <2>3
  <2>5. cs[p].to = {all[i]}
    BY <1>8, <1>13, <2>1, <2>2
  <2>6. i > r
    BY <1>4, <1>13, <2>1, <2>2 DEF IsCommit, DeviceOf
  <2>. QED
    BY <1>12, <2>4, <2>5, <2>6
<1>19. ASSUME NEW e \in (base.epoch + 1) .. cs[N].group.epoch
       PROVE  \E p \in 1 .. N : cs[p].kind = "commit" /\ cs[p].epoch = e
  <2>1. PICK i \in 1 .. r + n : e = base.epoch + i
    <3>1. e - base.epoch \in 1 .. r + n /\ e = base.epoch + (e - base.epoch)
      BY <1>4, <1>10, <1>15
    <3>. QED
      BY <3>1
  <2>2. PICK p \in 1 .. N : IsCommit(r, p) /\ DeviceOf(r, p) = i
    BY <1>4, <1>13, CommitPlace
  <2>3. cs[p].kind = "commit" /\ cs[p].epoch = after(i).epoch
    BY <1>8, <1>13, <2>2
  <2>. QED
    BY <1>4, <1>5, <2>1, <2>3
<1>20. ControlChain(cs, d, base)
  BY <1>14, <1>16, <1>17, <1>18, <1>19 DEF ControlChain
<1>21. LeavesChange(cs, base, gone, come)
  BY <1>14, <1>16 DEF LeavesChange
<1>. QED
  BY <1>20, <1>21 DEF cs

-----------------------------------------------------------------------------
(* What the messages L of the server say to a device that has not lost its *)
(* way.  Such devices are the set S, the members of the room are M.        *)

Sound == trusted \ astray

(* A message is placed after all those before it, its id is its own, and   *)
(* Commits come in the order of their epochs.                              *)
OrderInv(L) ==
    /\ \A m \in L : 0 < m.seq /\ m.seq <= Cardinality(L)
    /\ \A m, x \in L : m.id = x.id => m = x
    /\ \A m, x \in L : m.kind = "commit" /\ m # x => (x.epoch < m.epoch <=> x.seq < m.seq)

(* A Commit is made from the group of the one before it, and is not sent   *)
(* to its sender.                                                          *)
ChainInv(L) ==
    /\ \A m \in L : m.kind = "commit" => m.sender \notin m.to
    /\ \A m, c \in L : m.kind = "commit" /\ c.kind = "commit" /\ m.epoch = c.epoch + 1 =>
                          m.from = c.group
    /\ \A m \in L : m.kind = "commit" /\ m.epoch = 1 => m.from = Root(m.sender)

(* A Welcome, the only one of its group, is for a device its Commit added. *)
WelcomeInv(L) ==
    \A w \in L : w.kind = "welcome" =>
       \E c \in L : /\ c.kind = "commit" /\ c.group = w.group /\ w.id = c.id + 1
                    /\ w.to \subseteq c.group.leaves \ c.from.leaves

(* A device of S is in a group only as a member; it stays in the groups    *)
(* that follow, and is sent the Commits that lead to them.                 *)
LeavesInv(L, S, M) ==
    \A d \in S :
       /\ \A m \in L : d \in m.group.leaves => Owner[d] \in M
       /\ \A m \in L : m.kind = "commit" /\ d \in m.from.leaves =>
             d \in m.group.leaves /\ (d # m.sender => d \in m.to)
       /\ \A m, c \in L : /\ m.kind = "commit" /\ c.kind = "commit" /\ m.epoch < c.epoch
                          /\ d \in m.group.leaves
                          => d \in c.from.leaves

(* A device with group g that has read the queue up to k: what is due to   *)
(* it are the Commits of others its group lacks.                           *)
InTouch(L, d, g, k) ==
    /\ d \in g.leaves
    /\ \A m \in L : d \in m.to /\ m.seq > k <=>
                    m.kind = "commit" /\ m.sender # d /\ m.epoch > g.epoch

(* It has made no Commit beyond an epoch.                                  *)
OwnUpTo(L, d, n) == \A m \in L : m.kind = "commit" /\ m.sender = d => m.epoch <= n

(* It has created the group, or has been welcomed.                         *)
Entered(L, d) == \E m \in L : \/ m.kind = "commit" /\ m.epoch = 1 /\ m.sender = d
                              \/ m.kind = "welcome" /\ d \in m.to

-----------------------------------------------------------------------------
(* A Commit opens the next epoch: the messages keep their order, and the   *)
(* devices of S that are in a group are in the one it was made from.       *)
LEMMA CommitAppended ==
    ASSUME NEW L, L \subseteq Message, NEW active \in Nat, NEW n, LogInv(L, active, n),
           NEW S, NEW M, OrderInv(L), ChainInv(L), WelcomeInv(L), LeavesInv(L, S, M),
           NEW row \in Message, row.kind = "commit", row.seq = Cardinality(L) + 1,
           row.epoch = active + 1, row.epoch = row.from.epoch + 1,
           \A x \in L : x.id # row.id, row.sender \notin row.to,
           \/ row.from = Root(row.sender)
           \/ \E c \in L : c.kind = "commit" /\ c.group = row.from,
           \A d \in S : /\ d \in row.from.leaves => d \in row.group.leaves
                        /\ d \in row.group.leaves => Owner[d] \in M
                        /\ Owner[d] \in M /\ d # row.sender => d \in row.to
    PROVE  /\ \A d \in S : \A c \in L : c.kind = "commit" /\ d \in c.group.leaves =>
                                           d \in row.from.leaves /\ (d # row.sender => d \in row.to)
           /\ OrderInv(L \cup {row}) /\ ChainInv(L \cup {row})
           /\ WelcomeInv(L \cup {row}) /\ LeavesInv(L \cup {row}, S, M)
<1>1. IsFiniteSet(L) /\ Cardinality(L) \in Nat /\ row \notin L
  BY FS_CardinalityType DEF LogInv
<1>2. Cardinality(L \cup {row}) = Cardinality(L) + 1
  BY <1>1, FS_AddElement
<1>3. \A m \in L : m.seq \in Nat /\ m.epoch \in Nat /\ 0 < m.epoch /\ m.epoch <= active
                   /\ m.epoch = m.group.epoch
  BY DEF LogInv, Message
<1>4. \A m, c \in L : m.kind = "commit" /\ c.kind = "commit" /\ m.epoch = c.epoch => m = c
  BY DEF LogInv
<1>5. OrderInv(L \cup {row})
  <2>1. \A m \in L \cup {row} : 0 < m.seq /\ m.seq <= Cardinality(L \cup {row})
    BY <1>1, <1>2, <1>3 DEF OrderInv
  <2>2. \A m, x \in L \cup {row} : m.id = x.id => m = x
    BY DEF OrderInv
  <2>3. ASSUME NEW m \in L \cup {row}, NEW x \in L \cup {row}, m.kind = "commit", m # x
        PROVE  x.epoch < m.epoch <=> x.seq < m.seq
    <3>1. CASE m \in L /\ x \in L
      BY <2>3, <3>1 DEF OrderInv
    <3>2. \A y \in L : y.epoch < row.epoch /\ y.seq < row.seq
      BY <1>1, <1>3 DEF OrderInv
    <3>3. CASE m = row
      BY <2>3, <3>2, <3>3
    <3>4. CASE x = row
      <4>1. m.epoch < row.epoch /\ m.seq < row.seq /\ m.epoch \in Nat /\ m.seq \in Nat
        BY <2>3, <3>2, <3>4, <1>3
      <4>2. row.epoch \in Nat /\ row.seq \in Nat
        BY <1>1
      <4>. QED
        BY <3>4, <4>1, <4>2
    <3>. QED
      BY <3>1, <3>3, <3>4
  <2>. QED
    BY <2>1, <2>2, <2>3 DEF OrderInv
<1>6. ASSUME NEW d \in S, NEW c \in L, c.kind = "commit", d \in c.group.leaves
      PROVE  d \in row.from.leaves /\ (d # row.sender => d \in row.to)
  <2>1. PICK b \in L : b.kind = "commit" /\ b.group = row.from
    <3>1. active > 0
      BY <1>3
    <3>2. Root(row.sender).epoch = 0
      BY DEF Root
    <3>3. row.from # Root(row.sender)
      BY <3>1, <3>2
    <3>. QED
      BY <3>3
  <2>2. b.epoch = active
    <3>1. row.from.epoch \in Nat
      BY DEF Message, Group
    <3>. QED
      BY <1>3, <2>1, <3>1
  <2>3. CASE c.epoch = b.epoch
    BY <1>4, <1>6, <2>1, <2>3 DEF LeavesInv
  <2>4. CASE c.epoch # b.epoch
    <3>1. c.epoch < b.epoch
      BY <1>3, <2>2, <2>4
    <3>2. d \in b.from.leaves
      BY <1>6, <2>1, <3>1 DEF LeavesInv
    <3>3. d \in b.group.leaves
      BY <2>1, <3>2 DEF LeavesInv
    <3>. QED
      BY <2>1, <3>3
  <2>5. d \in row.from.leaves
    BY <1>6, <2>1, <2>3, <2>4
  <2>. QED
    BY <2>5
<1>7. ChainInv(L \cup {row})
  <2>0. \A m \in L \cup {row} : m.kind = "commit" => m.sender \notin m.to
    BY DEF ChainInv
  <2>1. ASSUME NEW m \in L \cup {row}, NEW c \in L \cup {row}, m.kind = "commit", c.kind = "commit",
               m.epoch = c.epoch + 1
        PROVE  m.from = c.group
    <3>1. CASE m \in L /\ c \in L
      BY <2>1, <3>1 DEF ChainInv
    <3>2. c \in L
      BY <1>3, <2>1
    <3>3. CASE m = row
      <4>1. c.epoch = active /\ active > 0
        BY <1>3, <2>1, <3>2, <3>3
      <4>2. Root(row.sender).epoch = 0
        BY DEF Root
      <4>3. PICK b \in L : b.kind = "commit" /\ b.group = row.from
        BY <4>1, <4>2
      <4>4. b.epoch = active
        <5>1. row.from.epoch \in Nat
          BY DEF Message, Group
        <5>. QED
          BY <1>3, <4>3, <5>1
      <4>. QED
        BY <1>4, <2>1, <3>2, <3>3, <4>1, <4>3, <4>4
    <3>. QED
      BY <3>1, <3>2, <3>3
  <2>2. ASSUME NEW m \in L \cup {row}, m.kind = "commit", m.epoch = 1
        PROVE  m.from = Root(m.sender)
    <3>1. CASE m \in L
      BY <2>2, <3>1 DEF ChainInv
    <3>2. CASE m = row
      <4>1. active = 0
        BY <2>2, <3>2
      <4>. QED
        BY <1>3, <3>2, <4>1
    <3>. QED
      BY <3>1, <3>2
  <2>. QED
    BY <2>0, <2>1, <2>2 DEF ChainInv
<1>8. WelcomeInv(L \cup {row})
  BY DEF WelcomeInv
<1>9. LeavesInv(L \cup {row}, S, M)
  <2>. SUFFICES ASSUME NEW d \in S
                PROVE /\ \A m \in L \cup {row} : d \in m.group.leaves => Owner[d] \in M
                      /\ \A m \in L \cup {row} : m.kind = "commit" /\ d \in m.from.leaves =>
                            d \in m.group.leaves /\ (d # m.sender => d \in m.to)
                      /\ \A m, c \in L \cup {row} :
                            /\ m.kind = "commit" /\ c.kind = "commit" /\ m.epoch < c.epoch
                            /\ d \in m.group.leaves
                            => d \in c.from.leaves
    BY DEF LeavesInv
  <2>1. \A m \in L \cup {row} : d \in m.group.leaves => Owner[d] \in M
    BY DEF LeavesInv
  <2>2. \A m \in L \cup {row} : m.kind = "commit" /\ d \in m.from.leaves =>
                            d \in m.group.leaves /\ (d # m.sender => d \in m.to)
    BY DEF LeavesInv
  <2>3. ASSUME NEW m \in L \cup {row}, NEW c \in L \cup {row}, m.kind = "commit", c.kind = "commit",
               m.epoch < c.epoch, d \in m.group.leaves
        PROVE  d \in c.from.leaves
    <3>1. m \in L
      BY <1>3, <2>3
    <3>2. CASE c \in L
      BY <2>3, <3>1, <3>2 DEF LeavesInv
    <3>3. CASE c = row
      BY <1>6, <2>3, <3>1, <3>3
    <3>. QED
      BY <3>2, <3>3
  <2>. QED
    BY <2>1, <2>2, <2>3
<1>. QED
  BY <1>5, <1>6, <1>7, <1>8, <1>9

(* A Welcome: nobody of S who has entered the room is its recipient.       *)
LEMMA WelcomeAppended ==
    ASSUME NEW L, L \subseteq Message, NEW active \in Nat, NEW n, LogInv(L, active, n),
           NEW S, NEW M, OrderInv(L), ChainInv(L), WelcomeInv(L), LeavesInv(L, S, M),
           NEW row \in Message, row.kind = "welcome", row.seq = Cardinality(L) + 1,
           row.epoch = active, \A x \in L : x.id # row.id,
           NEW c \in L, c.kind = "commit", c.group = row.group, row.id = c.id + 1,
           row.to \subseteq c.group.leaves \ c.from.leaves
    PROVE  /\ \A d \in S : Entered(L, d) => d \notin row.to
           /\ OrderInv(L \cup {row}) /\ ChainInv(L \cup {row})
           /\ WelcomeInv(L \cup {row}) /\ LeavesInv(L \cup {row}, S, M)
<1>1. IsFiniteSet(L) /\ Cardinality(L) \in Nat /\ row \notin L
  BY FS_CardinalityType DEF LogInv
<1>2. Cardinality(L \cup {row}) = Cardinality(L) + 1
  BY <1>1, FS_AddElement
<1>3. \A m \in L : m.seq \in Nat /\ m.epoch \in Nat /\ 0 < m.epoch /\ m.epoch <= active
                   /\ m.epoch = m.group.epoch
  BY DEF LogInv, Message
<1>4. \A m, x \in L : m.kind = "commit" /\ x.kind = "commit" /\ m.epoch = x.epoch => m = x
  BY DEF LogInv
<1>5. OrderInv(L \cup {row})
  <2>1. \A m \in L \cup {row} : 0 < m.seq /\ m.seq <= Cardinality(L \cup {row})
    BY <1>1, <1>2, <1>3 DEF OrderInv
  <2>2. \A m, x \in L \cup {row} : m.id = x.id => m = x
    BY DEF OrderInv
  <2>3. ASSUME NEW m \in L \cup {row}, NEW x \in L \cup {row}, m.kind = "commit", m # x
        PROVE  x.epoch < m.epoch <=> x.seq < m.seq
    <3>1. m \in L
      BY <2>3
    <3>2. CASE x \in L
      BY <2>3, <3>1, <3>2 DEF OrderInv
    <3>3. CASE x = row
      <4>1. m.epoch <= row.epoch /\ m.seq < row.seq /\ m.epoch \in Nat /\ m.seq \in Nat
        BY <1>1, <1>3, <3>1 DEF OrderInv
      <4>. QED
        BY <1>1, <3>3, <4>1
    <3>. QED
      BY <3>2, <3>3
  <2>. QED
    BY <2>1, <2>2, <2>3 DEF OrderInv
<1>6. ChainInv(L \cup {row})
  BY DEF ChainInv
<1>7. WelcomeInv(L \cup {row})
  <2>1. \A w \in L \cup {row} : w.kind = "welcome" =>
           \E x \in L : /\ x.kind = "commit" /\ x.group = w.group /\ w.id = x.id + 1
                        /\ w.to \subseteq x.group.leaves \ x.from.leaves
    BY DEF WelcomeInv
  <2>. QED
    BY <2>1 DEF WelcomeInv
<1>8. LeavesInv(L \cup {row}, S, M)
  BY DEF LeavesInv
<1>9. ASSUME NEW d \in S, Entered(L, d), d \in row.to
      PROVE  FALSE
  <2>1. d \in c.group.leaves /\ d \notin c.from.leaves
    BY <1>9
  <2>2. PICK m \in L : \/ m.kind = "commit" /\ m.epoch = 1 /\ m.sender = d
                       \/ m.kind = "welcome" /\ d \in m.to
    BY <1>9 DEF Entered
  <2>3. CASE m.kind = "commit" /\ m.epoch = 1 /\ m.sender = d
    <3>1. d \in m.from.leaves
      <4>1. m.from = Root(d)
        BY <2>3 DEF ChainInv
      <4>. QED
        BY <4>1 DEF Root
    <3>2. d \in m.group.leaves /\ c # m
      BY <2>1, <2>3, <3>1 DEF LeavesInv
    <3>3. m.epoch < c.epoch
      BY <1>3, <1>4, <2>3, <3>2
    <3>. QED
      BY <2>1, <2>3, <3>2, <3>3 DEF LeavesInv
  <2>4. CASE m.kind = "welcome" /\ d \in m.to
    <3>1. PICK b \in L : /\ b.kind = "commit" /\ m.id = b.id + 1
                         /\ d \in b.group.leaves /\ d \notin b.from.leaves
      BY <2>4 DEF WelcomeInv
    <3>2. b # c
      BY <3>1
    <3>3. b.epoch < c.epoch \/ c.epoch < b.epoch
      BY <1>3, <1>4, <3>1, <3>2
    <3>. QED
      BY <2>1, <3>1, <3>3 DEF LeavesInv
  <2>. QED
    BY <2>2, <2>3, <2>4
<1>. QED
  BY <1>5, <1>6, <1>7, <1>8, <1>9

-----------------------------------------------------------------------------
(* A device and its place in the queue                                     *)

(* A message is appended.  A device that is in touch stays so: a Commit of *)
(* another is due to it, and its group lacks it.                           *)
LEMMA TouchKept ==
    ASSUME NEW L, L \subseteq Message, NEW active \in Nat, NEW n, LogInv(L, active, n),
           NEW row \in Message, row.seq = Cardinality(L) + 1,
           NEW d, NEW g \in Group, NEW k \in Nat, k <= Cardinality(L),
           OnLog(L, g), InTouch(L, d, g, k),
           \/ row.kind = "welcome" /\ d \notin row.to
           \/ /\ row.kind = "commit" /\ row.epoch = active + 1 /\ row.sender \notin row.to
              /\ \A c \in L : c.kind = "commit" /\ d \in c.group.leaves =>
                                 (d # row.sender => d \in row.to)
    PROVE  InTouch(L \cup {row}, d, g, k)
<1>1. Cardinality(L) \in Nat
  BY FS_CardinalityType DEF LogInv
<1>2. PICK c \in L : c.kind = "commit" /\ c.group = g
  <2>1. d \in g.leaves /\ d \notin NoGroup.leaves
    BY DEF InTouch, NoGroup
  <2>. QED
    BY <2>1 DEF OnLog
<1>3. g.epoch \in Nat /\ g.epoch <= active
  BY <1>2 DEF LogInv, Message, Group
<1>4. d \in row.to /\ row.seq > k <=> row.kind = "commit" /\ row.sender # d /\ row.epoch > g.epoch
  <2>1. CASE row.kind = "welcome"
    BY <2>1
  <2>2. CASE row.kind = "commit"
    <3>1. row.seq > k /\ row.epoch > g.epoch
      BY <1>1, <1>3, <2>2
    <3>2. d \in row.to <=> row.sender # d
      BY <1>2, <2>2 DEF InTouch
    <3>. QED
      BY <2>2, <3>1, <3>2
  <2>. QED
    BY <2>1, <2>2 DEF Message
<1>. QED
  BY <1>4 DEF InTouch

(* A device that is in touch reads all that is due to it.                  *)
LEMMA TouchRead ==
    ASSUME NEW L, L \subseteq Message, NEW active \in Nat, NEW n, LogInv(L, active, n),
           NEW S, NEW M, OrderInv(L), LeavesInv(L, S, M),
           NEW d \in S, NEW g \in Group, NEW k \in Nat, OnLog(L, g),
           InTouch(L, d, g, k), OwnUpTo(L, d, g.epoch),
           NEW page, page = {m \in L : d \in m.to /\ m.seq > k},
           NEW last \in page, \A m \in page : m.seq <= last.seq
    PROVE  /\ last.kind = "commit"
           /\ InTouch(L, d, last.group, last.seq) /\ OwnUpTo(L, d, last.group.epoch)
<1>1. \A m \in L : m.seq \in Nat /\ m.epoch \in Nat /\ m.epoch = m.group.epoch
  BY DEF LogInv, Message
<1>2. last \in L /\ last.kind = "commit" /\ last.sender # d /\ last.epoch > g.epoch /\ last.seq > k
  BY DEF InTouch
<1>3. PICK c \in L : c.kind = "commit" /\ c.group = g
  <2>1. d \in g.leaves /\ d \notin NoGroup.leaves
    BY DEF InTouch, NoGroup
  <2>. QED
    BY <2>1 DEF OnLog
<1>4. d \in last.group.leaves
  <2>1. d \in last.from.leaves
    BY <1>1, <1>2, <1>3 DEF LeavesInv, InTouch
  <2>. QED
    BY <1>2, <2>1 DEF LeavesInv
<1>5. g.epoch \in Nat
  BY <1>1, <1>3
<1>6. \A m \in L : ~(d \in m.to /\ m.seq > last.seq)
  BY <1>1, <1>2
<1>7. ASSUME NEW m \in L, m.kind = "commit", m.sender # d, m.epoch > last.group.epoch
      PROVE  FALSE
  <2>1. m.epoch > last.epoch /\ m.epoch > g.epoch
    BY <1>1, <1>2, <1>5, <1>7
  <2>2. m.seq <= last.seq
    BY <1>7, <2>1 DEF InTouch
  <2>3. last.seq < m.seq
    BY <1>1, <1>2, <1>7, <2>1 DEF OrderInv
  <2>. QED
    BY <1>1, <1>2, <2>2, <2>3
<1>8. InTouch(L, d, last.group, last.seq)
  BY <1>4, <1>6, <1>7 DEF InTouch
<1>9. OwnUpTo(L, d, last.group.epoch)
  BY <1>1, <1>2, <1>5 DEF OwnUpTo
<1>. QED
  BY <1>2, <1>8, <1>9

(* So does one that is welcomed, from the group it is welcomed to.         *)
LEMMA WelcomeRead ==
    ASSUME NEW L, L \subseteq Message, NEW active \in Nat, NEW n, LogInv(L, active, n),
           NEW S, NEW M, OrderInv(L), WelcomeInv(L), LeavesInv(L, S, M),
           NEW d \in S, OwnUpTo(L, d, 0),
           NEW page, page = {m \in L : d \in m.to /\ m.seq > 0},
           NEW w \in page, w.kind = "welcome",
           \A m \in page : m.seq > w.seq => m.kind = "commit",
           NEW last \in page, \A m \in page : m.seq <= last.seq,
           NEW g, \/ last = w /\ g = w.group
                  \/ last.seq > w.seq /\ g = last.group
    PROVE  /\ InTouch(L, d, g, last.seq) /\ OwnUpTo(L, d, g.epoch)
<1>1. \A m \in L : m.seq \in Nat /\ m.epoch \in Nat /\ m.epoch = m.group.epoch /\ 0 < m.epoch
  BY DEF LogInv, Message
<1>2. w \in L /\ last \in L
  OBVIOUS
<1>3. PICK c \in L : /\ c.kind = "commit" /\ c.group = w.group
                     /\ d \in c.group.leaves /\ d \notin c.from.leaves
  BY <1>2 DEF WelcomeInv
<1>4. c.epoch = w.epoch /\ c # w
  BY <1>1, <1>2, <1>3
<1>5. ASSUME NEW m \in L, m.kind = "commit", m.epoch > w.epoch
      PROVE  m \in page /\ m.seq > w.seq /\ d \in m.group.leaves
  <2>1. d \in m.from.leaves
    BY <1>1, <1>3, <1>4, <1>5 DEF LeavesInv
  <2>2. m.sender # d
    BY <1>1, <1>5 DEF OwnUpTo
  <2>3. d \in m.to /\ d \in m.group.leaves
    BY <1>5, <2>1, <2>2 DEF LeavesInv
  <2>4. m.seq > w.seq
    BY <1>1, <1>2, <1>5 DEF OrderInv
  <2>. QED
    BY <1>1, <1>2, <2>3, <2>4
<1>6. g = last.group /\ g.epoch = last.epoch
  BY <1>1, <1>2
<1>7. last = w \/ (last.kind = "commit" /\ last.epoch > w.epoch)
  <2>1. CASE last.seq > w.seq
    <3>1. last.kind = "commit" /\ last # w
      BY <1>1, <1>2, <2>1
    <3>. QED
      BY <1>1, <1>2, <2>1, <3>1 DEF OrderInv
  <2>. QED
    BY <2>1
<1>8. d \in g.leaves
  BY <1>2, <1>3, <1>5, <1>6, <1>7
<1>9. \A m \in L : ~(d \in m.to /\ m.seq > last.seq)
  BY <1>1, <1>2
<1>10. ASSUME NEW m \in L, m.kind = "commit", m.epoch > g.epoch
       PROVE  FALSE
  <2>1. m.epoch > w.epoch /\ m.epoch > last.epoch
    BY <1>1, <1>2, <1>6, <1>7, <1>10
  <2>2. m.seq <= last.seq
    BY <1>5, <1>10, <2>1
  <2>3. last.seq < m.seq
    BY <1>1, <1>2, <1>10, <2>1 DEF OrderInv
  <2>. QED
    BY <1>1, <1>2, <2>2, <2>3
<1>11. InTouch(L, d, g, last.seq)
  BY <1>8, <1>9, <1>10 DEF InTouch
<1>12. OwnUpTo(L, d, g.epoch)
  BY <1>1, <1>2, <1>6 DEF OwnUpTo
<1>. QED
  BY <1>11, <1>12

-----------------------------------------------------------------------------
(* What a device of S that has group g, profile pr and pending operation   *)
(* op knows, at every place pc of its call.                                *)

(* The group a group operation starts from.                                *)
Base(d, op) == IF op.kind = "rekey" THEN op.previous ELSE Root(d)

(* The Commits of d beyond the group it started from are of its operation. *)
OwnOnly(L, d, op) ==
    \A m \in L : m.kind = "commit" /\ m.sender = d /\ m.epoch > op.previous.epoch =>
                    \E p \in DOMAIN op.controls : m.id = op.controls[p].id

OwnIn(L, op) == \E m \in L, p \in DOMAIN op.controls : m.kind = "commit" /\ m.id = op.controls[p].id

(* The controls keep the devices of S in the group.                        *)
ControlsInv(S, M, d, op) ==
    /\ ControlChain(op.controls, d, Base(d, op))
    /\ \A e \in S, p \in DOMAIN op.controls :
          /\ e \in op.controls[p].from.leaves => e \in op.controls[p].group.leaves
          /\ e \in op.controls[p].group.leaves => Owner[e] \in M

AtRest(L, d, g, pr) ==
    IF pr.last = None THEN g = NoGroup /\ OwnUpTo(L, d, 0)
    ELSE InTouch(L, d, g, pr.cursor) /\ OwnUpTo(L, d, g.epoch)

ProfileInv(L, d, pr) ==
    /\ pr.last # None => Entered(L, d)
    /\ pr.last = None => pr.cursor = 0
    /\ pr.cursor <= Cardinality(L)

(* An operation leads to a state at rest; that it starts from is one, but  *)
(* for the own Commits the server has taken since.                         *)
OperationInv(L, d, g, pr, op) ==
    /\ op.kind \in {"none", "application"} => AtRest(L, d, g, pr)
    /\ op.kind = "application" => pr.last # None /\ op.group = g
    /\ op.kind = "inbound" =>
          /\ op.last # None /\ Entered(L, d) /\ op.cursor <= Cardinality(L)
          /\ InTouch(L, d, op.group, op.cursor) /\ OwnUpTo(L, d, op.group.epoch)
    /\ op.kind = "rekey" => pr.last # None /\ InTouch(L, d, op.previous, pr.cursor)
    /\ op.kind = "bootstrap" => op.previous = NoGroup /\ pr.cursor = 0
    /\ op.kind \in GroupKinds => op.last # None /\ OwnOnly(L, d, op)

(* State and profile are written one after the other.                      *)
PlaceInv(L, g, pr, op, pc) ==
    /\ pc \in {"profile", "delete"} => g = op.group
    /\ pc = "delete" => pr.last # None /\ (op.kind = "inbound" => pr.cursor = op.cursor)
    /\ pc = "drop" => g = op.previous /\ ~OwnIn(L, op)

DeviceInv(L, d, g, pr, op, pc) ==
    ProfileInv(L, d, pr) /\ OperationInv(L, d, g, pr, op) /\ PlaceInv(L, g, pr, op, pc)

QueueInv(L, S, M) == OrderInv(L) /\ ChainInv(L) /\ WelcomeInv(L) /\ LeavesInv(L, S, M)

(* The places of a call that has no pending operation.                     *)
Free == {"reconcile", "rekey", "list", "epoch", "bootstrap"}

FollowInv ==
    /\ QueueInv(log[Room], Sound, members)
    /\ \A d \in Devices : pending[d].kind \in GroupKinds => ControlsInv(Sound, members, d, pending[d])
    /\ \A d \in Devices : call[d].pc \in Free => pending[d] = NoOperation
    /\ \A d \in Sound : DeviceInv(log[Room], d, group[d], profile[d], pending[d], call[d].pc)

-----------------------------------------------------------------------------
(* Both kinds of operation start at the epoch of the state before them.    *)
LEMMA BaseEpoch ==
    ASSUME NEW d, NEW op, op.kind \in GroupKinds, op.kind = "bootstrap" => op.previous = NoGroup
    PROVE  Base(d, op).epoch = op.previous.epoch
BY DEF GroupKinds, Base, Root, NoGroup

(* Once the server has all controls of an operation, its last group and    *)
(* the place of the device in the queue agree.                             *)
LEMMA Finished ==
    ASSUME NEW L, L \subseteq Message, NEW active \in Nat, NEW n \in Nat, LogInv(L, active, n),
           NEW S, NEW M, QueueInv(L, S, M), NEW d \in S, NEW g, NEW pr, NEW op,
           pr.cursor \in Nat, op.kind \in GroupKinds, GroupOpInv(L, n, op), ControlsInv(S, M, d, op),
           OperationInv(L, d, g, pr, op), pr.last # None,
           \A p \in DOMAIN op.controls : InLog(L, op.controls[p])
    PROVE  AtRest(L, d, op.group, pr)
<1> DEFINE cs == op.controls
           e0 == op.previous.epoch
           e1 == op.group.epoch
<1>1. PICK len \in Nat : /\ len > 0 /\ Len(cs) = len /\ DOMAIN cs = 1 .. len
                         /\ \A p \in 1 .. len : cs[p] \in Message /\ Placed(cs, p)
  BY OwnControls
<1>2. op.group = cs[len].group /\ op.previous \in Group /\ op.group \in Group
  <2>1. len \in 1 .. len
    BY <1>1
  <2>2. cs[len].group \in Group
    BY <1>1, <2>1 DEF Message
  <2>. QED
    BY <1>1, <2>2 DEF GroupOpInv
<1>3. e0 \in Nat /\ e1 \in Nat
  BY <1>2 DEF Group
<1>4. Base(d, op).epoch = e0
  BY BaseEpoch DEF OperationInv
<1>5. /\ \A p \in 1 .. len : cs[p].sender = d /\ cs[p].epoch <= e1 /\ e0 < cs[p].epoch
                             /\ cs[p].epoch = cs[p].group.epoch
      /\ \A e \in (e0 + 1) .. e1 : \E p \in 1 .. len : cs[p].kind = "commit" /\ cs[p].epoch = e
  BY <1>1, <1>2, <1>4 DEF ControlsInv, ControlChain, Placed
<1>6. e0 < e1
  <2>1. len \in 1 .. len
    BY <1>1
  <2>. QED
    BY <1>1, <1>3, <1>5, <2>1 DEF Message
<1>7. \A m \in L : m.epoch = m.group.epoch /\ m.epoch \in Nat /\ 0 < m.epoch /\ m.seq \in Nat
  BY DEF LogInv, Message
<1>8. \A m, c \in L : m.kind = "commit" /\ c.kind = "commit" /\ m.epoch = c.epoch => m = c
  BY DEF LogInv
<1>9. \A p \in 1 .. len : \E x \in L : x.kind = cs[p].kind /\ x.sender = d /\ x.epoch = cs[p].epoch
                                       /\ x.group = cs[p].group
  BY <1>1, <1>5, <1>7 DEF InLog, GroupOpInv, SameAs
<1>10. ASSUME NEW m \in L, m.kind = "commit", m.epoch > e0, m.epoch <= e1
       PROVE  m.sender = d
  <2>1. m.epoch \in (e0 + 1) .. e1
    BY <1>3, <1>7, <1>10
  <2>2. PICK p \in 1 .. len : cs[p].kind = "commit" /\ cs[p].epoch = m.epoch
    BY <1>5, <2>1
  <2>. QED
    BY <1>8, <1>9, <1>10, <2>2
<1>11. OwnUpTo(L, d, e1)
  <2> SUFFICES ASSUME NEW m \in L, m.kind = "commit", m.sender = d PROVE m.epoch <= e1
    BY DEF OwnUpTo
  <2>1. CASE m.epoch > e0
    <3>1. PICK p \in DOMAIN cs : m.id = cs[p].id
      BY <2>1 DEF OperationInv, OwnOnly
    <3>2. m.group = cs[p].group
      BY <3>1 DEF GroupOpInv, SameAs
    <3>. QED
      BY <1>1, <1>5, <1>7, <3>1, <3>2
  <2>2. CASE ~(m.epoch > e0)
    BY <1>3, <1>6, <1>7, <2>2
  <2>. QED
    BY <2>1, <2>2
<1>12. PICK b \in L : b.kind = "commit" /\ b.group = op.group
  <2>1. len \in 1 .. len
    BY <1>1
  <2>2. PICK x \in L : x.group = op.group
    BY <1>2, <1>9, <2>1
  <2>. QED
    BY <2>2 DEF LogInv
<1>13. CASE op.kind = "rekey"
  <2>1. InTouch(L, d, op.previous, pr.cursor)
    BY <1>13 DEF OperationInv
  <2>2. d \in op.previous.leaves /\ d \notin NoGroup.leaves
    BY <2>1 DEF InTouch, NoGroup
  <2>3. PICK c \in L : c.kind = "commit" /\ c.group = op.previous
    BY <2>2 DEF GroupOpInv, OnLog
  <2>4. d \in b.from.leaves
    BY <1>6, <1>7, <1>12, <2>2, <2>3 DEF QueueInv, LeavesInv
  <2>5. d \in op.group.leaves
    BY <1>12, <2>4 DEF QueueInv, LeavesInv
  <2>6. ASSUME NEW m \in L
        PROVE  d \in m.to /\ m.seq > pr.cursor <=>
                  m.kind = "commit" /\ m.sender # d /\ m.epoch > e1
    BY <1>3, <1>6, <1>7, <1>10, <2>1 DEF InTouch
  <2>. QED
    BY <1>11, <2>5, <2>6 DEF AtRest, InTouch
<1>14. CASE op.kind = "bootstrap"
  <2>1. e0 = 0 /\ pr.cursor = 0
    BY <1>14 DEF OperationInv, NoGroup
  <2>2. PICK x \in L : x.kind = "commit" /\ x.sender = d /\ x.epoch = 1
    <3>1. 1 \in (e0 + 1) .. e1
      BY <1>3, <1>6, <2>1
    <3>. QED
      BY <1>5, <1>9, <3>1
  <2>3. d \in x.from.leaves /\ d \in x.group.leaves
    <3>1. x.from = Root(d)
      BY <2>2 DEF QueueInv, ChainInv
    <3>2. d \in x.from.leaves
      BY <3>1 DEF Root
    <3>. QED
      BY <2>2, <3>2 DEF QueueInv, LeavesInv
  <2>4. ASSUME NEW m \in L, m.kind = "commit"
        PROVE  d \in m.from.leaves
    <3>1. CASE m.epoch = 1
      BY <1>8, <2>2, <2>3, <2>4, <3>1
    <3>2. CASE m.epoch # 1
      <4>1. x.epoch < m.epoch
        BY <1>7, <2>2, <3>2
      <4>. QED
        BY <2>2, <2>3, <2>4, <4>1 DEF QueueInv, LeavesInv
    <3>. QED
      BY <3>1, <3>2
  <2>5. d \in op.group.leaves
    BY <1>12, <2>4 DEF QueueInv, LeavesInv
  <2>6. ASSUME NEW m \in L
        PROVE  d \in m.to /\ m.seq > pr.cursor <=>
                  m.kind = "commit" /\ m.sender # d /\ m.epoch > e1
    <3>1. m.seq > pr.cursor
      BY <1>7, <2>1 DEF QueueInv, OrderInv
    <3>2. CASE m.kind = "commit"
      <4>1. m.sender # d <=> d \in m.to
        BY <2>4, <3>2 DEF QueueInv, LeavesInv, ChainInv
      <4>2. m.sender # d => m.epoch > e1
        BY <1>3, <1>7, <1>10, <2>1, <3>2
      <4>. QED
        BY <3>1, <3>2, <4>1, <4>2
    <3>3. CASE m.kind = "welcome"
      <4>1. d \notin m.to
        BY <2>4, <3>3 DEF QueueInv, WelcomeInv
      <4>. QED
        BY <3>3, <4>1
    <3>. QED
      BY <3>2, <3>3 DEF Message
  <2>. QED
    BY <1>11, <2>5, <2>6 DEF AtRest, InTouch
<1>. QED
  BY <1>13, <1>14 DEF GroupKinds

-----------------------------------------------------------------------------
(* The steps that append no message                                        *)

(* Nobody has done anything.                                               *)
LEMMA FollowInit == Init => FollowInv
<1>. SUFFICES ASSUME Init PROVE FollowInv
  OBVIOUS
<1>1. log[Room] = {} /\ Cardinality({}) = 0
  BY FS_EmptySet DEF Init
<1>2. QueueInv({}, Sound, members)
  BY DEF QueueInv, OrderInv, ChainInv, WelcomeInv, LeavesInv
<1>3. \A d \in Devices : /\ pending[d] = NoOperation /\ call[d].pc = "idle" /\ group[d] = NoGroup
                         /\ profile[d].last = None /\ profile[d].cursor = 0
  BY DEF Init, Idle, At
<1>4. NoOperation.kind = "none"
  BY DEF NoOperation
<1>5. \A d \in Devices : DeviceInv({}, d, group[d], profile[d], pending[d], call[d].pc)
  <2>1. \A d \in Devices : ProfileInv({}, d, profile[d])
    BY <1>1, <1>3 DEF ProfileInv
  <2>2. \A d \in Devices : OperationInv({}, d, group[d], profile[d], pending[d])
    BY <1>3, <1>4 DEF OperationInv, AtRest, OwnUpTo, GroupKinds
  <2>3. \A d \in Devices : PlaceInv({}, group[d], profile[d], pending[d], call[d].pc)
    BY <1>3 DEF PlaceInv
  <2>. QED
    BY <2>1, <2>2, <2>3 DEF DeviceInv
<1>6. Sound \subseteq Devices
  BY DEF Sound, Init
<1>. QED
  BY <1>1, <1>2, <1>3, <1>4, <1>5, <1>6 DEF FollowInv, Free, GroupKinds

(* Devices that lose their way are no longer of concern.                   *)
LEMMA FewerSound ==
    ASSUME NEW L, NEW S, NEW T, T \subseteq S, NEW M, NEW N, \A e \in T : Owner[e] \in M => Owner[e] \in N
    PROVE  /\ QueueInv(L, S, M) => QueueInv(L, T, N)
           /\ \A d, op : ControlsInv(S, M, d, op) => ControlsInv(T, N, d, op)
<1>1. QueueInv(L, S, M) => QueueInv(L, T, N)
  BY DEF QueueInv, LeavesInv
<1>2. \A d, op : ControlsInv(S, M, d, op) => ControlsInv(T, N, d, op)
  BY DEF ControlsInv
<1>. QED
  BY <1>1, <1>2

(* Members and devices change: who leaves is lost.                         *)
LEMMA FollowMembership == ASSUME Inv, FollowInv, Membership PROVE FollowInv'
<1>1. /\ Sound' \subseteq Sound /\ \A e \in Sound' : Owner[e] \in members => Owner[e] \in members'
      /\ UNCHANGED <<log, group, profile, pending, call>>
  <2>1. CASE \E u \in Users : AddMember(u)
    BY <2>1 DEF AddMember, storage, Sound
  <2>2. CASE \E u \in Users : RemoveMember(u)
    BY <2>2 DEF RemoveMember, storage, Sound, Inv, Types
  <2>3. CASE \E d \in Devices : Revoke(d)
    BY <2>3 DEF Revoke, storage, Sound
  <2>. QED
    BY <2>1, <2>2, <2>3 DEF Membership
<1>2. QueueInv(log[Room], Sound', members')
  BY <1>1, FewerSound DEF FollowInv
<1>3. \A d \in Devices : pending[d].kind \in GroupKinds => ControlsInv(Sound', members', d, pending[d])
  BY <1>1, FewerSound DEF FollowInv
<1>4. \A d \in Sound' : DeviceInv(log[Room], d, group[d], profile[d], pending[d], call[d].pc)
  BY <1>1 DEF FollowInv
<1>. QED
  BY <1>1, <1>2, <1>3, <1>4 DEF FollowInv

(* A step of one device that leaves the messages of the server alone.      *)
LEMMA OwnStep ==
    ASSUME Inv, FollowInv, NEW d \in Devices,
           UNCHANGED <<log, members, trusted>>, astray \subseteq astray',
           \A e \in Devices \ {d} : /\ group'[e] = group[e] /\ profile'[e] = profile[e]
                                    /\ pending'[e] = pending[e] /\ call'[e] = call[e],
           pending'[d].kind \in GroupKinds =>
              pending'[d] = pending[d] \/ ControlsInv(Sound, members, d, pending'[d]),
           call'[d].pc \in Free => pending'[d] = NoOperation,
           d \in Sound /\ d \in Sound' =>
              DeviceInv(log[Room], d, group'[d], profile'[d], pending'[d], call'[d].pc)
    PROVE  FollowInv'
<1>1. Sound' \subseteq Sound /\ Sound \subseteq Devices
  BY DEF Sound, Inv, Types
<1>2. QueueInv(log[Room], Sound', members)
  BY <1>1, FewerSound DEF FollowInv
<1>3. \A e \in Devices : pending'[e].kind \in GroupKinds => ControlsInv(Sound', members, e, pending'[e])
  <2>1. \A e \in Devices : pending'[e].kind \in GroupKinds => ControlsInv(Sound, members, e, pending'[e])
    BY DEF FollowInv
  <2>. QED
    BY <1>1, <2>1, FewerSound
<1>4. \A e \in Devices : call'[e].pc \in Free => pending'[e] = NoOperation
  BY DEF FollowInv
<1>5. \A e \in Sound' : DeviceInv(log[Room], e, group'[e], profile'[e], pending'[e], call'[e].pc)
  BY <1>1 DEF FollowInv
<1>. QED
  BY <1>2, <1>3, <1>4, <1>5 DEF FollowInv

(* One that changes nothing but where its call is.                         *)
LEMMA CallStep ==
    ASSUME Inv, FollowInv, NEW d \in Devices,
           UNCHANGED <<log, members, trusted, storage>>, astray \subseteq astray',
           \A e \in Devices \ {d} : call'[e] = call[e],
           call'[d].pc \in Free => pending[d] = NoOperation,
           d \in Sound /\ d \in Sound' =>
              PlaceInv(log[Room], group[d], profile[d], pending[d], call'[d].pc)
    PROVE  FollowInv'
<1>1. group' = group /\ profile' = profile /\ pending' = pending
  BY DEF storage
<1>2. d \in Sound => DeviceInv(log[Room], d, group[d], profile[d], pending[d], call[d].pc)
  BY DEF FollowInv
<1>. QED
  BY <1>1, <1>2, OwnStep DEF DeviceInv

(* The places where nothing is known of what has been written.             *)
LEMMA PlainPlace ==
    ASSUME NEW L, NEW g, NEW pr, NEW op, NEW pc, pc \notin {"profile", "delete", "drop"}
    PROVE  PlaceInv(L, g, pr, op, pc)
BY DEF PlaceInv

(* A pending operation is taken up, or there is none.                      *)
LEMMA FollowStart == ASSUME Inv, FollowInv, NEW d \in Devices, Start(d) PROVE FollowInv'
<1> DEFINE op == pending[d]
<1>1. UNCHANGED <<log, members, trusted, storage, astray>>
  BY DEF Start, server
<1>2. CASE op = NoOperation
  <2>1. call' = [call EXCEPT ![d] = At("reconcile")] /\ At("reconcile").pc = "reconcile"
    BY <1>2 DEF Start, At
  <2>2. call'[d].pc = "reconcile" /\ \A e \in Devices \ {d} : call'[e] = call[e]
    BY <2>1 DEF Inv, Types
  <2>. QED
    BY <1>1, <1>2, <2>2, CallStep, PlainPlace
<1>3. CASE op # NoOperation
  <2>1. op.kind \in Kinds
    BY <1>3 DEF Inv, Busy, OpInv
  <2>2. PICK then : call' = [call EXCEPT ![d] = Resume(op, then)]
    BY <1>3 DEF Start
  <2>3. Resume(op, then).pc \in {"submit", "write", "send"}
    BY <2>1 DEF Resume, At, Kinds, GroupKinds
  <2>4. call'[d].pc \in {"submit", "write", "send"} /\ \A e \in Devices \ {d} : call'[e] = call[e]
    BY <2>2, <2>3 DEF Inv, Types
  <2>. QED
    BY <1>1, <2>4, CallStep, PlainPlace DEF Free
<1>. QED
  BY <1>2, <1>3

(* A call ends, or goes where it needs nothing to be written.              *)
LEMMA FollowReturn ==
    ASSUME Inv, FollowInv, NEW d \in Devices, Return(d), UNCHANGED <<log, members, trusted, storage, astray>>
    PROVE  FollowInv'
<1>1. call'[d].pc = "idle" /\ \A e \in Devices \ {d} : call'[e] = call[e]
  BY DEF Return, Idle, At, Inv, Types
<1>. QED
  BY <1>1, CallStep, PlainPlace DEF Free

(* The call goes on at a place of which nothing is known.                  *)
LEMMA FollowGoto ==
    ASSUME Inv, FollowInv, NEW d \in Devices, NEW pc \in Places \ {"profile", "delete", "drop"}, Goto(d, pc),
           pc \in Free => pending[d] = NoOperation,
           UNCHANGED <<log, members, trusted, storage, astray>>
    PROVE  FollowInv'
<1>1. call'[d].pc = pc /\ \A e \in Devices \ {d} : call'[e] = call[e]
  BY Gone
<1>. QED
  BY <1>1, CallStep, PlainPlace

(* A call may stop anywhere.                                               *)
LEMMA FollowAbandon == ASSUME Inv, FollowInv, NEW d \in Devices, Abandon(d) PROVE FollowInv'
BY FollowReturn DEF Abandon, server

(* Without a pending operation it reads the state of the room.             *)
LEMMA FollowReadEpoch == ASSUME Inv, FollowInv, NEW d \in Devices, ReadEpoch(d) PROVE FollowInv'
<1>1. pending[d] = NoOperation /\ UNCHANGED <<log, members, trusted, storage, astray>>
  BY DEF ReadEpoch, server, FollowInv, Free
<1>2. call'[d].pc \in {"rekey", "list"} /\ \A e \in Devices \ {d} : call'[e] = call[e]
  <2>1. call[d] \in CallRecord
    BY DEF Inv, Types
  <2>. QED
    BY <2>1 DEF ReadEpoch, Goto, CallRecord, Inv, Types
<1>. QED
  BY <1>1, <1>2, CallStep, PlainPlace

(* A rekey that failed is looked at.                                       *)
LEMMA FollowCheckRekey == ASSUME Inv, FollowInv, NEW d \in Devices, CheckRekey(d) PROVE FollowInv'
<1>1. UNCHANGED <<log, members, trusted, storage, astray>>
  BY DEF CheckRekey, server
<1>2. "restore" \in Places \ {"profile", "delete", "drop"} /\ "restore" \notin Free
  BY DEF Places, Working, Free
<1>. QED
  BY <1>1, <1>2, FollowReturn, FollowGoto DEF CheckRekey

(* A failed submission. *)
LEMMA FollowFailed ==
    ASSUME Inv, FollowInv, NEW d \in Devices, Failed(d), UNCHANGED <<log, members, trusted, storage, astray>>
    PROVE  FollowInv'
<1>1. "check" \in Places \ {"profile", "delete", "drop"} /\ "check" \notin Free
  BY DEF Places, Working, Free
<1>. QED
  BY <1>1, FollowReturn, FollowGoto DEF Failed

(* A refused control is a failed one.                                      *)
LEMMA FollowSubmitRefused == ASSUME Inv, FollowInv, NEW d \in Devices, SubmitRefused(d) PROVE FollowInv'
BY FollowFailed DEF SubmitRefused, server

-----------------------------------------------------------------------------
(* The last Commit of a list of controls is one of them.                   *)
LEMMA LastCommitIn ==
    ASSUME NEW cs, NEW n \in Nat, ControlList(cs, n),
           NEW p \in DOMAIN cs, cs[p].kind = "commit"
    PROVE  LastCommit(cs) # None
<1> DEFINE commits == {i \in DOMAIN cs : cs[i].kind = "commit"}
<1>1. PICK len \in Nat : DOMAIN cs = 1 .. len
  BY DEF ControlList
<1>2. PICK x \in {len - i : i \in commits} : \A y \in {len - i : i \in commits} : x <= y
  <2>1. {len - i : i \in commits} \subseteq Nat /\ {len - i : i \in commits} # {}
    BY <1>1
  <2>. QED
    BY <2>1, Least
<1>3. \E i \in commits : \A j \in commits : j <= i
  <2>1. PICK i \in commits : x = len - i
    BY <1>2
  <2>2. \A j \in commits : len - i <= len - j
    BY <1>2, <2>1
  <2>. QED
    BY <1>1, <2>1, <2>2
<1>4. PICK i \in DOMAIN cs : LastCommit(cs) = cs[i].id
  BY <1>3 DEF LastCommit
<1>5. cs[i].id \in Nat
  BY <1>1, <1>4 DEF ControlList
<1>. QED
  BY <1>4, <1>5, NoneAssumption

(* A device at rest begins a bootstrap or a rekey.                         *)
LEMMA FollowBegin ==
    ASSUME Inv, FollowInv, NEW d \in Devices, call[d].pc \in Free,
           NEW kind \in GroupKinds, NEW base \in Group, NEW previous,
           \/ kind = "rekey" /\ base = group[d] /\ previous = group[d] /\ d \in group[d].leaves
           \/ kind = "bootstrap" /\ base = Root(d) /\ previous = NoGroup /\ group[d] = NoGroup,
           \A e \in Sound : e \in base.leaves => Owner[e] \in members,
           NEW gone, NEW come, gone \subseteq base.leaves \ MemberDevices,
           come \subseteq MemberDevices \ base.leaves, gone \cup come # {},
           NEW removes \in Orders(gone), NEW adds \in Orders(come), NEW revision \in Nat,
           NEW cs, cs = Controls(d, revision, base, removes, adds),
           NEW then, Begin(d, GroupOperation(kind, cs, previous), then, Len(cs)),
           UNCHANGED <<server, group, profile, topUp, topUps, astray>>
    PROVE  FollowInv'
<1>1. PICK op : op = GroupOperation(kind, cs, previous)
  OBVIOUS
<1>2. /\ op.kind = kind /\ op.controls = cs /\ op.previous = previous
      /\ op.last = LastCommit(cs)
  BY <1>1 DEF GroupOperation
<1>3. /\ pending'[d] = op /\ call'[d] = Resume(op, then)
      /\ \A e \in Devices \ {d} : pending'[e] = pending[e] /\ call'[e] = call[e]
  BY <1>1 DEF Begin, Inv, Types
<1>4. call'[d].pc = "submit"
  BY <1>2, <1>3 DEF Resume, At, GroupKinds
<1>5. made \in Nat /\ come \subseteq Devices /\ come \cap base.leaves = {}
      /\ MemberDevices \subseteq Devices
  BY DEF MemberDevices, Inv, Types
<1>6. ControlChain(cs, d, base) /\ LeavesChange(cs, base, gone, come)
  <2>1. gone \subseteq base.leaves
    OBVIOUS
  <2>. QED
    BY <1>5, <2>1, ControlsChained
<1>7. ControlList(cs, made)
  <2>1. gone \subseteq Devices
    BY DEF Group
  <2>2. /\ removes \in Seq(Devices) /\ adds \in Seq(Devices)
        /\ gone # {} => Len(removes) > 0
        /\ come # {} => Len(adds) > 0
    BY <1>5, <2>1, OrdersListed
  <2>3. Len(removes) \in Nat /\ Len(adds) \in Nat /\ Len(removes) + Len(adds) > 0
    BY <2>2
  <2>. QED
    BY <1>5, <2>2, <2>3, ControlsListed
<1>8. ControlsInv(Sound, members, d, op)
  <2>1. Base(d, op) = base
    BY <1>2 DEF Base
  <2>2. ASSUME NEW e \in Sound, NEW p \in DOMAIN cs
        PROVE  /\ e \in cs[p].from.leaves => e \in cs[p].group.leaves
               /\ e \in cs[p].group.leaves => Owner[e] \in members
    <3>1. e \notin gone
      <4>1. e \in base.leaves => e \in MemberDevices
        BY DEF Sound, MemberDevices, TrustedIn, Inv, Types
      <4>. QED
        BY <4>1
    <3>2. e \in come => Owner[e] \in members
      BY DEF MemberDevices, TrustedIn
    <3>. QED
      BY <1>6, <3>1, <3>2 DEF LeavesChange
  <2>. QED
    BY <1>2, <1>6, <2>1, <2>2 DEF ControlsInv
<1>9. op.last # None
  <2>1. PICK len \in Nat : len > 0 /\ Len(cs) = len /\ DOMAIN cs = 1 .. len
    BY <1>7 DEF ControlList
  <2>2. 1 \in DOMAIN cs /\ cs[1] \in Message /\ Placed(cs, 1)
    BY <1>7, <2>1 DEF ControlList
  <2>3. cs[1].kind = "commit"
    <3>1. 1 - 1 \notin DOMAIN cs
      BY <2>1
    <3>. QED
      BY <2>2, <3>1 DEF Placed, Message
  <2>. QED
    BY <1>2, <1>5, <1>7, <2>2, <2>3, LastCommitIn
<1>10. ASSUME d \in Sound
       PROVE  DeviceInv(log[Room], d, group[d], profile[d], op, "submit")
  <2>1. pending[d].kind = "none"
    BY DEF FollowInv, NoOperation
  <2>2. ProfileInv(log[Room], d, profile[d]) /\ AtRest(log[Room], d, group[d], profile[d])
    BY <1>10, <2>1 DEF FollowInv, DeviceInv, OperationInv
  <2>3. CASE kind = "rekey"
    <3>1. profile[d].last # None
      BY <2>2, <2>3 DEF AtRest, NoGroup
    <3>2. InTouch(log[Room], d, group[d], profile[d].cursor) /\ OwnUpTo(log[Room], d, group[d].epoch)
      BY <2>2, <3>1 DEF AtRest
    <3>3. previous = group[d]
      BY <2>3
    <3>4. OwnOnly(log[Room], d, op)
      <4>1. \A m \in log[Room] : m.epoch \in Nat /\ group[d].epoch \in Nat
        BY DEF Inv, Types, Message, Group
      <4>. QED
        BY <1>2, <3>2, <3>3, <4>1 DEF OwnOnly, OwnUpTo
    <3>5. OperationInv(log[Room], d, group[d], profile[d], op)
      BY <1>2, <1>9, <2>3, <3>1, <3>2, <3>3, <3>4 DEF OperationInv
    <3>. QED
      BY <2>2, <3>5, PlainPlace DEF DeviceInv
  <2>4. CASE kind = "bootstrap"
    <3>1. profile[d].last = None /\ OwnUpTo(log[Room], d, 0)
      BY <2>2, <2>4 DEF AtRest, InTouch, NoGroup
    <3>2. profile[d].cursor = 0
      BY <2>2, <3>1 DEF ProfileInv
    <3>3. previous = NoGroup /\ NoGroup.epoch = 0
      BY <2>4 DEF NoGroup
    <3>4. OwnOnly(log[Room], d, op)
      <4>1. \A m \in log[Room] : m.epoch \in Nat
        BY DEF Inv, Types, Message
      <4>. QED
        BY <1>2, <3>1, <3>3, <4>1 DEF OwnOnly, OwnUpTo
    <3>5. OperationInv(log[Room], d, group[d], profile[d], op)
      BY <1>2, <1>9, <2>4, <3>2, <3>3, <3>4 DEF OperationInv
    <3>. QED
      BY <2>2, <3>5, PlainPlace DEF DeviceInv
  <2>. QED
    BY <2>3, <2>4
<1>11. UNCHANGED <<log, members, trusted, group, profile, astray>>
  BY DEF server
<1>12. d \in Sound =>
          DeviceInv(log[Room], d, group'[d], profile'[d], pending'[d], call'[d].pc)
  BY <1>3, <1>4, <1>10, <1>11
<1>. QED
  BY <1>3, <1>4, <1>8, <1>11, <1>12, OwnStep DEF Free

(* reconcileGroup removes devices that are no longer of members.           *)
LEMMA FollowReconcile == ASSUME Inv, FollowInv, NEW d \in Devices, Reconcile(d) PROVE FollowInv'
<1>. DEFINE toRemove == group[d].leaves \ MemberDevices
            toAdd    == MemberDevices \ group[d].leaves
<1>1. group[d] \in Group /\ OnLog(log[Room], group[d]) /\ call[d].pc \in Free /\ call[d].revision \in Nat
  BY DEF Inv, Types, Reconcile, Free, CallRecord
<1>2. CASE toRemove \cup toAdd = {}
  <2>1. "list" \in Places \ {"profile", "delete", "drop"}
    BY DEF Places, Working
  <2>2. Goto(d, "list") /\ UNCHANGED <<log, members, trusted, storage, astray>>
    BY <1>2 DEF Reconcile, storage, server
  <2>3. pending[d] = NoOperation
    BY <1>1 DEF FollowInv
  <2>. QED
    BY <2>1, <2>2, <2>3, FollowGoto
<1>3. CASE toRemove \cup toAdd # {}
  <2>1. PICK removes \in Orders(toRemove), adds \in Orders(toAdd) :
            LET cs == Controls(d, call[d].revision, group[d], removes, adds)
            IN  Begin(d, GroupOperation("rekey", cs, group[d]), "list", Len(cs))
    BY <1>3 DEF Reconcile
  <2>2. PICK cs : cs = Controls(d, call[d].revision, group[d], removes, adds)
    OBVIOUS
  <2>3. Begin(d, GroupOperation("rekey", cs, group[d]), "list", Len(cs))
    BY <2>1, <2>2
  <2>4. d \in group[d].leaves /\ UNCHANGED <<server, group, profile, topUp, topUps, astray>>
    BY DEF Reconcile
  <2>5. \A e \in Sound : e \in group[d].leaves => Owner[e] \in members
    BY <1>1 DEF OnLog, NoGroup, FollowInv, QueueInv, LeavesInv
  <2>6. "rekey" \in GroupKinds
    BY DEF GroupKinds
  <2>7. PICK gone, come : gone = toRemove /\ come = toAdd
    OBVIOUS
  <2>. QED
    BY <1>1, <1>3, <2>1, <2>2, <2>3, <2>4, <2>5, <2>6, <2>7, FollowBegin
<1>. QED
  BY <1>2, <1>3

(* bootstrapRoom starts from the group of its own device alone.            *)
LEMMA FollowBootstrap == ASSUME Inv, FollowInv, NEW d \in Devices, Bootstrap(d) PROVE FollowInv'
<1>. DEFINE others == {e \in MemberDevices : Owner[e] # Owner[d]}
<1>1. PICK adds \in Orders(others) :
          LET cs == Controls(d, call[d].revision, Root(d), <<>>, adds)
          IN  Begin(d, GroupOperation("bootstrap", cs, NoGroup), "epoch", Len(cs))
  BY DEF Bootstrap
<1>2. <<>> \in Orders({})
  <2>1. Cardinality({}) = 0
    BY FS_EmptySet
  <2>2. <<>> \in [1 .. 0 -> {}] /\ DOMAIN <<>> = {}
    OBVIOUS
  <2>. QED
    BY <2>1, <2>2 DEF Orders
<1>3. PICK none \in Orders({}) : none = <<>>
  BY <1>2
<1>4. PICK cs : cs = Controls(d, call[d].revision, Root(d), none, adds)
  OBVIOUS
<1>5. Begin(d, GroupOperation("bootstrap", cs, NoGroup), "epoch", Len(cs))
  BY <1>1, <1>3, <1>4
<1>6. /\ call[d].pc \in Free /\ group[d] = NoGroup /\ Owner[d] \in members /\ others # {}
      /\ call[d].revision \in Nat /\ UNCHANGED <<server, group, profile, topUp, topUps, astray>>
  BY DEF Bootstrap, Free, Inv, Types, CallRecord
<1>7. Root(d) \in Group /\ Root(d).leaves = {d}
  BY NoGroupTyped DEF Root
<1>8. PICK come : come = others
  OBVIOUS
<1>9. come \subseteq MemberDevices \ {d} /\ come # {}
  BY <1>6, <1>8
<1>10. PICK gone : gone = {}
  OBVIOUS
<1>11. "bootstrap" \in GroupKinds
  BY DEF GroupKinds
<1>. QED
  BY <1>1, <1>3, <1>4, <1>5, <1>6, <1>7, <1>8, <1>9, <1>10, <1>11, FollowBegin

-----------------------------------------------------------------------------
(* A page is read: what it leads to is in touch.                           *)
LEMMA FollowListControls == ASSUME Inv, FollowInv, NEW d \in Devices, ListControls(d) PROVE FollowInv'
<1> DEFINE L == log[Room]
           page == {m \in L : d \in m.to /\ m.seq > profile[d].cursor}
           commits == {m \in page : m.kind = "commit"}
           new == Applied(d, page)
           op == [kind |-> "inbound", group |-> new.group, cursor |-> Last(page).seq,
                  last |-> IF commits = {} THEN profile[d].last ELSE Last(commits).id]
<1>1. Due(d) = page
  BY DEF Due
<1>2. /\ call[d].pc = "list" /\ pending[d] = NoOperation
      /\ UNCHANGED <<log, members, trusted, group, profile, astray>>
  BY DEF ListControls, server, FollowInv, Free
<1>3. CASE page = {} \/ (~Joined(d) /\ Welcomes(page) = {})
  <2>1. Goto(d, "epoch") /\ pending' = pending
    BY <1>1, <1>3 DEF ListControls
  <2>2. "epoch" \in Places \ {"profile", "delete", "drop"}
    BY DEF Places, Working
  <2>. QED
    BY <1>2, <2>1, <2>2, FollowGoto DEF storage
<1>4. CASE page # {} /\ (Joined(d) \/ Welcomes(page) # {})
  <2>1. new.ok /\ Begin(d, op, "epoch", 0)
    BY <1>1, <1>4 DEF ListControls
  <2>2. pending'[d] = op /\ call'[d] = Resume(op, "epoch")
        /\ \A e \in Devices \ {d} : pending'[e] = pending[e] /\ call'[e] = call[e]
    BY <2>1 DEF Begin, Inv, Types
  <2>3. op.kind = "inbound" /\ op.group = new.group /\ op.cursor = Last(page).seq
        /\ op.last = IF commits = {} THEN profile[d].last ELSE Last(commits).id
    OBVIOUS
  <2>4. call'[d].pc = "write"
    BY <2>2, <2>3 DEF Resume, At, GroupKinds
  <2>5. L \subseteq Message /\ page \subseteq Message /\ commits \subseteq page
    BY DEF Inv, Types
  <2>6. PICK b \in Nat : \A m \in L : m.seq <= b
    BY DEF Inv, LogInv
  <2>7. \A T \in SUBSET page : T # {} => Last(T) \in T /\ \A m \in T : m.seq <= Last(T).seq
    BY <2>5, <2>6, LastOf
  <2>8. ASSUME d \in Sound PROVE DeviceInv(L, d, group[d], profile[d], op, "write")
    <3>1. ProfileInv(L, d, profile[d]) /\ AtRest(L, d, group[d], profile[d])
      BY <1>2, <2>8 DEF FollowInv, DeviceInv, OperationInv, NoOperation
    <3>2. QueueInv(L, Sound, members) /\ Row.active \in Nat /\ LogInv(L, Row.active, made)
      BY DEF FollowInv, Inv, Types, EpochRow, Row
    <3>3. Last(page) \in page /\ \A m \in page : m.seq <= Last(page).seq
      BY <1>4, <2>7
    <3>4. Last(page).seq <= Cardinality(L)
      BY <3>2, <3>3 DEF QueueInv, OrderInv
    <3>5. commits # {} => Last(commits).id # None
      BY <2>5, <2>7, NoneAssumption DEF Message
    <3>6. CASE Joined(d)
      <4>1. new.group = Last(page).group
        BY <1>4, <3>6 DEF Applied, GroupAfter
      <4>2. /\ InTouch(L, d, group[d], profile[d].cursor) /\ OwnUpTo(L, d, group[d].epoch)
            /\ group[d] \in Group /\ OnLog(L, group[d]) /\ profile[d].cursor \in Nat
        BY <3>1, <3>6 DEF AtRest, Joined, Inv, Types
      <4>3. /\ InTouch(L, d, Last(page).group, Last(page).seq)
            /\ OwnUpTo(L, d, Last(page).group.epoch)
        <5>1. PICK p : p = page
          OBVIOUS
        <5>2. PICK last \in p : last = Last(page) /\ \A m \in p : m.seq <= last.seq
          BY <3>3, <5>1
        <5>. QED
          BY <2>5, <2>8, <3>2, <4>2, <5>1, <5>2, TouchRead DEF QueueInv
      <4>4. Entered(L, d) /\ op.last # None
        BY <2>3, <3>1, <3>5, <3>6 DEF ProfileInv, Joined
      <4>5. OperationInv(L, d, group[d], profile[d], op)
        BY <2>3, <3>4, <4>1, <4>3, <4>4 DEF OperationInv, GroupKinds
      <4>. QED
        BY <3>1, <4>5, PlainPlace DEF DeviceInv
    <3>7. CASE ~Joined(d)
      <4>1. PICK w : w = First(Welcomes(page))
        OBVIOUS
      <4>2. w \in page /\ w.kind = "welcome"
        <5>1. Welcomes(page) \subseteq Message /\ Welcomes(page) # {}
          BY <1>4, <2>5, <3>7 DEF Welcomes
        <5>. QED
          BY <4>1, <5>1, FirstIn DEF Welcomes
      <4>3. PICK rest \in SUBSET page : rest = {m \in page : m.seq > w.seq}
        OBVIOUS
      <4>4. /\ \E m \in page : m.kind = "commit"
            /\ Follows(d, w.group, rest) /\ new.group = GroupAfter(w.group, rest)
        BY <2>1, <3>7, <4>1, <4>3 DEF Applied
      <4>5. \A m \in page : m.seq > w.seq => m.kind = "commit"
        BY <4>3, <4>4 DEF Follows
      <4>6. OwnUpTo(L, d, 0) /\ profile[d].cursor = 0
        BY <3>1, <3>7 DEF AtRest, ProfileInv, Joined
      <4>7. \A m \in page : m.seq \in Nat
        BY <2>5 DEF Message
      <4>8. PICK last \in page : /\ \A m \in page : m.seq <= last.seq
                                 /\ \/ last = w /\ new.group = w.group
                                    \/ last.seq > w.seq /\ new.group = last.group
        <5>1. CASE rest = {}
          <6>1. \A m \in page : m.seq <= w.seq
            BY <4>2, <4>3, <4>7, <5>1
          <6>. QED
            BY <4>2, <4>4, <5>1, <6>1 DEF GroupAfter
        <5>2. CASE rest # {}
          <6>1. Last(rest) \in rest /\ \A m \in rest : m.seq <= Last(rest).seq
            BY <2>7, <5>2
          <6>2. \A m \in page : m.seq <= Last(rest).seq
            BY <4>2, <4>3, <4>7, <6>1
          <6>. QED
            BY <4>3, <4>4, <5>2, <6>1, <6>2 DEF GroupAfter
        <5>. QED
          BY <5>1, <5>2
      <4>9. last.seq = Last(page).seq
        BY <3>3, <4>7, <4>8
      <4>10. InTouch(L, d, new.group, last.seq) /\ OwnUpTo(L, d, new.group.epoch)
        <5>1. PICK p, g : p = page /\ g = new.group
          OBVIOUS
        <5>2. p = {m \in L : d \in m.to /\ m.seq > 0}
          BY <4>6, <5>1
        <5>3. /\ w \in p /\ \A m \in p : m.seq > w.seq => m.kind = "commit"
              /\ last \in p /\ \A m \in p : m.seq <= last.seq
              /\ \/ last = w /\ g = w.group
                 \/ last.seq > w.seq /\ g = last.group
          BY <4>2, <4>5, <4>8, <5>1
        <5>4. InTouch(L, d, g, last.seq) /\ OwnUpTo(L, d, g.epoch)
          BY <2>5, <2>8, <3>2, <4>2, <4>6, <5>2, <5>3, WelcomeRead DEF QueueInv
        <5>. QED
          BY <5>1, <5>4
      <4>11. Entered(L, d) /\ op.last # None
        BY <2>3, <3>5, <4>2, <4>4 DEF Entered
      <4>12. OperationInv(L, d, group[d], profile[d], op)
        BY <2>3, <3>4, <4>9, <4>10, <4>11 DEF OperationInv, GroupKinds
      <4>. QED
        BY <3>1, <4>12, PlainPlace DEF DeviceInv
    <3>. QED
      BY <3>6, <3>7
  <2>9. pending'[d].kind \notin GroupKinds
    BY <2>2, <2>3 DEF GroupKinds
  <2>10. d \in Sound =>
            DeviceInv(log[Room], d, group'[d], profile'[d], pending'[d], call'[d].pc)
    BY <1>2, <2>2, <2>4, <2>8
  <2>. QED
    BY <1>2, <2>2, <2>4, <2>9, <2>10, OwnStep DEF Free
<1>. QED
  BY <1>3, <1>4

-----------------------------------------------------------------------------
(* A message is encrypted: the device stays at rest. *)
LEMMA FollowReadRoom == ASSUME Inv, FollowInv, NEW d \in Devices, ReadRoom(d) PROVE FollowInv'
<1>1. /\ call[d].pc = "epoch" /\ pending[d] = NoOperation
      /\ UNCHANGED <<log, members, trusted, group, profile, astray>>
  BY DEF ReadRoom, server, FollowInv, Free
<1>2. CASE Row.active = 0
  <2>1. pending' = pending /\ call' = [call EXCEPT ![d].pc = "bootstrap", ![d].revision = Row.revision]
    BY <1>2 DEF ReadRoom
  <2>2. call'[d].pc = "bootstrap" /\ \A e \in Devices \ {d} : call'[e] = call[e]
    BY <2>1 DEF Inv, Types, CallRecord
  <2>. QED
    BY <1>1, <2>1, <2>2, CallStep, PlainPlace DEF storage
<1>3. CASE Row.active # 0
  <2>1. PICK op : op = [kind |-> "application", key |-> made + 1, group |-> group[d],
                        control |-> profile[d].last]
    OBVIOUS
  <2>2. /\ pending' = [pending EXCEPT ![d] = op] /\ Return(d) /\ Joined(d)
        /\ op.kind = "application" /\ op.group = group[d]
    BY <1>3, <2>1 DEF ReadRoom, CanEncrypt
  <2>3. /\ pending'[d] = op /\ call'[d].pc = "idle"
        /\ \A e \in Devices \ {d} : pending'[e] = pending[e] /\ call'[e] = call[e]
    BY <2>2 DEF Return, Idle, At, Inv, Types
  <2>4. ASSUME d \in Sound PROVE DeviceInv(log[Room], d, group[d], profile[d], op, "idle")
    <3>1. ProfileInv(log[Room], d, profile[d]) /\ AtRest(log[Room], d, group[d], profile[d])
      BY <1>1, <2>4 DEF FollowInv, DeviceInv, OperationInv, NoOperation
    <3>2. OperationInv(log[Room], d, group[d], profile[d], op)
      BY <2>2, <3>1 DEF OperationInv, GroupKinds, Joined
    <3>. QED
      BY <3>1, <3>2, PlainPlace DEF DeviceInv
  <2>5. op.kind \notin GroupKinds
    BY <2>2 DEF GroupKinds
  <2>6. d \in Sound => DeviceInv(log[Room], d, group'[d], profile'[d], pending'[d], call'[d].pc)
    BY <1>1, <2>3, <2>4
  <2>. QED
    BY <1>1, <2>3, <2>5, <2>6, OwnStep DEF Free
<1>. QED
  BY <1>2, <1>3

(* Sending a message changes nothing of the device.                        *)
LEMMA FollowSend == ASSUME Inv, FollowInv, NEW d \in Devices, Send(d) PROVE FollowInv'
<1>1. UNCHANGED <<log, members, trusted, storage, astray>> /\ Goto(d, "write")
  BY DEF Send
<1>2. "write" \in Places \ {"profile", "delete", "drop"} /\ "write" \notin Free
  BY DEF Places, Working, Free
<1>. QED
  BY <1>1, <1>2, FollowGoto

(* A rekey is given up: nothing of it has been taken, or the device is lost. *)
LEMMA FollowRestoreState == ASSUME Inv, FollowInv, NEW d \in Devices, RestoreState(d) PROVE FollowInv'
<1> DEFINE op == pending[d]
<1>1. call[d].pc = "restore" /\ UNCHANGED <<log, members, trusted, profile, pending>>
  BY DEF RestoreState, server
<1>2. op.kind = "rekey"
  BY <1>1, AtWork DEF Working, CallInv
<1>3. /\ group'[d] = op.previous /\ call'[d].pc = "drop"
      /\ \A e \in Devices \ {d} : group'[e] = group[e] /\ call'[e] = call[e]
  BY DEF RestoreState, Goto, Inv, Types, CallRecord
<1>4. astray \subseteq astray' /\ (d \in Sound' => ~OwnTaken(d))
  BY DEF RestoreState, Sound
<1>5. ASSUME d \in Sound, d \in Sound'
      PROVE  DeviceInv(log[Room], d, op.previous, profile[d], op, "drop")
  <2>1. ProfileInv(log[Room], d, profile[d]) /\ OperationInv(log[Room], d, group[d], profile[d], op)
    BY <1>5 DEF FollowInv, DeviceInv
  <2>2. OperationInv(log[Room], d, op.previous, profile[d], op)
    BY <1>2, <2>1 DEF OperationInv
  <2>3. ~OwnIn(log[Room], op)
    BY <1>4, <1>5 DEF OwnIn, OwnTaken, Commits
  <2>. QED
    BY <2>1, <2>2, <2>3 DEF DeviceInv, PlaceInv
<1>. QED
  BY <1>1, <1>3, <1>4, <1>5, OwnStep DEF Free

(* The rekey given up: as the state is the one before it, at rest.         *)
LEMMA FollowDropPending == ASSUME Inv, FollowInv, NEW d \in Devices, DropPending(d) PROVE FollowInv'
<1> DEFINE op == pending[d]
<1>1. call[d].pc = "drop" /\ UNCHANGED <<log, members, trusted, group, profile, astray>>
  BY DEF DropPending, server
<1>2. op.kind = "rekey"
  BY <1>1, AtWork DEF Working, CallInv
<1>3. /\ pending'[d] = NoOperation /\ call'[d].pc = "reconcile"
      /\ \A e \in Devices \ {d} : pending'[e] = pending[e] /\ call'[e] = call[e]
  BY DEF DropPending, At, Inv, Types
<1>4. ASSUME d \in Sound
      PROVE  DeviceInv(log[Room], d, group[d], profile[d], NoOperation, "reconcile")
  <2>1. /\ ProfileInv(log[Room], d, profile[d]) /\ OperationInv(log[Room], d, group[d], profile[d], op)
        /\ group[d] = op.previous /\ ~OwnIn(log[Room], op)
    BY <1>1, <1>4 DEF FollowInv, DeviceInv, PlaceInv
  <2>2. /\ profile[d].last # None /\ InTouch(log[Room], d, group[d], profile[d].cursor)
        /\ OwnOnly(log[Room], d, op)
    BY <1>2, <2>1 DEF OperationInv, GroupKinds
  <2>3. OwnUpTo(log[Room], d, group[d].epoch)
    <3>1. \A m \in log[Room] : m.epoch \in Nat /\ group[d].epoch \in Nat
      BY DEF Inv, Types, Message, Group
    <3>. QED
      BY <2>1, <2>2, <3>1 DEF OwnOnly, OwnIn, OwnUpTo
  <2>4. OperationInv(log[Room], d, group[d], profile[d], NoOperation)
    BY <2>2, <2>3 DEF OperationInv, AtRest, NoOperation, GroupKinds
  <2>. QED
    BY <2>1, <2>4, PlainPlace DEF DeviceInv
<1>5. NoOperation.kind \notin GroupKinds
  BY DEF NoOperation, GroupKinds
<1>. QED
  BY <1>1, <1>3, <1>4, <1>5, OwnStep

-----------------------------------------------------------------------------
(* The writes that end an operation. *)

(* The state is that of the operation.                                     *)
LEMMA FollowWriteState == ASSUME Inv, FollowInv, NEW d \in Devices, WriteState(d) PROVE FollowInv'
<1> DEFINE op == pending[d]
<1>1. call[d].pc = "write" /\ UNCHANGED <<log, members, trusted, profile, pending, astray>>
  BY DEF WriteState, server
<1>2. op.kind \in Kinds
  BY <1>1, AtWork DEF Working, CallInv
<1>3. /\ group'[d] = op.group /\ call'[d].pc = IF op.kind = "application" THEN "delete" ELSE "profile"
      /\ \A e \in Devices \ {d} : group'[e] = group[e] /\ call'[e] = call[e]
  BY DEF WriteState, Goto, Inv, Types, CallRecord
<1>4. ASSUME d \in Sound
      PROVE  DeviceInv(log[Room], d, op.group, profile[d], op, call'[d].pc)
  <2>1. ProfileInv(log[Room], d, profile[d]) /\ OperationInv(log[Room], d, group[d], profile[d], op)
    BY <1>4 DEF FollowInv, DeviceInv
  <2>2. OperationInv(log[Room], d, op.group, profile[d], op)
    BY <1>2, <2>1 DEF OperationInv, Kinds, GroupKinds
  <2>3. PlaceInv(log[Room], op.group, profile[d], op, call'[d].pc)
    BY <1>3, <2>1 DEF PlaceInv, OperationInv
  <2>. QED
    BY <2>1, <2>2, <2>3 DEF DeviceInv
<1>5. call'[d].pc \notin Free
  BY <1>3 DEF Free
<1>. QED
  BY <1>1, <1>3, <1>4, <1>5, OwnStep

(* When the server has all controls of a bootstrap, its device has created *)
(* the group.                                                              *)
LEMMA Created ==
    ASSUME NEW L, L \subseteq Message, NEW active, NEW n \in Nat, LogInv(L, active, n),
           NEW S, NEW M, NEW d, NEW op, op.kind = "bootstrap", op.previous = NoGroup,
           GroupOpInv(L, n, op), ControlsInv(S, M, d, op),
           \A p \in DOMAIN op.controls : InLog(L, op.controls[p])
    PROVE  Entered(L, d)
<1> DEFINE cs == op.controls
<1>1. PICK len \in Nat : /\ len > 0 /\ Len(cs) = len /\ DOMAIN cs = 1 .. len
                         /\ \A p \in 1 .. len : cs[p] \in Message /\ Placed(cs, p)
  BY OwnControls
<1>2. Base(d, op).epoch = 0
  BY DEF Base, Root
<1>3. 1 \in (0 + 1) .. cs[len].group.epoch
  <2>1. 1 \in 1 .. len /\ len \in 1 .. len
    BY <1>1
  <2>2. cs[1].epoch \in Nat /\ cs[len].group.epoch \in Nat
    BY <1>1, <2>1 DEF Message, Group
  <2>3. 0 < cs[1].epoch /\ cs[1].epoch <= cs[len].group.epoch
    BY <1>1, <1>2, <2>1 DEF ControlsInv, ControlChain
  <2>. QED
    BY <2>2, <2>3
<1>4. PICK p \in DOMAIN cs : cs[p].kind = "commit" /\ cs[p].epoch = 1 /\ cs[p].sender = d
  BY <1>1, <1>2, <1>3 DEF ControlsInv, ControlChain
<1>5. PICK x \in L : x.id = cs[p].id
  BY <1>4 DEF InLog
<1>6. x.kind = "commit" /\ x.sender = d /\ x.group = cs[p].group
  BY <1>4, <1>5 DEF GroupOpInv, SameAs
<1>7. x.epoch = 1
  BY <1>1, <1>4, <1>6 DEF LogInv, Placed
<1>. QED
  BY <1>6, <1>7 DEF Entered

(* The profile is: the cursor moves only over what has been read.          *)
LEMMA FollowWriteProfile == ASSUME Inv, FollowInv, NEW d \in Devices, WriteProfile(d) PROVE FollowInv'
<1> DEFINE op == pending[d]
           L  == log[Room]
<1>1. call[d].pc = "profile" /\ UNCHANGED <<log, members, trusted, group, pending, astray>>
  BY DEF WriteProfile, server
<1>2. /\ op.kind \in GroupKinds \cup {"inbound"} /\ OpInv(L, made, op)
      /\ op.kind \in GroupKinds => \A p \in DOMAIN op.controls : InLog(L, op.controls[p])
  BY <1>1, AtWork DEF Working, CallInv
<1>3. PICK pr : pr = [cursor |-> IF op.kind = "inbound" THEN op.cursor ELSE profile[d].cursor,
                      last |-> op.last]
  OBVIOUS
<1>4. /\ profile'[d] = pr /\ call'[d].pc = "delete"
      /\ \A e \in Devices \ {d} : profile'[e] = profile[e] /\ call'[e] = call[e]
  <2>1. DOMAIN profile = Devices /\ call \in [Devices -> CallRecord]
    BY DEF Inv, Types
  <2>2. profile' = [profile EXCEPT ![d] = pr]
    BY <1>3, <2>1 DEF WriteProfile
  <2>. QED
    BY <2>1, <2>2 DEF WriteProfile, Goto, CallRecord
<1>5. ASSUME d \in Sound
      PROVE  DeviceInv(L, d, group[d], pr, op, "delete")
  <2>1. /\ ProfileInv(L, d, profile[d]) /\ OperationInv(L, d, group[d], profile[d], op)
        /\ group[d] = op.group
    BY <1>1, <1>5 DEF FollowInv, DeviceInv, PlaceInv
  <2>2. pr.last = op.last /\ op.last # None
    BY <1>2, <1>3, <2>1 DEF OperationInv
  <2>3. pr.cursor = IF op.kind = "inbound" THEN op.cursor ELSE profile[d].cursor
    BY <1>3
  <2>4. Entered(L, d)
    <3>1. CASE op.kind = "bootstrap"
      <4>1. op.previous = NoGroup /\ ControlsInv(Sound, members, d, op) /\ op.kind \in GroupKinds
        BY <2>1, <3>1 DEF OperationInv, FollowInv, GroupKinds
      <4>2. GroupOpInv(L, made, op) /\ made \in Nat /\ L \subseteq Message /\ LogInv(L, Row.active, made)
        BY <1>2, <4>1 DEF OpInv, Inv, Types
      <4>. QED
        BY <1>2, <3>1, <4>1, <4>2, Created
    <3>2. CASE op.kind = "rekey"
      BY <2>1, <3>2 DEF OperationInv, ProfileInv
    <3>3. CASE op.kind = "inbound"
      BY <2>1, <3>3 DEF OperationInv
    <3>. QED
      BY <1>2, <3>1, <3>2, <3>3 DEF GroupKinds
  <2>5. ProfileInv(L, d, pr)
    BY <2>1, <2>2, <2>3, <2>4 DEF ProfileInv, OperationInv
  <2>6. OperationInv(L, d, group[d], pr, op)
    BY <1>2, <2>1, <2>2, <2>3 DEF OperationInv, GroupKinds
  <2>7. PlaceInv(L, group[d], pr, op, "delete")
    BY <2>1, <2>2, <2>3 DEF PlaceInv
  <2>. QED
    BY <2>5, <2>6, <2>7 DEF DeviceInv
<1>. QED
  BY <1>1, <1>4, <1>5, OwnStep DEF Free

(* The operation is done: the device is at rest.                           *)
LEMMA FollowDeletePending == ASSUME Inv, FollowInv, NEW d \in Devices, DeletePending(d) PROVE FollowInv'
<1> DEFINE op == pending[d]
           L  == log[Room]
<1>1. call[d].pc = "delete" /\ UNCHANGED <<log, members, trusted, group, profile, astray>>
  BY DEF DeletePending, server
<1>2. /\ op.kind \in Kinds /\ OpInv(L, made, op)
      /\ op.kind \in GroupKinds => \A p \in DOMAIN op.controls : InLog(L, op.controls[p])
  BY <1>1, AtWork DEF Working, CallInv
<1>3. PICK pc : call' = [call EXCEPT ![d] = At(pc)] /\ pc \in Free \cup {"idle"}
  <2>1. PICK pc : pc = IF call[d].then = "end" THEN "idle" ELSE call[d].then
    OBVIOUS
  <2>2. pc \in Free \cup {"idle"}
    BY <2>1 DEF Inv, Types, CallRecord, Free
  <2>3. call' = [call EXCEPT ![d] = At(pc)]
    BY <2>1 DEF DeletePending, Continue, Inv, Types
  <2>. QED
    BY <2>2, <2>3
<1>4. /\ pending'[d] = NoOperation /\ call'[d].pc = pc
      /\ \A e \in Devices \ {d} : pending'[e] = pending[e] /\ call'[e] = call[e]
  BY <1>3 DEF DeletePending, At, Inv, Types
<1>5. ASSUME d \in Sound
      PROVE  DeviceInv(L, d, group[d], profile[d], NoOperation, pc)
  <2>1. /\ ProfileInv(L, d, profile[d]) /\ OperationInv(L, d, group[d], profile[d], op)
        /\ group[d] = op.group /\ profile[d].last # None
        /\ op.kind = "inbound" => profile[d].cursor = op.cursor
    BY <1>1, <1>5 DEF FollowInv, DeviceInv, PlaceInv
  <2>2. AtRest(L, d, group[d], profile[d])
    <3>1. CASE op.kind \in GroupKinds
      <4>1. /\ ControlsInv(Sound, members, d, op) /\ GroupOpInv(L, made, op)
            /\ made \in Nat /\ L \subseteq Message /\ LogInv(L, Row.active, made) /\ Row.active \in Nat
            /\ QueueInv(L, Sound, members) /\ profile[d].cursor \in Nat
        BY <1>2, <3>1 DEF FollowInv, OpInv, Inv, Types, Row, EpochRow
      <4>. QED
        BY <1>2, <1>5, <2>1, <3>1, <4>1, Finished
    <3>2. CASE op.kind = "inbound"
      BY <2>1, <3>2 DEF OperationInv, AtRest
    <3>3. CASE op.kind = "application"
      BY <2>1, <3>3 DEF OperationInv
    <3>. QED
      BY <1>2, <3>1, <3>2, <3>3 DEF Kinds
  <2>3. OperationInv(L, d, group[d], profile[d], NoOperation)
    BY <2>2 DEF OperationInv, NoOperation, GroupKinds
  <2>4. PlaceInv(L, group[d], profile[d], NoOperation, pc)
    BY <1>3, PlainPlace DEF Free
  <2>. QED
    BY <2>1, <2>3, <2>4 DEF DeviceInv
<1>6. NoOperation.kind \notin GroupKinds
  BY DEF NoOperation, GroupKinds
<1>. QED
  BY <1>1, <1>4, <1>5, <1>6, OwnStep

-----------------------------------------------------------------------------
(* A top-up that writes an older state loses the device.                   *)
LEMMA FollowTopUp ==
    ASSUME Inv, FollowInv, NEW d \in Devices, TopUpRead(d) \/ TopUpWrite(d) PROVE FollowInv'
<1>1. CASE TopUpRead(d)
  <2>1. call' = call /\ UNCHANGED <<log, members, trusted, storage, astray>>
    BY <1>1 DEF TopUpRead, server
  <2>2. call[d].pc \in Free => pending[d] = NoOperation
    BY DEF FollowInv
  <2>3. d \in Sound => PlaceInv(log[Room], group[d], profile[d], pending[d], call[d].pc)
    BY DEF FollowInv, DeviceInv
  <2>. QED
    BY <2>1, <2>2, <2>3, CallStep
<1>2. CASE TopUpWrite(d)
  <2>1. /\ UNCHANGED <<log, members, trusted, profile, pending, call>> /\ astray \subseteq astray'
        /\ \A e \in Devices \ {d} : group'[e] = group[e]
        /\ d \in Sound' => group'[d] = group[d]
    BY <1>2 DEF TopUpWrite, server, Sound, Inv, Types
  <2>2. call[d].pc \in Free => pending[d] = NoOperation
    BY DEF FollowInv
  <2>3. d \in Sound => DeviceInv(log[Room], d, group[d], profile[d], pending[d], call[d].pc)
    BY DEF FollowInv
  <2>. QED
    BY <2>1, <2>2, <2>3, OwnStep
<1>. QED
  BY <1>1, <1>2

-----------------------------------------------------------------------------
(* A control is taken                                                      *)

(* What a device knows stays true when a message is appended that is an    *)
(* own one only if its operation made it.                                  *)
LEMMA DeviceKept ==
    ASSUME NEW L, L \subseteq Message, NEW active \in Nat, NEW n, LogInv(L, active, n),
           NEW row \in Message, row.seq = Cardinality(L) + 1, \A x \in L : x.id # row.id,
           NEW d, NEW g \in Group, NEW pr, NEW op, NEW pc, DeviceInv(L, d, g, pr, op, pc),
           OnLog(L, g), pr.cursor \in Nat, op.kind \in Kinds \cup {"none"},
           op.kind = "inbound" => op.group \in Group /\ OnLog(L, op.group) /\ op.cursor \in Nat,
           op.kind = "rekey" => op.previous \in Group /\ OnLog(L, op.previous),
           \/ row.kind = "welcome" /\ (Entered(L, d) => d \notin row.to)
           \/ /\ row.kind = "commit" /\ row.epoch = active + 1 /\ row.sender \notin row.to
              /\ \A c \in L : c.kind = "commit" /\ d \in c.group.leaves =>
                                 (d # row.sender => d \in row.to),
           row.kind = "commit" /\ row.sender = d =>
              op.kind \in GroupKinds /\ \E p \in DOMAIN op.controls : row.id = op.controls[p].id,
           pc = "drop" => \A p \in DOMAIN op.controls : row.id # op.controls[p].id
    PROVE  DeviceInv(L \cup {row}, d, g, pr, op, pc)
<1> DEFINE R == L \cup {row}
<1>1. Cardinality(L) \in Nat /\ Cardinality(R) = Cardinality(L) + 1
  BY FS_CardinalityType, FS_AddElement DEF LogInv
<1>2. Entered(L, d) => Entered(R, d)
  BY DEF Entered
<1>3. ASSUME NEW h \in Group, NEW k \in Nat, k <= Cardinality(L), OnLog(L, h), InTouch(L, d, h, k),
             Entered(L, d)
      PROVE  InTouch(R, d, h, k)
  BY <1>3, TouchKept
<1>4. ASSUME op.kind \notin GroupKinds, NEW e, OwnUpTo(L, d, e)
      PROVE  OwnUpTo(R, d, e)
  BY <1>4 DEF OwnUpTo
<1>5. ProfileInv(L, d, pr) /\ OperationInv(L, d, g, pr, op) /\ PlaceInv(L, g, pr, op, pc)
  BY DEF DeviceInv
<1>6. ProfileInv(R, d, pr)
  BY <1>1, <1>2, <1>5 DEF ProfileInv
<1>7. OperationInv(R, d, g, pr, op)
  <2>1. CASE op.kind \in {"none", "application"}
    <3>1. AtRest(L, d, g, pr) /\ op.kind \notin GroupKinds
      BY <1>5, <2>1 DEF OperationInv, GroupKinds
    <3>2. AtRest(R, d, g, pr)
      BY <1>3, <1>4, <1>5, <3>1 DEF AtRest, ProfileInv
    <3>. QED
      BY <1>5, <2>1, <3>1, <3>2 DEF OperationInv
  <2>2. CASE op.kind = "inbound"
    <3>1. /\ op.last # None /\ Entered(L, d) /\ op.cursor <= Cardinality(L)
          /\ InTouch(L, d, op.group, op.cursor) /\ OwnUpTo(L, d, op.group.epoch)
      BY <1>5, <2>2 DEF OperationInv
    <3>2. InTouch(R, d, op.group, op.cursor) /\ OwnUpTo(R, d, op.group.epoch)
      BY <1>3, <1>4, <2>2, <3>1 DEF GroupKinds
    <3>. QED
      BY <1>1, <1>2, <2>2, <3>1, <3>2 DEF OperationInv, GroupKinds
  <2>3. ASSUME op.kind \in GroupKinds, OwnOnly(L, d, op) PROVE OwnOnly(R, d, op)
    BY <2>3 DEF OwnOnly
  <2>4. CASE op.kind = "rekey"
    <3>1. pr.last # None /\ InTouch(L, d, op.previous, pr.cursor)
      BY <1>5, <2>4 DEF OperationInv
    <3>2. InTouch(R, d, op.previous, pr.cursor)
      BY <1>3, <1>5, <2>4, <3>1 DEF ProfileInv
    <3>. QED
      BY <1>5, <2>3, <2>4, <3>1, <3>2 DEF OperationInv, GroupKinds
  <2>5. CASE op.kind = "bootstrap"
    BY <1>5, <2>3, <2>5 DEF OperationInv, GroupKinds
  <2>. QED
    BY <2>1, <2>2, <2>4, <2>5 DEF Kinds, GroupKinds
<1>8. PlaceInv(R, g, pr, op, pc)
  BY <1>5 DEF PlaceInv, OwnIn
<1>. QED
  BY <1>6, <1>7, <1>8 DEF DeviceInv

(* The message the server appends for a control: a Commit for the members' *)
(* devices, a Welcome for its own recipient.                               *)
LEMMA RowAppended ==
    ASSUME Inv, NEW d \in Devices, call[d].pc = "submit", Accept(Control(d))
    PROVE  \E k \in DOMAIN pending[d].controls : \E m, row \in Message :
              /\ pending[d].kind \in GroupKinds /\ GroupOpInv(log[Room], made, pending[d])
              /\ \A p \in DOMAIN pending[d].controls :
                    p < k => InLog(log[Room], pending[d].controls[p])
              /\ m = pending[d].controls[k]
              /\ row.id = m.id /\ row.kind = m.kind /\ row.sender = m.sender
              /\ row.epoch = m.epoch /\ row.group = m.group /\ row.from = m.from
              /\ row.seq = Cardinality(log[Room]) + 1
              /\ log'[Room] = log[Room] \cup {row}
              /\ \A x \in log[Room] : x.id # row.id
              /\ \/ /\ row.kind = "commit" /\ row.epoch = Row.active + 1
                    /\ row.to = MemberDevices \ {row.sender}
                 \/ row.kind = "welcome" /\ row.epoch = Row.active /\ row.to = m.to
<1> DEFINE op == pending[d]
           k  == call[d].next
<1>1. OpInv(log[Room], made, op) /\ CallInv(log[Room], op, call[d])
  BY AtWork DEF Working
<1>2. /\ op.kind \in GroupKinds /\ k \in DOMAIN op.controls
      /\ \A p \in DOMAIN op.controls : p < k => InLog(log[Room], op.controls[p])
  BY <1>1 DEF CallInv
<1>3. GroupOpInv(log[Room], made, op)
  BY <1>1, <1>2 DEF OpInv
<1>4. PICK m \in Message : m = op.controls[k]
  BY <1>2, <1>3, OwnControls
<1>5. PICK row : /\ row = [m EXCEPT !.seq = Cardinality(log[Room]) + 1,
                                    !.to = IF m.kind = "commit" THEN MemberDevices \ {m.sender} ELSE @]
                 /\ Queue!Commit(Room, row) \/ Queue!Welcome(Room, row)
  BY <1>4 DEF Accept, Control
<1>6. PICK to \in SUBSET Devices :
          /\ row = [m EXCEPT !.seq = Cardinality(log[Room]) + 1, !.to = to]
          /\ to = IF m.kind = "commit" THEN MemberDevices \ {m.sender} ELSE m.to
  <2>1. m.to \in SUBSET Devices /\ MemberDevices \ {m.sender} \in SUBSET Devices
    BY DEF Message, MemberDevices
  <2>. QED
    BY <1>5, <2>1
<1>7. /\ row \in Message /\ row.id = m.id /\ row.kind = m.kind /\ row.sender = m.sender
      /\ row.epoch = m.epoch /\ row.group = m.group /\ row.from = m.from
      /\ row.seq = Cardinality(log[Room]) + 1 /\ row.to = to
  <2>1. Cardinality(log[Room]) + 1 \in Nat
    BY FS_CardinalityType DEF Inv, LogInv
  <2>. QED
    BY <1>6, <2>1 DEF Message
<1>8. /\ log'[Room] = log[Room] \cup {row} /\ \A x \in log[Room] : x.id # row.id
      /\ \/ row.kind = "commit" /\ row.epoch = Row.active + 1
         \/ row.kind = "welcome" /\ row.epoch = Row.active
  <2>1. Queue!Append(Room, row)
    BY <1>5 DEF Queue!Commit, Queue!Welcome
  <2>2. log' = [log EXCEPT ![Room] = @ \cup {row}] /\ \A x \in log[Room] : x.id # row.id
    BY <2>1 DEF Queue!Append, Queue!New
  <2>. QED
    BY <1>5, <2>2 DEF Queue!Commit, Queue!Welcome, Inv, Types, Row
<1>9. \/ /\ row.kind = "commit" /\ row.epoch = Row.active + 1
         /\ row.to = MemberDevices \ {row.sender}
      \/ row.kind = "welcome" /\ row.epoch = Row.active /\ row.to = m.to
  BY <1>6, <1>7, <1>8
<1>. QED
  BY <1>2, <1>3, <1>4, <1>7, <1>8, <1>9

(* The queue it becomes is one a device can follow: the control continues  *)
(* the group of the Commits taken before it.                               *)
LEMMA RowQueued ==
    ASSUME Inv, FollowInv, NEW d \in Devices, pending[d].kind \in GroupKinds,
           GroupOpInv(log[Room], made, pending[d]),
           NEW k \in DOMAIN pending[d].controls, NEW m \in Message, m = pending[d].controls[k],
           \A p \in DOMAIN pending[d].controls : p < k => InLog(log[Room], pending[d].controls[p]),
           NEW row \in Message, row.id = m.id, row.kind = m.kind, row.sender = m.sender,
           row.epoch = m.epoch, row.group = m.group, row.from = m.from,
           row.seq = Cardinality(log[Room]) + 1, \A x \in log[Room] : x.id # row.id,
           \/ /\ row.kind = "commit" /\ row.epoch = Row.active + 1
              /\ row.to = MemberDevices \ {row.sender}
           \/ row.kind = "welcome" /\ row.epoch = Row.active /\ row.to = m.to
    PROVE  /\ QueueInv(log[Room] \cup {row}, Sound, members)
           /\ row.sender = d
           /\ row.kind = "commit" =>
                 /\ row.sender \notin row.to
                 /\ \A e \in Sound : \A c \in log[Room] :
                       c.kind = "commit" /\ e \in c.group.leaves => (e # d => e \in row.to)
           /\ row.kind = "welcome" => \A e \in Sound : Entered(log[Room], e) => e \notin row.to
<1> DEFINE L  == log[Room]
           op == pending[d]
           cs == op.controls
<1>1. /\ L \subseteq Message /\ Row.active \in Nat /\ LogInv(L, Row.active, made)
      /\ OrderInv(L) /\ ChainInv(L) /\ WelcomeInv(L) /\ LeavesInv(L, Sound, members)
      /\ Sound \subseteq trusted /\ trusted \subseteq Devices
  BY DEF Inv, Types, EpochRow, Row, FollowInv, QueueInv, Sound
<1>2. ControlsInv(Sound, members, d, op)
  BY DEF FollowInv
<1>3. /\ m.sender = d /\ m.epoch = m.from.epoch + 1
      /\ \/ m.from = Base(d, op)
         \/ \E q \in DOMAIN cs : q < k /\ cs[q].kind = "commit" /\ cs[q].group = m.from
      /\ m.kind = "welcome" => /\ cs[k - 1].from = m.from
                               /\ m.to \subseteq m.group.leaves \ m.from.leaves
  BY <1>2 DEF ControlsInv, ControlChain
<1>4. \A p \in DOMAIN cs : p < k => \E x \in L : /\ x.id = cs[p].id /\ x.kind = cs[p].kind
                                                 /\ x.group = cs[p].group /\ x.from = cs[p].from
  BY DEF InLog, GroupOpInv, SameAs
<1>5. CASE row.kind = "commit"
  <2>1. row.epoch = Row.active + 1 /\ row.to = MemberDevices \ {d} /\ row.sender = d
    BY <1>3, <1>5
  <2>2. row.from = Root(row.sender) \/ \E c \in L : c.kind = "commit" /\ c.group = row.from
    <3>1. CASE m.from = Base(d, op)
      <4>1. op.kind = "rekey" => \E c \in L : c.kind = "commit" /\ c.group = op.previous
        BY DEF GroupOpInv, OnLog
      <4>. QED
        BY <2>1, <3>1, <4>1 DEF Base
    <3>2. CASE \E q \in DOMAIN cs : q < k /\ cs[q].kind = "commit" /\ cs[q].group = m.from
      BY <1>4, <3>2
    <3>. QED
      BY <1>3, <3>1, <3>2
  <2>3. \A e \in Sound : /\ e \in row.from.leaves => e \in row.group.leaves
                         /\ e \in row.group.leaves => Owner[e] \in members
                         /\ Owner[e] \in members /\ e # row.sender => e \in row.to
    <3>1. \A e \in Sound : /\ e \in row.from.leaves => e \in row.group.leaves
                           /\ e \in row.group.leaves => Owner[e] \in members
      BY <1>2 DEF ControlsInv
    <3>2. \A e \in Sound : Owner[e] \in members /\ e # d => e \in MemberDevices \ {d}
      BY <1>1 DEF MemberDevices, TrustedIn
    <3>. QED
      BY <2>1, <3>1, <3>2
  <2>4. row.epoch = row.from.epoch + 1 /\ row.sender \notin row.to
    BY <1>3, <2>1
  <2>5. /\ \A e \in Sound : \A c \in L : c.kind = "commit" /\ e \in c.group.leaves =>
                                           e \in row.from.leaves /\ (e # row.sender => e \in row.to)
        /\ OrderInv(L \cup {row}) /\ ChainInv(L \cup {row})
        /\ WelcomeInv(L \cup {row}) /\ LeavesInv(L \cup {row}, Sound, members)
    <3>. HIDE DEF L, op, cs
    <3>1. PICK active \in Nat : active = Row.active
      BY <1>1
    <3>2. \A x \in L : x.id # row.id
      BY DEF L
    <3>3. row.seq = Cardinality(L) + 1
      BY DEF L
    <3>. QED
      BY <1>1, <1>5, <2>1, <2>2, <2>3, <2>4, <3>1, <3>2, <3>3, CommitAppended
  <2>. QED
    BY <1>5, <2>1, <2>4, <2>5 DEF QueueInv
<1>6. CASE row.kind = "welcome"
  <2>1. row.epoch = Row.active /\ row.to = m.to /\ m.kind = "welcome" /\ row.sender = d
    BY <1>3, <1>6
  <2>2. PICK i \in Nat : ControlList(cs, i)
    BY DEF GroupOpInv
  <2>3. PICK len \in Nat : DOMAIN cs = 1 .. len
    BY <2>2 DEF ControlList
  <2>4. /\ k - 1 \in DOMAIN cs /\ k - 1 < k
        /\ cs[k - 1].kind = "commit" /\ cs[k - 1].group = m.group
        /\ m.id = i + k /\ cs[k - 1].id = i + (k - 1)
    BY <2>1, <2>2, <2>3 DEF ControlList, Placed
  <2>5. PICK c \in L : /\ c.id = cs[k - 1].id /\ c.kind = "commit"
                       /\ c.group = m.group /\ c.from = m.from
    BY <1>3, <1>4, <2>1, <2>4
  <2>6. c.kind = "commit" /\ c.group = row.group /\ row.id = c.id + 1
        /\ row.to \subseteq c.group.leaves \ c.from.leaves
    <3>1. k \in Nat /\ i + k = i + (k - 1) + 1
      BY <2>3
    <3>. QED
      BY <1>3, <2>1, <2>4, <2>5, <3>1
  <2>7. /\ \A e \in Sound : Entered(L, e) => e \notin row.to
        /\ OrderInv(L \cup {row}) /\ ChainInv(L \cup {row})
        /\ WelcomeInv(L \cup {row}) /\ LeavesInv(L \cup {row}, Sound, members)
    <3>. HIDE DEF L, op, cs
    <3>1. PICK active \in Nat : active = Row.active
      BY <1>1
    <3>2. (\A x \in L : x.id # row.id) /\ row.seq = Cardinality(L) + 1
      BY DEF L
    <3>. QED
      BY <1>1, <1>6, <2>1, <2>6, <3>1, <3>2, WelcomeAppended
  <2>. QED
    BY <1>6, <2>1, <2>7 DEF QueueInv
<1>. QED
  BY <1>5, <1>6 DEF Message

(* What a device has stored is of the types the lemmas above ask for.      *)
LEMMA DeviceTyped ==
    ASSUME Inv, NEW e \in Devices
    PROVE  /\ group[e] \in Group /\ OnLog(log[Room], group[e]) /\ profile[e].cursor \in Nat
           /\ pending[e].kind \in Kinds \cup {"none"}
           /\ pending[e].kind = "inbound" =>
                 /\ pending[e].group \in Group /\ OnLog(log[Room], pending[e].group)
                 /\ pending[e].cursor \in Nat
           /\ pending[e].kind = "rekey" =>
                 pending[e].previous \in Group /\ OnLog(log[Room], pending[e].previous)
<1>1. group[e] \in Group /\ OnLog(log[Room], group[e]) /\ profile[e].cursor \in Nat
  BY DEF Inv, Types
<1>2. CASE pending[e] = NoOperation
  BY <1>1, <1>2 DEF NoOperation
<1>3. CASE pending[e] # NoOperation
  <2>1. OpInv(log[Room], made, pending[e])
    BY <1>3 DEF Inv, Busy
  <2>. QED
    BY <1>1, <2>1 DEF OpInv, GroupOpInv, GroupKinds
<1>. QED
  BY <1>2, <1>3

(* The server takes a control, or has it already, or never gets it.        *)
LEMMA FollowTaken ==
    ASSUME Inv, FollowInv, NEW d \in Devices, call[d].pc = "submit",
           Taken(Control(d)) \/ UNCHANGED <<epoch, log>>,
           UNCHANGED <<members, trusted, storage, astray>>,
           \A e \in Devices \ {d} : call'[e] = call[e],
           call'[d].pc \in {"submit", "write", "check", "idle"}
    PROVE  FollowInv'
<1>1. call'[d].pc \notin Free \cup {"profile", "delete", "drop"}
  BY DEF Free
<1>2. CASE log' = log
  BY <1>1, <1>2, CallStep, PlainPlace
<1>3. CASE Accept(Control(d))
  <2> DEFINE L  == log[Room]
             op == pending[d]
             cs == op.controls
  <2>1. PICK k \in DOMAIN cs, m \in Message, row \in Message :
              /\ op.kind \in GroupKinds /\ GroupOpInv(L, made, op)
              /\ \A p \in DOMAIN cs : p < k => InLog(L, cs[p])
              /\ m = cs[k]
              /\ row.id = m.id /\ row.kind = m.kind /\ row.sender = m.sender
              /\ row.epoch = m.epoch /\ row.group = m.group /\ row.from = m.from
              /\ row.seq = Cardinality(L) + 1
              /\ log'[Room] = L \cup {row}
              /\ \A x \in L : x.id # row.id
              /\ \/ /\ row.kind = "commit" /\ row.epoch = Row.active + 1
                    /\ row.to = MemberDevices \ {row.sender}
                 \/ row.kind = "welcome" /\ row.epoch = Row.active /\ row.to = m.to
    BY <1>3, RowAppended
  <2>2. /\ QueueInv(L \cup {row}, Sound, members)
        /\ row.sender = d
        /\ row.kind = "commit" =>
              /\ row.sender \notin row.to
              /\ \A e \in Sound : \A c \in L :
                    c.kind = "commit" /\ e \in c.group.leaves => (e # d => e \in row.to)
        /\ row.kind = "welcome" => \A e \in Sound : Entered(L, e) => e \notin row.to
    BY <2>1, RowQueued
  <2>3. Sound \subseteq Devices /\ L \subseteq Message /\ Row.active \in Nat
        /\ LogInv(L, Row.active, made)
    BY DEF Sound, Inv, Types, EpochRow, Row
  <2>4. ASSUME NEW e \in Sound
        PROVE  DeviceInv(L \cup {row}, e, group[e], profile[e], pending[e], call[e].pc)
    <3>1. DeviceInv(L, e, group[e], profile[e], pending[e], call[e].pc)
      BY DEF FollowInv
    <3>2. \/ row.kind = "welcome" /\ (Entered(L, e) => e \notin row.to)
          \/ /\ row.kind = "commit" /\ row.epoch = Row.active + 1 /\ row.sender \notin row.to
             /\ \A c \in L : c.kind = "commit" /\ e \in c.group.leaves =>
                                (e # row.sender => e \in row.to)
      BY <2>1, <2>2
    <3>3. row.kind = "commit" /\ row.sender = e =>
              /\ pending[e].kind \in GroupKinds
              /\ \E p \in DOMAIN pending[e].controls : row.id = pending[e].controls[p].id
      BY <2>1, <2>2
    <3>4. ASSUME call[e].pc = "drop"
          PROVE  \A p \in DOMAIN pending[e].controls : row.id # pending[e].controls[p].id
      <4>1. e # d /\ e \in Devices
        BY <2>3, <3>4
      <4>2. Busy(d) /\ Busy(e)
        BY <3>4 DEF Busy, Working
      <4>3. Distinct(op, pending[e])
        BY <4>1, <4>2 DEF Inv
      <4>4. pending[e].kind = "rekey"
        BY <3>4, <4>1 DEF Inv, CallInv
      <4>. QED
        BY <2>1, <4>3, <4>4 DEF Distinct, GroupKinds
    <3>5. PICK active \in Nat : active = Row.active
      BY <2>3
    <3>6. /\ group[e] \in Group /\ OnLog(L, group[e]) /\ profile[e].cursor \in Nat
          /\ pending[e].kind \in Kinds \cup {"none"}
          /\ pending[e].kind = "inbound" =>
                pending[e].group \in Group /\ OnLog(L, pending[e].group) /\ pending[e].cursor \in Nat
          /\ pending[e].kind = "rekey" =>
                pending[e].previous \in Group /\ OnLog(L, pending[e].previous)
      BY <2>3, DeviceTyped
    <3>7. row.seq = Cardinality(L) + 1 /\ \A x \in L : x.id # row.id
      BY <2>1
    <3>. HIDE DEF L, op, cs
    <3>. QED
      BY <2>3, <3>1, <3>2, <3>3, <3>4, <3>5, <3>6, <3>7, DeviceKept
  <2>5. ASSUME NEW e \in Sound
        PROVE  DeviceInv(L \cup {row}, e, group[e], profile[e], pending[e], call'[e].pc)
    <3>1. CASE e = d
      BY <1>1, <2>4, <3>1, PlainPlace DEF DeviceInv
    <3>2. CASE e # d
      BY <2>3, <2>4, <3>2
    <3>. QED
      BY <3>1, <3>2
  <2>6. /\ Sound' = Sound /\ group' = group /\ profile' = profile /\ pending' = pending
        /\ members' = members
    BY DEF Sound, storage
  <2>7. \A e \in Devices : call'[e].pc \in Free => pending[e] = NoOperation
    BY <1>1 DEF FollowInv
  <2>8. \A e \in Devices : pending[e].kind \in GroupKinds => ControlsInv(Sound, members, e, pending[e])
    BY DEF FollowInv
  <2>. QED
    BY <2>1, <2>2, <2>5, <2>6, <2>7, <2>8 DEF FollowInv
<1>. QED
  BY <1>2, <1>3 DEF Taken

(* A control is submitted.                                                 *)
LEMMA FollowSubmit == ASSUME Inv, FollowInv, NEW d \in Devices, Submit(d) PROVE FollowInv'
<1>1. call'[d].pc \in {"submit", "write"} /\ \A e \in Devices \ {d} : call'[e] = call[e]
  <2>1. call[d] \in CallRecord /\ call \in [Devices -> CallRecord] /\ call[d].pc = "submit"
    BY DEF Inv, Types, Submit
  <2>2. CASE call' = [call EXCEPT ![d].next = @ + 1]
    BY <2>1, <2>2 DEF CallRecord
  <2>3. CASE Goto(d, "write")
    BY <2>1, <2>3 DEF Goto, CallRecord
  <2>. QED
    BY <2>2, <2>3 DEF Submit
<1>. QED
  BY <1>1, FollowTaken DEF Submit

(* So it is when the answer is lost.                                       *)
LEMMA FollowSubmitLost == ASSUME Inv, FollowInv, NEW d \in Devices, SubmitLost(d) PROVE FollowInv'
<1>1. call'[d].pc \in {"check", "idle"} /\ \A e \in Devices \ {d} : call'[e] = call[e]
  <2>1. call[d] \in CallRecord /\ call \in [Devices -> CallRecord]
    BY DEF Inv, Types
  <2>2. CASE Goto(d, "check")
    BY <2>1, <2>2 DEF Goto, CallRecord
  <2>3. CASE Return(d)
    BY <2>1, <2>3 DEF Return, Idle, At
  <2>. QED
    BY <2>2, <2>3 DEF SubmitLost, Failed
<1>. QED
  BY <1>1, FollowTaken DEF SubmitLost

-----------------------------------------------------------------------------
(* Every step keeps what a device knows of its place in the queue.         *)
LEMMA FollowStep ==
    ASSUME Callers \subseteq Devices, Inv, FollowInv, [Next]_vars
    PROVE  FollowInv'
<1>1. CASE UNCHANGED vars
  BY <1>1 DEF vars, server, storage, FollowInv, Sound
<1>2. CASE Membership
  BY <1>2, FollowMembership
<1>3. ASSUME NEW d \in Devices, Call(d) PROVE FollowInv'
  BY <1>3, FollowStart, FollowAbandon, FollowReadEpoch, FollowReconcile, FollowListControls,
     FollowReadRoom, FollowBootstrap, FollowSubmit, FollowSubmitRefused, FollowSubmitLost,
     FollowCheckRekey, FollowRestoreState, FollowDropPending, FollowWriteState,
     FollowWriteProfile, FollowDeletePending, FollowSend DEF Call
<1>4. ASSUME NEW d \in Devices, TopUpRead(d) \/ TopUpWrite(d) PROVE FollowInv'
  BY <1>4, FollowTopUp
<1>. QED
  BY <1>1, <1>2, <1>3, <1>4 DEF Next

(* Hence it is so in every reachable state.                                *)
LEMMA FollowHolds == Spec => []FollowInv
<1>1. Init => FollowInv
  BY FollowInit
<1>2. Inv /\ FollowInv /\ [Next]_vars => FollowInv'
  BY FollowStep, CallersAssumption
<1>. QED
  BY <1>1, <1>2, InvHolds, PTL DEF Spec

(* Whenever nothing is pending on a device that has not lost its way, the  *)
(* Commits the server still has for it are exactly those its group lacks:  *)
(* state, profile and pending operation are three writes, any call may     *)
(* stop between them, several devices bootstrap or rekey at once and any   *)
(* answer may be lost, and still no Commit is skipped or applied twice.    *)
THEOREM EveryoneCanFollow == Spec => []CanFollow
<1>1. Inv /\ FollowInv => CanFollow
  <2>. SUFFICES ASSUME Inv, FollowInv, NEW d \in MemberDevices \ astray,
                       pending[d] = NoOperation, Joined(d)
                PROVE  Due(d) = {m \in Commits : m.epoch > group[d].epoch}
    BY DEF CanFollow
  <2>1. d \in Sound
    BY DEF MemberDevices, TrustedIn, Sound
  <2>2. AtRest(log[Room], d, group[d], profile[d])
    BY <2>1 DEF FollowInv, DeviceInv, OperationInv, NoOperation
  <2>3. /\ InTouch(log[Room], d, group[d], profile[d].cursor)
        /\ OwnUpTo(log[Room], d, group[d].epoch)
    BY <2>2 DEF AtRest, Joined
  <2>4. group[d].epoch \in Nat /\ \A m \in log[Room] : m.epoch \in Nat
    BY <2>1 DEF Sound, Inv, Types, Group, Message
  <2>5. \A m \in log[Room] : d \in m.to /\ m.seq > profile[d].cursor <=>
                                m.kind = "commit" /\ m.epoch > group[d].epoch
    BY <2>3, <2>4 DEF InTouch, OwnUpTo
  <2>. QED
    BY <2>5 DEF Due, Commits
<1>. QED
  BY <1>1, FollowHolds, InvHolds, PTL
=============================================================================
