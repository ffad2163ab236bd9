----------------------------- MODULE KeyPackages -----------------------------
(***************************************************************************)
(* The KeyPackages of the MLS devices: a device publishes one-time         *)
(* packages in a transaction, other devices of a room claim one each.      *)
(*                                                                         *)
(* Publishing holds the row of the device FOR SHARE, claiming holds only   *)
(* the row of the package and touches the row of the consumer through the  *)
(* foreign key, and a revocation holds the row of the device FOR UPDATE.   *)
(* Approval by another device and the rekeying a revocation asks for are   *)
(* in E2eeControl; here a revocation is a transaction on one device row.   *)
(***************************************************************************)
EXTENDS Naturals, Sequences, FiniteSets

CONSTANTS
    Devices,
    Accounts,
    Account,      \* the account of every device
    Refs,         \* package_ref values
    Publishers,   \* concurrent publish requests
    Claimers,     \* concurrent claim requests
    Null,
    MaxOpen,      \* bound: publish and claim requests open at once
    Limit,        \* MAX_AVAILABLE_KEY_PACKAGES_PER_DEVICE
    MaxBatch      \* MAX_KEY_PACKAGES_PER_REQUEST

ASSUME AccountAssumption == Account \in [Devices -> Accounts]
ASSUME NullAssumption    == Null \notin Devices \cup Refs
ASSUME LimitsAssumption  == Limit \in Nat /\ MaxBatch \in Nat \ {0}
ASSUME OpenAssumption == MaxOpen \in Nat
ASSUME RequestsAssumption == IsFiniteSet(Publishers)

VARIABLES
    status,     \* e2ee_devices.status
    members,    \* the accounts that are members of the room
    pkg,        \* e2ee_key_packages, committed
    expired,    \* the packages, not consumed, whose expires_at has passed
    pub,        \* pub[p]: the transaction of a publish request
    clm,        \* clm[c]: the statement of a claim request
    revoking,   \* the devices whose row a revocation holds FOR UPDATE
    returned    \* returned[r]: claims that took package r

vars == <<status, members, pkg, expired, pub, clm, revoking, returned>>

-----------------------------------------------------------------------------
DeviceStatus == {"pending", "active", "revoked"}

(* A row of e2ee_key_packages; without an owner there is no row. *)
PackageRow == [owner : Devices \cup {Null}, consumer : Devices \cup {Null}]

(* A publish request: the refs still to be inserted, those inserted and    *)
(* not yet committed, and the packages expired at NOW() of the transaction.*)
PublishTx == [pc : {"idle", "insert", "counted"}, device : Devices \cup {Null},
              todo : Seq(Refs), own : SUBSET Refs, gone : SUBSET Refs]

(* A claim request: the candidates of its snapshot and the locked package. *)
ClaimTx == [pc : {"idle", "lock", "locked"}, consumer : Devices \cup {Null},
            seen : SUBSET Refs, ref : Refs \cup {Null}]

NoPublish == [pc |-> "idle", device |-> Null, todo |-> << >>, own |-> {}, gone |-> {}]
NoClaim   == [pc |-> "idle", consumer |-> Null, seen |-> {}, ref |-> Null]

Init ==
    /\ status \in [Devices -> {"pending", "active"}]
    /\ members \in SUBSET Accounts
    /\ pkg = [r \in Refs |-> [owner |-> Null, consumer |-> Null]]
    /\ expired = {}
    /\ pub = [p \in Publishers |-> NoPublish]
    /\ clm = [c \in Claimers |-> NoClaim]
    /\ revoking = {}
    /\ returned = [r \in Refs |-> 0]

-----------------------------------------------------------------------------
(* A request may begin while fewer than MaxOpen are open. *)
MayBegin ==
    Cardinality({p \in Publishers : pub[p].pc # "idle"})
      + Cardinality({c \in Claimers : clm[c].pc # "idle"}) < MaxOpen

(* Variant: the row of the device is read without FOR SHARE. *)
HoldsNoShare(p, d) == FALSE

(* publish_key_packages holds the row of its device FOR SHARE. *)
HoldsShare(p, d) == pub[p].pc # "idle" /\ pub[p].device = d

(* The packages of a device that are expired at NOW() of a transaction. *)
ExpiredOf(d) == {r \in expired : pkg[r].owner = d}

(* The status check; the batch is of 1 to MaxBatch packages, refs may      *)
(* repeat.  A device that is not active gets Forbidden and nothing changes.*)
PublishBegin(p, d, batch) ==
    /\ pub[p].pc = "idle" /\ MayBegin
    /\ d \notin revoking /\ status[d] = "active"
    /\ pub' = [pub EXCEPT ![p] = [pc |-> "insert", device |-> d, todo |-> batch,
                                  own |-> {}, gone |-> ExpiredOf(d)]]
    /\ UNCHANGED <<status, members, pkg, expired, clm, revoking, returned>>

(* Variant: an insertion does not wait for those that are not committed. *)
AwaitsNothing(p, r) == FALSE

(* The unique index makes an insertion wait for the transaction that has   *)
(* inserted the same ref and may still roll back.                          *)
AwaitsInsert(p, r) == \E q \in Publishers \ {p} : r \in pub[q].own

(* INSERT ... ON CONFLICT (package_ref) DO NOTHING of one package. *)
PublishInsert(p) ==
    /\ pub[p].pc = "insert" /\ pub[p].todo # << >>
    /\ LET r == Head(pub[p].todo)
           t == pub[p]
       IN  /\ ~AwaitsInsert(p, r)
           /\ pub' = [pub EXCEPT ![p] =
                         [t EXCEPT !.todo = Tail(t.todo),
                                   !.own = IF pkg[r].owner = Null
                                           THEN t.own \cup {r} ELSE t.own]]
    /\ UNCHANGED <<status, members, pkg, expired, clm, revoking, returned>>

(* Variant: the packages of the request itself are not counted. *)
CountCommitted(p) ==
    Cardinality({r \in Refs : pkg[r].owner = pub[p].device /\ pkg[r].consumer = Null
                                  /\ r \notin pub[p].gone})

(* SELECT COUNT: the committed packages and those of this transaction. *)
Count(p) ==
    Cardinality({r \in Refs : /\ r \notin pub[p].gone
                              /\ \/ pkg[r].owner = pub[p].device /\ pkg[r].consumer = Null
                                 \/ r \in pub[p].own})

PublishCount(p) ==
    /\ pub[p].pc = "insert" /\ pub[p].todo = << >>
    /\ LET t == pub[p]
       IN  pub' = [pub EXCEPT ![p] =
                      IF Count(p) > Limit THEN NoPublish ELSE [t EXCEPT !.pc = "counted", !.gone = {}]]
    /\ UNCHANGED <<status, members, pkg, expired, clm, revoking, returned>>

PublishCommit(p) ==
    /\ pub[p].pc = "counted"
    /\ pkg' = [r \in Refs |-> IF r \in pub[p].own
                              THEN [owner |-> pub[p].device, consumer |-> Null]
                              ELSE pkg[r]]
    /\ pub' = [pub EXCEPT ![p] = NoPublish]
    /\ UNCHANGED <<status, members, expired, clm, revoking, returned>>

(* A statement fails (lost connection, duplicate id, protocol version of   *)
(* the device, deadlock of two batches): everything is rolled back.        *)
PublishAbort(p) ==
    /\ pub[p].pc # "idle"
    /\ pub' = [pub EXCEPT ![p] = NoPublish]
    /\ UNCHANGED <<status, members, pkg, expired, clm, revoking, returned>>

-----------------------------------------------------------------------------
(* take_key_package_for_room: one statement, whose subquery reads devices  *)
(* and members in the snapshot of the statement.                           *)
Candidates(target, consumer) ==
    {r \in Refs : /\ pkg[r].owner = target /\ pkg[r].consumer = Null /\ r \notin expired
                  /\ status[target] = "active" /\ status[consumer] = "active"
                  /\ {Account[target], Account[consumer]} \subseteq members}

ClaimBegin(c, target, consumer) ==
    /\ clm[c].pc = "idle" /\ MayBegin
    /\ Candidates(target, consumer) # {}
    /\ clm' = [clm EXCEPT ![c] = [pc |-> "lock", consumer |-> consumer,
                                  seen |-> Candidates(target, consumer), ref |-> Null]]
    /\ UNCHANGED <<status, members, pkg, expired, pub, revoking, returned>>

(* Variant: the candidate is read without FOR UPDATE. *)
LockableUnread(c, r) == r \in clm[c].seen

(* FOR UPDATE SKIP LOCKED passes over a package another claim has locked,  *)
(* and reads the row again once it has the lock.                           *)
Lockable(c, r) ==
    /\ r \in clm[c].seen
    /\ \A d \in Claimers : clm[d].pc = "locked" => clm[d].ref # r
    /\ pkg[r].consumer = Null

ClaimLock(c, r) ==
    /\ clm[c].pc = "lock"
    /\ Lockable(c, r)
    /\ LET t == clm[c] IN clm' = [clm EXCEPT ![c] = [t EXCEPT !.pc = "locked", !.seen = {}, !.ref = r]]
    /\ UNCHANGED <<status, members, pkg, expired, pub, revoking, returned>>

(* NotFound *)
ClaimNone(c) ==
    /\ clm[c].pc = "lock"
    /\ \A r \in Refs : ~Lockable(c, r)
    /\ clm' = [clm EXCEPT ![c] = NoClaim]
    /\ UNCHANGED <<status, members, pkg, expired, pub, revoking, returned>>

(* Variant: a taken package is detached from its device. *)
TakenAway(row, consumer) == [owner |-> Null, consumer |-> consumer]

Taken(row, consumer) == [owner |-> row.owner, consumer |-> consumer]

(* The update, its foreign key on the consumer's row, and the commit.      *)
(* Whether the answer then arrives changes nothing here, and nobody asks   *)
(* whether a consumed package has expired.                                 *)
ClaimFinish(c) ==
    /\ clm[c].pc = "locked"
    /\ clm[c].consumer \notin revoking
    /\ LET r == clm[c].ref
       IN  /\ pkg' = [pkg EXCEPT ![r] = Taken(pkg[r], clm[c].consumer)]
           /\ returned' = [returned EXCEPT ![r] = returned[r] + 1]
           /\ expired' = expired \ {r}
    /\ clm' = [clm EXCEPT ![c] = NoClaim]
    /\ UNCHANGED <<status, members, pub, revoking>>

ClaimAbort(c) ==
    /\ clm[c].pc # "idle"
    /\ clm' = [clm EXCEPT ![c] = NoClaim]
    /\ UNCHANGED <<status, members, pkg, expired, pub, revoking, returned>>

-----------------------------------------------------------------------------
ApproveDevice(d) ==
    /\ status[d] = "pending"
    /\ status' = [status EXCEPT ![d] = "active"]
    /\ UNCHANGED <<members, pkg, expired, pub, clm, revoking, returned>>

(* revoke_device: SELECT ... FOR UPDATE, the rooms, the commit. *)
RevokeBegin(d) ==
    /\ status[d] = "active" /\ d \notin revoking
    /\ \A p \in Publishers : ~HoldsShare(p, d)
    /\ revoking' = revoking \cup {d}
    /\ UNCHANGED <<status, members, pkg, expired, pub, clm, returned>>

RevokeFinish(d) ==
    /\ d \in revoking
    /\ status' = [status EXCEPT ![d] = "revoked"]
    /\ revoking' = revoking \ {d}
    /\ UNCHANGED <<members, pkg, expired, pub, clm, returned>>

RevokeAbort(d) ==
    /\ d \in revoking
    /\ revoking' = revoking \ {d}
    /\ UNCHANGED <<status, members, pkg, expired, pub, clm, returned>>

Join(u) ==
    /\ u \notin members
    /\ members' = members \cup {u}
    /\ UNCHANGED <<status, pkg, expired, pub, clm, revoking, returned>>

Leave(u) ==
    /\ u \in members
    /\ members' = members \ {u}
    /\ UNCHANGED <<status, pkg, expired, pub, clm, revoking, returned>>

(* NOW() passes expires_at. *)
Expire(r) ==
    /\ pkg[r].owner # Null /\ pkg[r].consumer = Null /\ r \notin expired
    /\ expired' = expired \cup {r}
    /\ UNCHANGED <<status, members, pkg, pub, clm, revoking, returned>>

-----------------------------------------------------------------------------
Publish(p) ==
    \/ \E d \in Devices, n \in 1 .. MaxBatch :
          \E batch \in [1 .. n -> Refs] : PublishBegin(p, d, batch)
    \/ PublishInsert(p)
    \/ PublishCount(p)
    \/ PublishCommit(p)
    \/ PublishAbort(p)

Take(c) ==
    \/ \E target, consumer \in Devices : ClaimBegin(c, target, consumer)
    \/ \E r \in Refs : ClaimLock(c, r)
    \/ ClaimNone(c)
    \/ ClaimFinish(c)
    \/ ClaimAbort(c)

Next ==
    \/ \E p \in Publishers : Publish(p)
    \/ \E c \in Claimers : Take(c)
    \/ \E d \in Devices : ApproveDevice(d) \/ RevokeBegin(d) \/ RevokeFinish(d) \/ RevokeAbort(d)
    \/ \E u \in Accounts : Join(u) \/ Leave(u)
    \/ \E r \in Refs : Expire(r)

Spec == Init /\ [][Next]_vars

-----------------------------------------------------------------------------
(* Properties *)

(* Rows, transactions and statements have their shapes, and a consumed row *)
(* still has its device (e2ee_key_packages_consumption and NOT NULL).      *)
TypeOK ==
    /\ status \in [Devices -> DeviceStatus]
    /\ members \subseteq Accounts
    /\ pkg \in [Refs -> PackageRow]
    /\ \A r \in Refs : pkg[r].consumer # Null => pkg[r].owner # Null
    /\ expired \subseteq Refs
    /\ pub \in [Publishers -> PublishTx]
    /\ clm \in [Claimers -> ClaimTx]
    /\ revoking \subseteq Devices
    /\ returned \in [Refs -> Nat]

(* A package is handed out at most once, to one consumer: two claims may   *)
(* have seen it in their snapshots, and a statement may fail after the     *)
(* package is locked.                                                      *)
ClaimedOnce ==
    \A r \in Refs : returned[r] <= (IF pkg[r].consumer = Null THEN 0 ELSE 1)

(* A ref keeps the device it was first published for, whoever uploads it   *)
(* again while the first upload is in doubt, and a package never becomes   *)
(* available again.                                                        *)
RefsKeepOwner ==
    [][\A r \in Refs :
          /\ pkg[r].owner # Null => pkg'[r].owner = pkg[r].owner
          /\ pkg[r].consumer # Null => pkg'[r].consumer = pkg[r].consumer]_vars

(* Packages appear only while their device is trusted: a revocation waits  *)
(* for the publications that have checked the status, and later ones fail. *)
PublishedByTrusted ==
    [][\A r \in Refs : pkg[r].owner = Null /\ pkg'[r].owner # Null
          => status[pkg'[r].owner] = "active"]_vars

Available(d) == {r \in Refs \ expired : pkg[r].owner = d /\ pkg[r].consumer = Null}

(* Every publication counts what it sees before it commits, so only the    *)
(* batches of concurrent publications can exceed the limit of a device,    *)
(* and none of them has more packages than the limit itself.               *)
InventoryBounded ==
    LET largest == IF MaxBatch < Limit THEN MaxBatch ELSE Limit
    IN  \A d \in Devices :
            Cardinality(Available(d)) <= Limit + (Cardinality(Publishers) - 1) * largest
=============================================================================
