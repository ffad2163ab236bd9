------------------------ MODULE PackagesFilesProofs ------------------------
(***************************************************************************)
(* Proofs about two parts that share no state: KeyPackages, for any number *)
(* of devices, packages and requests and any limits; and Uploads, for any  *)
(* keys, users and messages, any number of processes and any bounds.       *)
(***************************************************************************)
EXTENDS KeyPackages, Uploads, SequenceTheorems, FiniteSetTheorems, TLAPS


(* A batch of n refs is a sequence. *)
LEMMA BatchIsSeq ==
    ASSUME NEW n \in 1 .. MaxBatch, NEW batch \in [1 .. n -> Refs]
    PROVE  batch \in Seq(Refs)
  BY LimitsAssumption, SeqDef

(* The first state has the types of the tables. *)
LEMMA TypeInit == Init => TypeOK
  <1> SUFFICES ASSUME Init PROVE TypeOK
    OBVIOUS
  <1>1. NoPublish \in PublishTx
    BY DEF NoPublish, PublishTx
  <1>2. NoClaim \in ClaimTx
    BY DEF NoClaim, ClaimTx
  <1> QED
    BY <1>1, <1>2 DEF Init, TypeOK, DeviceStatus, PackageRow

(* Every step of a publish request keeps the types. *)
LEMMA TypePublish ==
    ASSUME TypeOK, NEW p \in Publishers, Publish(p)
    PROVE  TypeOK'
  <1> USE DEF TypeOK
  <1>0. pub[p] \in PublishTx /\ NoPublish \in PublishTx
    BY DEF NoPublish, PublishTx
  <1>1. ASSUME NEW d \in Devices, NEW n \in 1 .. MaxBatch, NEW batch \in [1 .. n -> Refs],
               PublishBegin(p, d, batch)
        PROVE  TypeOK'
    <2>1. [pc |-> "insert", device |-> d, todo |-> batch, own |-> {}, gone |-> ExpiredOf(d)]
              \in PublishTx
      BY BatchIsSeq DEF PublishTx, ExpiredOf
    <2> QED
      BY <1>1, <2>1 DEF PublishBegin
  <1>2. CASE PublishInsert(p)
    <2>1. Head(pub[p].todo) \in Refs /\ Tail(pub[p].todo) \in Seq(Refs)
      BY <1>0, <1>2 DEF PublishInsert, PublishTx
    <2>2. \A own \in SUBSET Refs :
              [pub[p] EXCEPT !.todo = Tail(pub[p].todo), !.own = own] \in PublishTx
      BY <1>0, <2>1 DEF PublishTx
    <2>3. (IF pkg[Head(pub[p].todo)].owner = Null
           THEN pub[p].own \cup {Head(pub[p].todo)} ELSE pub[p].own) \in SUBSET Refs
      BY <1>0, <2>1 DEF PublishTx
    <2>4. pub' \in [Publishers -> PublishTx]
      BY <1>2, <2>2, <2>3 DEF PublishInsert
    <2> QED
      BY <1>2, <2>4 DEF PublishInsert
  <1>3. CASE PublishCount(p)
    <2>1. [pub[p] EXCEPT !.pc = "counted", !.gone = {}] \in PublishTx
      BY <1>0 DEF PublishTx
    <2> QED
      BY <1>0, <1>3, <2>1 DEF PublishCount
  <1>4. CASE PublishCommit(p)
    <2>1. pub[p].device \in Devices \cup {Null}
      BY <1>0 DEF PublishTx
    <2>2. pkg' \in [Refs -> PackageRow]
      BY <1>4, <2>1 DEF PublishCommit, PackageRow
    <2>3. \A r \in Refs : pkg'[r].consumer # Null => pkg'[r].owner # Null
      BY <1>4 DEF PublishCommit
    <2> QED
      BY <1>0, <1>4, <2>2, <2>3 DEF PublishCommit
  <1>5. CASE PublishAbort(p)
    BY <1>0, <1>5 DEF PublishAbort
  <1> QED
    BY <1>1, <1>2, <1>3, <1>4, <1>5 DEF Publish
-----------------------------------------------------------------------------
(***************************************************************************)
(* What holds of the packages besides their types.  An insertion that is   *)
(* not committed belongs to one transaction, whose device is trusted and   *)
(* not about to be revoked; a locked package is available and locked once. *)
(***************************************************************************)
PublisherTrusted ==
    \A p \in Publishers :
        pub[p].pc # "idle" => /\ pub[p].device \in Devices
                              /\ pub[p].device \notin revoking
                              /\ status[pub[p].device] = "active"

InsertedOnce ==
    \A p \in Publishers : \A r \in pub[p].own :
        /\ pub[p].pc # "idle"
        /\ pkg[r].owner = Null
        /\ \A q \in Publishers \ {p} : r \notin pub[q].own

LockedOnce ==
    \A c \in Claimers : clm[c].pc = "locked" =>
        /\ clm[c].ref \in Refs
        /\ clm[c].consumer \in Devices
        /\ pkg[clm[c].ref].consumer = Null
        /\ \A e \in Claimers \ {c} : clm[e].pc = "locked" => clm[e].ref # clm[c].ref

(* A claim has a consumer, and what it has seen or locked is published. *)
SeenPublished ==
    \A c \in Claimers : clm[c].pc # "idle" =>
        /\ clm[c].consumer \in Devices
        /\ \A r \in clm[c].seen : pkg[r].owner # Null
        /\ clm[c].pc = "locked" => clm[c].ref \in Refs /\ pkg[clm[c].ref].owner # Null

PackageInv ==
    /\ TypeOK
    /\ PublisherTrusted
    /\ InsertedOnce
    /\ LockedOnce
    /\ SeenPublished
    /\ ClaimedOnce

(* The first state has no packages and no transactions. *)
LEMMA InvInit == Init => PackageInv
  <1> SUFFICES ASSUME Init PROVE PackageInv
    OBVIOUS
  <1>1. TypeOK
    BY TypeInit
  <1>2. /\ \A p \in Publishers : pub[p].pc = "idle" /\ pub[p].own = {}
        /\ \A c \in Claimers : clm[c].pc = "idle"
    BY DEF Init, NoPublish, NoClaim
  <1>3. ClaimedOnce
    BY DEF Init, ClaimedOnce
  <1> QED
    BY <1>1, <1>2, <1>3
    DEF PackageInv, PublisherTrusted, InsertedOnce, LockedOnce, SeenPublished

(* A publish request keeps the invariant: it inserts a ref only when no    *)
(* other transaction has it in doubt, and publishes what was absent.       *)
LEMMA InvPublish ==
    ASSUME PackageInv, NEW p \in Publishers, Publish(p)
    PROVE  PackageInv'
  <1>1. TypeOK'
    BY TypePublish DEF PackageInv
  <1>2. CASE UNCHANGED <<status, pkg, clm, revoking, returned>>
             /\ \E t \in PublishTx :
                  /\ pub' = [pub EXCEPT ![p] = t]
                  /\ t.pc # "idle" => /\ t.device \in Devices
                                      /\ t.device \notin revoking
                                      /\ status[t.device] = "active"
                  /\ \A r \in t.own : /\ t.pc # "idle"
                                      /\ pkg[r].owner = Null
                                      /\ \A q \in Publishers \ {p} : r \notin pub[q].own
    <2>1. PICK t \in PublishTx :
                  /\ pub' = [pub EXCEPT ![p] = t]
                  /\ t.pc # "idle" => /\ t.device \in Devices
                                      /\ t.device \notin revoking
                                      /\ status[t.device] = "active"
                  /\ \A r \in t.own : /\ t.pc # "idle"
                                      /\ pkg[r].owner = Null
                                      /\ \A q \in Publishers \ {p} : r \notin pub[q].own
      BY <1>2
    <2>2. pub'[p] = t /\ \A q \in Publishers \ {p} : pub'[q] = pub[q]
      BY <2>1 DEF PackageInv, TypeOK
    <2>3. PublisherTrusted'
      BY <1>2, <2>1, <2>2 DEF PackageInv, PublisherTrusted
    <2>4. InsertedOnce'
      BY <1>2, <2>1, <2>2 DEF PackageInv, InsertedOnce
    <2> QED
      BY <1>1, <1>2, <2>3, <2>4 DEF PackageInv, LockedOnce, SeenPublished, ClaimedOnce
  <1>3. NoPublish \in PublishTx /\ pub[p] \in PublishTx
    BY DEF NoPublish, PublishTx, PackageInv, TypeOK
  <1>4. NoPublish.pc = "idle" /\ NoPublish.own = {}
    BY DEF NoPublish
  <1>5. ASSUME NEW d \in Devices, NEW n \in 1 .. MaxBatch, NEW batch \in [1 .. n -> Refs],
               PublishBegin(p, d, batch)
        PROVE  PackageInv'
    <2> DEFINE t == [pc |-> "insert", device |-> d, todo |-> batch, own |-> {},
                     gone |-> ExpiredOf(d)]
    <2>1. t \in PublishTx
      BY BatchIsSeq DEF PublishTx, ExpiredOf, PackageInv, TypeOK
    <2>2. t.pc # "idle" /\ t.device = d /\ t.own = {}
      OBVIOUS
    <2>3. /\ pub' = [pub EXCEPT ![p] = t] /\ d \notin revoking /\ status[d] = "active"
          /\ UNCHANGED <<status, pkg, clm, revoking, returned>>
      BY <1>5 DEF PublishBegin
    <2> HIDE DEF t
    <2> QED
      BY <1>2, <2>1, <2>2, <2>3
  <1>6. CASE PublishInsert(p)
    <2> DEFINE r == Head(pub[p].todo)
               own == IF pkg[r].owner = Null THEN pub[p].own \cup {r} ELSE pub[p].own
               t == [pub[p] EXCEPT !.todo = Tail(pub[p].todo), !.own = own]
    <2>1. r \in Refs /\ Tail(pub[p].todo) \in Seq(Refs)
      BY <1>3, <1>6 DEF PublishInsert, PublishTx
    <2>2. own \in SUBSET Refs
      BY <1>3, <2>1 DEF PublishTx
    <2>3. \A x \in own : /\ pkg[x].owner = Null
                         /\ \A q \in Publishers \ {p} : x \notin pub[q].own
      BY <1>6 DEF PublishInsert, AwaitsInsert, PackageInv, InsertedOnce
    <2>4. /\ pub' = [pub EXCEPT ![p] = t] /\ pub[p].pc = "insert"
          /\ UNCHANGED <<status, pkg, clm, revoking, returned>>
      BY <1>6 DEF PublishInsert
    <2>5. t \in PublishTx /\ t.pc = "insert" /\ t.device = pub[p].device /\ t.own = own
      <3> HIDE DEF own
      <3> QED
        BY <1>3, <2>1, <2>2, <2>4 DEF PublishTx
    <2>6. pub[p].device \in Devices /\ pub[p].device \notin revoking
              /\ status[pub[p].device] = "active"
      BY <2>4 DEF PackageInv, PublisherTrusted
    <2> HIDE DEF t, own
    <2> QED
      BY <1>2, <2>3, <2>4, <2>5, <2>6
  <1>7. CASE PublishCount(p)
    <2>1. pub' = [pub EXCEPT ![p] = NoPublish]
              \/ pub' = [pub EXCEPT ![p] = [pub[p] EXCEPT !.pc = "counted", !.gone = {}]]
      BY <1>7 DEF PublishCount
    <2>2. UNCHANGED <<status, pkg, clm, revoking, returned>> /\ pub[p].pc = "insert"
      BY <1>7 DEF PublishCount
    <2> DEFINE t == [pub[p] EXCEPT !.pc = "counted", !.gone = {}]
    <2>3. t \in PublishTx /\ t.pc = "counted" /\ t.device = pub[p].device /\ t.own = pub[p].own
      BY <1>3 DEF PublishTx
    <2>4. pub[p].device \in Devices /\ pub[p].device \notin revoking
              /\ status[pub[p].device] = "active"
      BY <2>2 DEF PackageInv, PublisherTrusted
    <2>5. \A r \in pub[p].own : /\ pkg[r].owner = Null
                                /\ \A q \in Publishers \ {p} : r \notin pub[q].own
      BY DEF PackageInv, InsertedOnce
    <2> HIDE DEF t
    <2>6. CASE pub' = [pub EXCEPT ![p] = t]
      BY <1>2, <2>2, <2>3, <2>4, <2>5, <2>6
    <2>7. CASE pub' = [pub EXCEPT ![p] = NoPublish]
      BY <1>2, <1>3, <1>4, <2>2, <2>7
    <2> QED
      BY <2>1, <2>6, <2>7 DEF t
  <1>8. CASE PublishCommit(p)
    <2>1. /\ pub'[p] = NoPublish /\ \A q \in Publishers \ {p} : pub'[q] = pub[q]
          /\ UNCHANGED <<status, clm, revoking, returned>> /\ pub[p].pc = "counted"
      BY <1>8 DEF PublishCommit, PackageInv, TypeOK
    <2>2. pub[p].device \in Devices /\ pub[p].own \subseteq Refs
      BY <1>3, <2>1 DEF PublishTx, PackageInv, PublisherTrusted
    <2>3. \A r \in Refs : r \in pub[p].own => pkg'[r].consumer = Null /\ pkg'[r].owner # Null
      BY <1>8, <2>2, NullAssumption DEF PublishCommit
    <2>4. \A r \in Refs : r \notin pub[p].own => pkg'[r] = pkg[r]
      BY <1>8 DEF PublishCommit
    <2>5. \A r \in Refs : r \in pub[p].own => pkg[r].owner = Null /\ pkg[r].consumer = Null
      BY DEF PackageInv, InsertedOnce, TypeOK
    <2>6. PublisherTrusted'
      BY <1>4, <2>1 DEF PackageInv, PublisherTrusted
    <2>7. InsertedOnce'
      <3>1. \A q \in Publishers : pub[q].own \subseteq Refs
        BY DEF PackageInv, TypeOK, PublishTx
      <3> QED
        BY <1>4, <2>1, <2>4, <3>1 DEF PackageInv, InsertedOnce
    <2>8. LockedOnce'
      BY <2>1, <2>3, <2>4 DEF PackageInv, LockedOnce
    <2>9. SeenPublished'
      <3>1. \A c \in Claimers : clm[c].seen \subseteq Refs
        BY DEF PackageInv, TypeOK, ClaimTx
      <3> QED
        BY <2>1, <2>3, <2>4, <3>1 DEF PackageInv, SeenPublished
    <2>10. ClaimedOnce'
      BY <2>1, <2>3, <2>4, <2>5 DEF PackageInv, ClaimedOnce
    <2> QED
      BY <1>1, <2>6, <2>7, <2>8, <2>9, <2>10 DEF PackageInv
  <1>9. CASE PublishAbort(p)
    BY <1>2, <1>3, <1>4, <1>9 DEF PublishAbort
  <1> QED
    BY <1>5, <1>6, <1>7, <1>8, <1>9 DEF Publish

(* A claim keeps the invariant: it locks a package that is still there and *)
(* that no other claim has locked, and takes what it has locked.           *)
LEMMA InvClaim ==
    ASSUME PackageInv, NEW c \in Claimers, Take(c)
    PROVE  PackageInv'
  <1> USE DEF PackageInv
  <1>1. clm[c] \in ClaimTx /\ NoClaim \in ClaimTx /\ NoClaim.pc = "idle"
    BY DEF NoClaim, ClaimTx, TypeOK
  <1>2. CASE UNCHANGED <<status, members, pkg, expired, pub, revoking, returned>>
             /\ \E t \in ClaimTx :
                  /\ clm' = [clm EXCEPT ![c] = t]
                  /\ t.pc # "idle" => /\ t.consumer \in Devices
                                      /\ \A r \in t.seen : pkg[r].owner # Null
                                      /\ t.pc = "locked" => t.ref \in Refs /\ pkg[t.ref].owner # Null
                  /\ t.pc = "locked" => /\ pkg[t.ref].consumer = Null
                                        /\ \A e \in Claimers \ {c} :
                                              clm[e].pc = "locked" => clm[e].ref # t.ref
    <2>1. PICK t \in ClaimTx :
                  /\ clm' = [clm EXCEPT ![c] = t]
                  /\ t.pc # "idle" => /\ t.consumer \in Devices
                                      /\ \A r \in t.seen : pkg[r].owner # Null
                                      /\ t.pc = "locked" => t.ref \in Refs /\ pkg[t.ref].owner # Null
                  /\ t.pc = "locked" => /\ pkg[t.ref].consumer = Null
                                        /\ \A e \in Claimers \ {c} :
                                              clm[e].pc = "locked" => clm[e].ref # t.ref
      BY <1>2
    <2>2. clm'[c] = t /\ \A e \in Claimers \ {c} : clm'[e] = clm[e]
      BY <2>1 DEF TypeOK
    <2>3. TypeOK'
      BY <1>2, <2>1 DEF TypeOK
    <2>4. t.seen \subseteq Refs
      BY DEF ClaimTx
    <2>5. LockedOnce'
      BY <1>2, <2>1, <2>2, <2>4 DEF LockedOnce
    <2>6. SeenPublished'
      BY <1>2, <2>1, <2>2 DEF SeenPublished
    <2> QED
      BY <1>2, <2>3, <2>5, <2>6 DEF PublisherTrusted, InsertedOnce, ClaimedOnce
  <1>3. ASSUME NEW target \in Devices, NEW consumer \in Devices,
               ClaimBegin(c, target, consumer)
        PROVE  PackageInv'
    <2> DEFINE t == [pc |-> "lock", consumer |-> consumer,
                     seen |-> Candidates(target, consumer), ref |-> Null]
    <2>1. \A r \in Candidates(target, consumer) : r \in Refs /\ pkg[r].owner # Null
      BY NullAssumption DEF Candidates
    <2>2. t \in ClaimTx
      BY <2>1 DEF ClaimTx
    <2>3. t.pc = "lock" /\ t.consumer = consumer /\ t.seen = Candidates(target, consumer)
      OBVIOUS
    <2>4. /\ clm' = [clm EXCEPT ![c] = t]
          /\ UNCHANGED <<status, members, pkg, expired, pub, revoking, returned>>
      BY <1>3 DEF ClaimBegin
    <2> HIDE DEF t
    <2> QED
      BY <1>2, <2>1, <2>2, <2>3, <2>4
  <1>4. ASSUME NEW r \in Refs, ClaimLock(c, r)
        PROVE  PackageInv'
    <2> DEFINE t == [clm[c] EXCEPT !.pc = "locked", !.seen = {}, !.ref = r]
    <2>1. t \in ClaimTx /\ t.pc = "locked" /\ t.ref = r
              /\ t.consumer = clm[c].consumer /\ t.seen = {}
      BY <1>1 DEF ClaimTx
    <2>2. /\ clm[c].pc = "lock" /\ r \in clm[c].seen /\ pkg[r].consumer = Null
          /\ \A e \in Claimers : clm[e].pc = "locked" => clm[e].ref # r
          /\ clm' = [clm EXCEPT ![c] = t]
          /\ UNCHANGED <<status, members, pkg, expired, pub, revoking, returned>>
      BY <1>4 DEF ClaimLock, Lockable
    <2>3. clm[c].consumer \in Devices /\ \A x \in clm[c].seen : pkg[x].owner # Null
      BY <2>2 DEF SeenPublished
    <2> HIDE DEF t
    <2> QED
      BY <1>2, <2>1, <2>2, <2>3
  <1>5. CASE ClaimNone(c) \/ ClaimAbort(c)
    BY <1>1, <1>2, <1>5 DEF ClaimNone, ClaimAbort
  <1>6. CASE ClaimFinish(c)
    <2> DEFINE r == clm[c].ref
    <2>1. /\ r \in Refs /\ clm[c].consumer \in Devices
          /\ pkg[r].consumer = Null /\ pkg[r].owner # Null
          /\ \A e \in Claimers \ {c} : clm[e].pc = "locked" => clm[e].ref # r
      BY <1>6 DEF ClaimFinish, LockedOnce, SeenPublished
    <2>2. /\ pkg' = [pkg EXCEPT ![r] = [owner |-> pkg[r].owner, consumer |-> clm[c].consumer]]
          /\ returned' = [returned EXCEPT ![r] = returned[r] + 1]
          /\ clm' = [clm EXCEPT ![c] = NoClaim] /\ expired' \subseteq expired
          /\ UNCHANGED <<status, members, pub, revoking>>
      BY <1>6 DEF ClaimFinish, Taken
    <2>3. /\ pkg'[r].owner = pkg[r].owner /\ pkg'[r].consumer = clm[c].consumer
          /\ \A x \in Refs \ {r} : pkg'[x] = pkg[x]
          /\ clm'[c] = NoClaim /\ \A e \in Claimers \ {c} : clm'[e] = clm[e]
      BY <2>1, <2>2 DEF TypeOK
    <2>4. TypeOK'
      <3>1. pkg[r] \in PackageRow /\ returned[r] \in Nat
        BY <2>1 DEF TypeOK
      <3>2. [owner |-> pkg[r].owner, consumer |-> clm[c].consumer] \in PackageRow
        BY <2>1, <3>1 DEF PackageRow
      <3>3. returned[r] + 1 \in Nat
        BY <3>1
      <3>4. pkg' \in [Refs -> PackageRow] /\ returned' \in [Refs -> Nat]
        BY <2>2, <3>2, <3>3 DEF TypeOK
      <3>5. \A x \in Refs : pkg'[x].consumer # Null => pkg'[x].owner # Null
        BY <2>1, <2>3 DEF TypeOK
      <3> QED
        BY <1>1, <2>2, <3>4, <3>5 DEF TypeOK
    <2>5. PublisherTrusted'
      BY <2>2 DEF PublisherTrusted
    <2>6. InsertedOnce'
      <3>1. \A p \in Publishers : pub[p].own \subseteq Refs
        BY DEF TypeOK, PublishTx
      <3> QED
        BY <2>1, <2>2, <2>3, <3>1 DEF InsertedOnce
    <2>7. LockedOnce'
      BY <1>1, <2>1, <2>3 DEF LockedOnce
    <2>8. SeenPublished'
      <3>1. \A e \in Claimers : clm[e].seen \subseteq Refs
        BY DEF TypeOK, ClaimTx
      <3> QED
        BY <1>1, <2>1, <2>3, <3>1 DEF SeenPublished
    <2>9. ClaimedOnce'
      <3>1. returned[r] <= 0 /\ returned'[r] = returned[r] + 1 /\ returned[r] \in Nat
        BY <2>1, <2>2 DEF ClaimedOnce, TypeOK
      <3>2. returned'[r] <= 1 /\ pkg'[r].consumer # Null
        BY <2>1, <2>3, <3>1, NullAssumption
      <3>3. \A x \in Refs \ {r} : returned'[x] = returned[x]
        BY <2>2 DEF TypeOK
      <3> QED
        BY <2>3, <3>2, <3>3 DEF ClaimedOnce
    <2> QED
      BY <2>4, <2>5, <2>6, <2>7, <2>8, <2>9
  <1> QED
    BY <1>3, <1>4, <1>5, <1>6 DEF Take

(* Approvals, revocations, membership and time keep the invariant. *)
LEMMA InvDevices ==
    ASSUME PackageInv,
           \/ \E d \in Devices :
                 ApproveDevice(d) \/ RevokeBegin(d) \/ RevokeFinish(d) \/ RevokeAbort(d)
           \/ \E u \in Accounts : Join(u) \/ Leave(u)
           \/ \E r \in Refs : Expire(r)
    PROVE  PackageInv'
  <1> USE DEF PackageInv
  <1>1. UNCHANGED <<pkg, pub, clm, returned>>
    BY DEF ApproveDevice, RevokeBegin, RevokeFinish, RevokeAbort, Join, Leave, Expire
  <1>2. InsertedOnce' /\ LockedOnce' /\ SeenPublished' /\ ClaimedOnce'
    BY <1>1 DEF InsertedOnce, LockedOnce, SeenPublished, ClaimedOnce
  <1>3. TypeOK'
    BY DEF TypeOK, DeviceStatus, ApproveDevice, RevokeBegin, RevokeFinish, RevokeAbort,
           Join, Leave, Expire
  <1>4. PublisherTrusted'
    BY DEF TypeOK, PublisherTrusted, HoldsShare, ApproveDevice, RevokeBegin, RevokeFinish,
           RevokeAbort, Join, Leave, Expire
  <1> QED
    BY <1>2, <1>3, <1>4

(* Every step keeps the packages in order. *)
LEMMA InvNext == PackageInv /\ [Next]_vars => PackageInv'
  <1> SUFFICES ASSUME PackageInv, [Next]_vars PROVE PackageInv'
    OBVIOUS
  <1>1. CASE UNCHANGED vars
    BY <1>1 DEF vars, PackageInv, TypeOK, PublisherTrusted, InsertedOnce, LockedOnce,
                SeenPublished, ClaimedOnce
  <1>2. CASE Next
    BY <1>2, InvPublish, InvClaim, InvDevices DEF Next
  <1> QED
    BY <1>1, <1>2

(* The invariant holds of every run of the store. *)
THEOREM PackagesInvariant == Spec => []PackageInv
  BY InvInit, InvNext, PTL DEF Spec

(* Rows, transactions and statements have their shapes. *)
THEOREM TypeCorrect == Spec => []TypeOK
  <1>1. PackageInv => TypeOK
    BY DEF PackageInv
  <1> QED
    BY <1>1, PackagesInvariant, PTL

(* take_key_package_for_room hands a package out at most once. *)
THEOREM PackagesClaimedOnce == Spec => []ClaimedOnce
  <1>1. PackageInv => ClaimedOnce
    BY DEF PackageInv
  <1> QED
    BY <1>1, PackagesInvariant, PTL

-----------------------------------------------------------------------------
(* Only two steps change a row: a commit of a publication, which adds rows *)
(* of its trusted device, and the end of a claim, which consumes one.      *)
LEMMA RowChange ==
    ASSUME PackageInv, [Next]_vars, NEW r \in Refs, pkg'[r] # pkg[r]
    PROVE  \/ /\ pkg[r].owner = Null /\ pkg[r].consumer = Null
              /\ status[pkg'[r].owner] = "active"
           \/ /\ pkg[r].owner # Null /\ pkg[r].consumer = Null
              /\ pkg'[r].owner = pkg[r].owner
  <1> USE DEF PackageInv
  <1>1. Next
    BY DEF vars
  <1>2. ASSUME NEW p \in Publishers, Publish(p)
        PROVE  /\ pkg[r].owner = Null /\ pkg[r].consumer = Null
               /\ status[pkg'[r].owner] = "active"
    <2>1. PublishCommit(p)
      BY <1>2 DEF Publish, PublishBegin, PublishInsert, PublishCount, PublishAbort
    <2>2. r \in pub[p].own /\ pkg'[r].owner = pub[p].device
      BY <2>1 DEF PublishCommit
    <2> QED
      BY <2>1, <2>2 DEF PublishCommit, InsertedOnce, PublisherTrusted, TypeOK
  <1>3. ASSUME NEW c \in Claimers, Take(c)
        PROVE  pkg[r].owner # Null /\ pkg[r].consumer = Null /\ pkg'[r].owner = pkg[r].owner
    <2>1. ClaimFinish(c)
      BY <1>3 DEF Take, ClaimBegin, ClaimLock, ClaimNone, ClaimAbort
    <2>2. r = clm[c].ref /\ clm[c].pc = "locked" /\ pkg'[r].owner = pkg[r].owner
      BY <2>1 DEF ClaimFinish, Taken, TypeOK
    <2> QED
      BY <2>2 DEF LockedOnce, SeenPublished
  <1>4. ~ \E d \in Devices :
              ApproveDevice(d) \/ RevokeBegin(d) \/ RevokeFinish(d) \/ RevokeAbort(d)
    BY DEF ApproveDevice, RevokeBegin, RevokeFinish, RevokeAbort
  <1>5. ~ \E u \in Accounts : Join(u) \/ Leave(u)
    BY DEF Join, Leave
  <1>6. ~ \E x \in Refs : Expire(x)
    BY DEF Expire
  <1> QED
    BY <1>1, <1>2, <1>3, <1>4, <1>5, <1>6 DEF Next

(* A ref keeps its device and a consumed package its consumer. *)
THEOREM RefsKeepTheirOwner == Spec => RefsKeepOwner
  <1> DEFINE Keeps == \A r \in Refs :
                /\ pkg[r].owner # Null => pkg'[r].owner = pkg[r].owner
                /\ pkg[r].consumer # Null => pkg'[r].consumer = pkg[r].consumer
  <1>1. PackageInv /\ [Next]_vars => [Keeps]_vars
    BY RowChange
  <1> QED
    BY <1>1, PackagesInvariant, PTL DEF Spec, RefsKeepOwner

(* publish_key_packages makes packages visible only of trusted devices. *)
THEOREM PackagesOfTrustedDevices == Spec => PublishedByTrusted
  <1> DEFINE Trusted == \A r \in Refs : pkg[r].owner = Null /\ pkg'[r].owner # Null
                            => status[pkg'[r].owner] = "active"
  <1>1. PackageInv /\ [Next]_vars => [Trusted]_vars
    BY RowChange
  <1> QED
    BY <1>1, PackagesInvariant, PTL DEF Spec, PublishedByTrusted

-----------------------------------------------------------------------------
(* The limit of a device.  What is available and what counted publications *)
(* are about to add together stay within the bound: a commit moves         *)
(* packages from the latter to the former.                                 *)
Largest == IF MaxBatch < Limit THEN MaxBatch ELSE Limit

Bound == Limit + (Cardinality(Publishers) - 1) * Largest

Counted(d) == {p \in Publishers : pub[p].pc = "counted" /\ pub[p].device = d}

Promised(d) == Available(d) \cup UNION {pub[p].own : p \in Counted(d)}

Rows == {r \in Refs : pkg[r].owner # Null}

(* What is expired or consumed is not available, and never will be again.  *)
Spent == expired \cup {r \in Refs : pkg[r].consumer # Null}

(* Only rows are spent, and what a request takes for expired is spent.     *)
ExpiredRows == Spent \subseteq Rows /\ \A p \in Publishers : pub[p].gone \subseteq Spent

(* A request inserts no more than its batch, and has counted its own.      *)
Batches ==
    \A p \in Publishers :
        /\ IsFiniteSet(pub[p].own)
        /\ Cardinality(pub[p].own) + Len(pub[p].todo) <= MaxBatch
        /\ pub[p].pc = "counted" => Cardinality(pub[p].own) <= Limit

Stock(d) == IsFiniteSet(Promised(d)) /\ Cardinality(Promised(d)) <= Bound

StockInv == /\ IsFiniteSet(Rows) /\ ExpiredRows /\ Batches
            /\ \A d \in Devices : Stock(d)

(* The union of n sets of at most m elements has at most n * m elements.   *)
LEMMA UnionBound ==
    ASSUME NEW S, IsFiniteSet(S), NEW m \in Nat, NEW own,
           \A x \in S : IsFiniteSet(own[x]) /\ Cardinality(own[x]) <= m
    PROVE  /\ IsFiniteSet(UNION {own[x] : x \in S})
           /\ Cardinality(UNION {own[x] : x \in S}) <= Cardinality(S) * m
<1>. DEFINE U == UNION {own[x] : x \in S}
            size(x) == Cardinality(own[x])
            count(x) == CHOOSE g : g \in Surjection(1 .. size(x), own[x])
            D == {e \in S \X (1 .. m) : e[2] \in 1 .. size(e[1])}
            F == [e \in D |-> count(e[1])[e[2]]]
<1>1. \A x \in S : size(x) \in Nat /\ size(x) <= m
  BY FS_CardinalityType
<1>2. ASSUME NEW x \in S PROVE count(x) \in Surjection(1 .. size(x), own[x])
  <2>1. ExistsBijection(1 .. size(x), own[x])
    BY FS_CardinalityType
  <2>2. \E g : g \in Surjection(1 .. size(x), own[x])
    BY <2>1 DEF ExistsBijection, Bijection
  <2>. QED
    BY <2>2
<1>3. ASSUME NEW x \in S
      PROVE  /\ \A i \in 1 .. size(x) : count(x)[i] \in own[x]
             /\ \A u \in own[x] : \E i \in 1 .. size(x) : count(x)[i] = u
  <2>. HIDE DEF count, size
  <2>. QED
    BY <1>2 DEF Surjection
<1>4. IsFiniteSet(D) /\ Cardinality(D) <= Cardinality(S) * m
  <2>1. IsFiniteSet(1 .. m) /\ Cardinality(1 .. m) = m
    BY FS_Interval
  <2>2. IsFiniteSet(S \X (1 .. m)) /\ Cardinality(S \X (1 .. m)) = Cardinality(S) * m
    BY <2>1, FS_Product
  <2>3. D \in SUBSET (S \X (1 .. m))
    OBVIOUS
  <2>. HIDE DEF D
  <2>4. IsFiniteSet(D) /\ Cardinality(D) <= Cardinality(S \X (1 .. m))
    BY <2>2, <2>3, FS_Subset
  <2>. QED
    BY <2>2, <2>4
<1>5. F \in Surjection(D, U)
  <2>. HIDE DEF count
  <2>1. \A e \in D : e[1] \in S /\ e[2] \in 1 .. size(e[1])
    OBVIOUS
  <2>2. \A e \in D : F[e] \in U
    BY <1>3, <2>1
  <2>3. ASSUME NEW u \in U PROVE \E e \in D : F[e] = u
    <3>1. PICK x \in S : u \in own[x]
      OBVIOUS
    <3>2. PICK i \in 1 .. size(x) : count(x)[i] = u
      BY <1>3, <3>1
    <3>3. i \in 1 .. m
      BY <1>1, <3>2
    <3>4. <<x, i>> \in D /\ F[<<x, i>>] = u
      BY <3>2, <3>3
    <3>. QED
      BY <3>4
  <2>. QED
    BY <2>2, <2>3 DEF Surjection
<1>. HIDE DEF U, D, F
<1>6. IsFiniteSet(U) /\ Cardinality(U) <= Cardinality(D)
  BY <1>4, <1>5, FS_Surjection
<1>7. Cardinality(U) \in Nat /\ Cardinality(D) \in Nat /\ Cardinality(S) * m \in Int
  BY <1>4, <1>6, FS_CardinalityType
<1>8. Cardinality(U) <= Cardinality(S) * m
  BY <1>4, <1>6, <1>7
<1>. QED
  BY <1>6, <1>8 DEF U

(* A step after which no more of a device is available or promised keeps   *)
(* its bound.                                                              *)
LEMMA StockShrinks ==
    ASSUME NEW d \in Devices, Stock(d), Promised(d)' \subseteq Promised(d)
    PROVE  Stock(d)'
<1>1. IsFiniteSet(Promised(d)') /\ Cardinality(Promised(d)') <= Cardinality(Promised(d))
  BY FS_Subset DEF Stock
<1>2. Bound \in Int \/ Cardinality(Publishers) \notin Int
  BY LimitsAssumption DEF Bound, Largest
<1>3. Cardinality(Publishers) \in Int
  BY RequestsAssumption, FS_CardinalityType
<1>4. Cardinality(Promised(d)) \in Nat /\ Cardinality(Promised(d)') \in Nat
  BY <1>1, FS_CardinalityType DEF Stock
<1>5. Cardinality(Promised(d)') <= Bound
  BY <1>1, <1>2, <1>3, <1>4 DEF Stock
<1>. QED
  BY <1>1, <1>5 DEF Stock

(* The stock of every device is empty in the first state. *)
LEMMA StockInit == Init => StockInv
<1>. SUFFICES ASSUME Init PROVE StockInv
  OBVIOUS
<1>1. Rows = {} /\ Spent = {}
  BY DEF Init, Rows, Spent
<1>2. \A p \in Publishers : /\ pub[p].pc = "idle" /\ pub[p].own = {} /\ pub[p].gone = {}
                            /\ pub[p].todo = << >>
  BY DEF Init, NoPublish
<1>3. ExpiredRows
  BY <1>1, <1>2 DEF ExpiredRows
<1>4. Batches
  <2>0. Len(<< >>) = 0
    BY EmptySeq
  <2>1. Len(<< >>) = 0 /\ Cardinality({}) = 0 /\ IsFiniteSet({})
    BY <2>0, FS_EmptySet
  <2>2. \A p \in Publishers : Cardinality(pub[p].own) + Len(pub[p].todo) = 0
    <3>1. \A p \in Publishers : Cardinality(pub[p].own) = 0 /\ Len(pub[p].todo) = 0
      BY <1>2, <2>1, Zenon
    <3>. QED
      BY <3>1
  <2>3. \A p \in Publishers : IsFiniteSet(pub[p].own) /\ pub[p].pc # "counted"
    BY <1>2, <2>1
  <2>4. 0 <= MaxBatch
    BY LimitsAssumption
  <2>. QED
    BY <2>2, <2>3, <2>4 DEF Batches
<1>5. ASSUME NEW d \in Devices PROVE Stock(d)
  <2>1. Promised(d) = {}
    BY <1>2, NullAssumption DEF Init, Promised, Available, Counted
  <2>2. Cardinality(Publishers) \in Nat
    BY RequestsAssumption, FS_CardinalityType
  <2>3. Largest \in Nat /\ Largest <= Limit
    BY LimitsAssumption DEF Largest
  <2>4. Bound >= 0
    <3>1. CASE Cardinality(Publishers) = 0
      BY <2>3, <3>1, LimitsAssumption DEF Bound
    <3>2. CASE Cardinality(Publishers) - 1 \in Nat
      <4>. DEFINE n == Cardinality(Publishers) - 1
      <4>. HIDE DEF n
      <4>1. n * Largest \in Nat
        BY <2>3, <3>2 DEF n
      <4>. QED
        BY <4>1, LimitsAssumption DEF Bound, n
    <3>. QED
      BY <2>2, <3>1, <3>2
  <2>. QED
    BY <2>1, <2>4, FS_EmptySet DEF Stock
<1>. QED
  BY <1>1, <1>3, <1>4, <1>5, FS_EmptySet DEF StockInv

(* A publication that has not counted promises nothing.                    *)
LEMMA StockRequest ==
    ASSUME PackageInv, StockInv, NEW p \in Publishers, UNCHANGED <<pkg, expired>>,
           NEW t, pub' = [pub EXCEPT ![p] = t], t.pc # "counted", t.gone \subseteq Spent,
           IsFiniteSet(t.own), Cardinality(t.own) + Len(t.todo) <= MaxBatch
    PROVE  StockInv'
<1>1. pub'[p] = t /\ \A q \in Publishers \ {p} : pub'[q] = pub[q]
  BY DEF PackageInv, TypeOK
<1>2. ExpiredRows'
  BY <1>1 DEF StockInv, ExpiredRows, Rows, Spent
<1>3. Batches'
  BY <1>1 DEF StockInv, Batches
<1>4. ASSUME NEW d \in Devices PROVE Stock(d)'
  <2>1. \A q \in Counted(d)' : q \in Counted(d) /\ pub'[q] = pub[q]
    BY <1>1 DEF Counted
  <2>2. Promised(d)' \subseteq Promised(d)
    BY <2>1 DEF Promised, Available
  <2>. QED
    BY <2>2, StockShrinks DEF StockInv
<1>. QED
  BY <1>2, <1>3, <1>4 DEF StockInv, Rows

(* The count of a publication covers what is available and what it adds;   *)
(* the others that have counted add a batch each.                          *)
LEMMA StockCounted ==
    ASSUME PackageInv, StockInv, NEW p \in Publishers, UNCHANGED <<pkg, expired>>,
           pub[p].pc = "insert", Count(p) <= Limit,
           pub' = [pub EXCEPT ![p] = [pub[p] EXCEPT !.pc = "counted", !.gone = {}]]
    PROVE  StockInv'
<1>. DEFINE t == [pub[p] EXCEPT !.pc = "counted", !.gone = {}]
            e == pub[p].device
            Own == [q \in Publishers |-> pub[q].own]
            Seen == {r \in Refs : /\ r \notin pub[p].gone
                                  /\ \/ pkg[r].owner = e /\ pkg[r].consumer = Null
                                     \/ r \in pub[p].own}
            Others == UNION {Own[q] : q \in Publishers \ {p}}
<1>1. pub[p] \in PublishTx /\ pub \in [Publishers -> PublishTx]
  BY DEF PackageInv, TypeOK
<1>2. /\ t.pc = "counted" /\ t.device = e /\ t.own = pub[p].own /\ t.gone = {}
      /\ t.todo = pub[p].todo
  BY <1>1 DEF PublishTx
<1>3. pub'[p] = t /\ \A q \in Publishers \ {p} : pub'[q] = pub[q]
  BY <1>1
<1>. HIDE DEF t
<1>4. e \in Devices /\ e # Null
  BY NullAssumption DEF PackageInv, PublisherTrusted
<1>5. IsFiniteSet(Seen) /\ Cardinality(Seen) <= Limit /\ Cardinality(Seen) \in Nat
  <2>1. Seen \subseteq Rows \cup pub[p].own
    BY <1>4 DEF Rows
  <2>2. IsFiniteSet(Rows \cup pub[p].own)
    BY FS_Union DEF StockInv, Batches
  <2>3. Cardinality(Seen) = Count(p)
    BY DEF Count
  <2>. HIDE DEF Seen
  <2>. QED
    BY <2>1, <2>2, <2>3, FS_Subset, FS_CardinalityType
<1>6. pub[p].own \subseteq Seen
  BY <1>1 DEF PackageInv, InsertedOnce, StockInv, ExpiredRows, Rows, PublishTx
<1>7. Available(e) \subseteq Seen
  BY DEF StockInv, ExpiredRows, Spent, Available
<1>. HIDE DEF Seen
<1>8. Cardinality(pub[p].own) <= Limit
  <2>1. Cardinality(pub[p].own) <= Cardinality(Seen)
    BY <1>5, <1>6, FS_Subset
  <2>2. Cardinality(pub[p].own) \in Nat
    BY FS_CardinalityType DEF StockInv, Batches
  <2>. QED
    BY <1>5, <2>1, <2>2, LimitsAssumption
<1>9. ExpiredRows'
  BY <1>2, <1>3 DEF StockInv, ExpiredRows, Rows, Spent
<1>10. Batches'
  BY <1>2, <1>3, <1>8 DEF StockInv, Batches
<1>11. ASSUME NEW d \in Devices, d # e PROVE Stock(d)'
  <2>1. \A q \in Counted(d)' : q \in Counted(d) /\ pub'[q] = pub[q]
    BY <1>2, <1>3, <1>11 DEF Counted
  <2>2. Promised(d)' \subseteq Promised(d)
    BY <2>1 DEF Promised, Available
  <2>. QED
    BY <2>2, StockShrinks DEF StockInv
<1>12. Stock(e)'
  <2>. DEFINE Counting == {q \in Publishers \ {p} : pub[q].pc = "counted"}
              Theirs == UNION {Own[q] : q \in Counting}
  <2>1. /\ IsFiniteSet(Publishers \ {p}) /\ Cardinality(Publishers) \in Nat
        /\ Cardinality(Publishers \ {p}) = Cardinality(Publishers) - 1
    BY RequestsAssumption, FS_RemoveElement, FS_CardinalityType
  <2>2. /\ IsFiniteSet(Counting) /\ Cardinality(Counting) \in Nat
        /\ Cardinality(Counting) <= Cardinality(Publishers) - 1
    BY <2>1, FS_Subset, FS_CardinalityType
  <2>3. Largest \in Nat
    BY LimitsAssumption DEF Largest
  <2>4. \A q \in Counting : IsFiniteSet(Own[q]) /\ Cardinality(Own[q]) <= Largest
    <3>. SUFFICES ASSUME NEW q \in Counting
                  PROVE  IsFiniteSet(pub[q].own) /\ Cardinality(pub[q].own) <= Largest
      OBVIOUS
    <3>1. /\ IsFiniteSet(pub[q].own) /\ Cardinality(pub[q].own) <= Limit
          /\ Cardinality(pub[q].own) + Len(pub[q].todo) <= MaxBatch
      BY DEF StockInv, Batches
    <3>2. pub[q].todo \in Seq(Refs)
      BY <1>1 DEF PublishTx
    <3>3. Len(pub[q].todo) \in Nat /\ Cardinality(pub[q].own) \in Nat
      BY <3>1, <3>2, FS_CardinalityType
    <3>. QED
      BY <3>1, <3>3, LimitsAssumption DEF Largest
  <2>. HIDE DEF Own
  <2>5. IsFiniteSet(Theirs) /\ Cardinality(Theirs) <= Cardinality(Counting) * Largest
    <3>. HIDE DEF Counting
    <3>. QED
      BY <2>2, <2>3, <2>4, UnionBound
  <2>6. Promised(e)' \subseteq Seen \cup Theirs
    <3>1. \A q \in Counted(e)' : q = p \/ (q \in Counting /\ pub'[q].own = Own[q])
      BY <1>3 DEF Counted, Own
    <3>2. \A q \in Counted(e)' : pub'[q].own \subseteq Seen \cup Theirs
      BY <1>2, <1>3, <1>6, <3>1
    <3>3. Available(e)' = Available(e)
      BY DEF Available
    <3>. HIDE DEF Theirs, Counting
    <3>. QED
      BY <1>7, <3>2, <3>3 DEF Promised
  <2>. HIDE DEF Theirs
  <2>7. /\ IsFiniteSet(Seen \cup Theirs) /\ Cardinality(Theirs) \in Nat
        /\ Cardinality(Seen \cup Theirs) <= Cardinality(Seen) + Cardinality(Theirs)
    <3>1. /\ IsFiniteSet(Seen \cup Theirs)
          /\ Cardinality(Seen \cup Theirs)
                = Cardinality(Seen) + Cardinality(Theirs) - Cardinality(Seen \cap Theirs)
      BY <1>5, <2>5, FS_Union
    <3>2. Cardinality(Theirs) \in Nat /\ IsFiniteSet(Seen \cap Theirs)
      BY <1>5, <2>5, FS_CardinalityType, FS_Subset
    <3>3. Cardinality(Seen \cap Theirs) \in Nat
      BY <3>2, FS_CardinalityType
    <3>. QED
      BY <1>5, <3>1, <3>2, <3>3
  <2>8. /\ IsFiniteSet(Promised(e)')
        /\ Cardinality(Promised(e)') <= Cardinality(Seen \cup Theirs)
    BY <2>6, <2>7, FS_Subset
  <2>9. Cardinality(Promised(e)') \in Nat /\ Cardinality(Seen \cup Theirs) \in Nat
    BY <2>7, <2>8, FS_CardinalityType
  <2>10. Cardinality(Counting) * Largest <= (Cardinality(Publishers) - 1) * Largest
    <3>. DEFINE n == Cardinality(Counting)    k == Cardinality(Publishers) - 1
    <3>1. n \in Nat /\ k \in Nat /\ n <= k
      BY <2>1, <2>2
    <3>. HIDE DEF n, k
    <3>2. n * Largest <= k * Largest
      BY <2>3, <3>1
    <3>. QED
      BY <3>2 DEF n, k
  <2>11. Cardinality(Promised(e)') <= Bound
    <3>. DEFINE x == Cardinality(Counting) * Largest
                y == (Cardinality(Publishers) - 1) * Largest
    <3>1. x \in Int /\ y \in Int
      BY <2>1, <2>2, <2>3
    <3>2. Bound = Limit + y
      BY DEF Bound
    <3>3. Cardinality(Theirs) <= x /\ x <= y
      BY <2>5, <2>10
    <3>. HIDE DEF x, y
    <3>. QED
      BY <1>5, <2>7, <2>8, <2>9, <3>1, <3>2, <3>3, LimitsAssumption
  <2>. QED
    BY <2>8, <2>11 DEF Stock
<1>. QED
  BY <1>9, <1>10, <1>11, <1>12 DEF StockInv, Rows

(* A commit turns what was promised into rows. *)
LEMMA StockCommitted ==
    ASSUME PackageInv, StockInv, NEW p \in Publishers, PublishCommit(p)
    PROVE  StockInv'
<1>. DEFINE e == pub[p].device
            own == pub[p].own
<1>1. /\ pub'[p] = NoPublish /\ \A q \in Publishers \ {p} : pub'[q] = pub[q]
      /\ expired' = expired /\ pub[p].pc = "counted"
  BY DEF PublishCommit, PackageInv, TypeOK
<1>2. /\ \A r \in Refs : r \in own => pkg'[r].owner = e /\ pkg'[r].consumer = Null
      /\ \A r \in Refs : r \notin own => pkg'[r] = pkg[r]
  BY DEF PublishCommit
<1>3. e # Null /\ own \subseteq Refs /\ IsFiniteSet(own)
  BY <1>1, NullAssumption DEF PackageInv, PublisherTrusted, TypeOK, PublishTx, StockInv, Batches
<1>4. Rows' = Rows \cup own
  BY <1>2, <1>3 DEF Rows
<1>5. IsFiniteSet(Rows')
  BY <1>3, <1>4, FS_Union DEF StockInv
<1>6. NoPublish.own = {} /\ NoPublish.gone = {} /\ NoPublish.todo = << >> /\ NoPublish.pc = "idle"
  BY DEF NoPublish
<1>7. ExpiredRows'
  <2>1. Spent' = Spent
    BY <1>1, <1>2 DEF Spent, PackageInv, TypeOK, InsertedOnce
  <2>. QED
    BY <1>1, <1>4, <1>6, <2>1 DEF StockInv, ExpiredRows
<1>8. Batches'
  <2>1. Len(NoPublish.todo) = 0 /\ Cardinality(NoPublish.own) = 0 /\ IsFiniteSet(NoPublish.own)
    BY <1>6, FS_EmptySet
  <2>2. Cardinality(NoPublish.own) + Len(NoPublish.todo) <= MaxBatch
    BY <2>1, LimitsAssumption
  <2>. QED
    BY <1>1, <1>6, <2>1, <2>2 DEF StockInv, Batches
<1>9. ASSUME NEW d \in Devices PROVE Stock(d)'
  <2>1. \A q \in Counted(d)' : q \in Counted(d) /\ pub'[q] = pub[q]
    BY <1>1, <1>6 DEF Counted
  <2>2. \A r \in Available(d)' : r \in Available(d) \/ (r \in own /\ p \in Counted(d))
    BY <1>1, <1>2 DEF Available, Counted
  <2>3. Promised(d)' \subseteq Promised(d)
    BY <2>1, <2>2 DEF Promised
  <2>. QED
    BY <2>3, StockShrinks DEF StockInv
<1>. QED
  BY <1>5, <1>7, <1>8, <1>9 DEF StockInv

(* Every step of a publication keeps the bound. *)
LEMMA StockPublish ==
    ASSUME PackageInv, StockInv, NEW p \in Publishers, Publish(p)
    PROVE  StockInv'
<1>1. /\ pub[p] \in PublishTx /\ IsFiniteSet(pub[p].own)
      /\ Cardinality(pub[p].own) + Len(pub[p].todo) <= MaxBatch
      /\ pub[p].gone \subseteq Spent
  BY DEF PackageInv, TypeOK, StockInv, Batches, ExpiredRows
<1>2. /\ NoPublish.pc # "counted" /\ NoPublish.gone \subseteq Spent
      /\ IsFiniteSet(NoPublish.own)
      /\ Cardinality(NoPublish.own) + Len(NoPublish.todo) <= MaxBatch
  <2>1. NoPublish.own = {} /\ NoPublish.gone = {} /\ NoPublish.todo = << >>
        /\ NoPublish.pc = "idle"
    BY DEF NoPublish
  <2>2. Len(NoPublish.todo) = 0 /\ Cardinality(NoPublish.own) = 0 /\ IsFiniteSet(NoPublish.own)
    BY <2>1, FS_EmptySet
  <2>3. Cardinality(NoPublish.own) + Len(NoPublish.todo) <= MaxBatch
    BY <2>2, LimitsAssumption
  <2>. QED
    BY <2>1, <2>2, <2>3
<1>3. ASSUME NEW d \in Devices, NEW n \in 1 .. MaxBatch, NEW batch \in [1 .. n -> Refs],
             PublishBegin(p, d, batch)
      PROVE  StockInv'
  <2>. DEFINE t == [pc |-> "insert", device |-> d, todo |-> batch, own |-> {},
                    gone |-> ExpiredOf(d)]
  <2>1. pub' = [pub EXCEPT ![p] = t] /\ UNCHANGED <<pkg, expired>>
    BY <1>3 DEF PublishBegin
  <2>2. t.pc = "insert" /\ t.gone \subseteq Spent /\ t.own = {} /\ t.todo = batch
    BY DEF ExpiredOf, Spent
  <2>. HIDE DEF t
  <2>3. Len(batch) = n
    BY LimitsAssumption, BatchIsSeq
  <2>4. Cardinality(t.own) + Len(t.todo) <= MaxBatch /\ IsFiniteSet(t.own)
    BY <2>2, <2>3, FS_EmptySet, LimitsAssumption
  <2>. QED
    BY <2>1, <2>2, <2>4, StockRequest
<1>4. CASE PublishInsert(p)
  <2>. DEFINE r == Head(pub[p].todo)
              own == IF pkg[r].owner = Null THEN pub[p].own \cup {r} ELSE pub[p].own
              t == [pub[p] EXCEPT !.todo = Tail(pub[p].todo), !.own = own]
  <2>1. /\ pub' = [pub EXCEPT ![p] = t] /\ UNCHANGED <<pkg, expired>>
        /\ pub[p].pc = "insert" /\ pub[p].todo # << >>
    BY <1>4 DEF PublishInsert
  <2>2. /\ IsFiniteSet(own) /\ Cardinality(own) <= Cardinality(pub[p].own) + 1
        /\ Cardinality(pub[p].own) \in Nat /\ Cardinality(own) \in Nat
    <3>1. Cardinality(pub[p].own) \in Nat
      BY <1>1, FS_CardinalityType
    <3>2. /\ IsFiniteSet(pub[p].own \cup {r})
          /\ Cardinality(pub[p].own \cup {r})
                \in {Cardinality(pub[p].own), Cardinality(pub[p].own) + 1}
      BY <1>1, FS_AddElement
    <3>3. own = pub[p].own \/ own = pub[p].own \cup {r}
      OBVIOUS
    <3>. HIDE DEF own
    <3>4. CASE own = pub[p].own
      BY <1>1, <3>1, <3>4
    <3>5. CASE own = pub[p].own \cup {r}
      <4>. DEFINE k == Cardinality(own)
      <4>1. IsFiniteSet(own) /\ k \in {Cardinality(pub[p].own), Cardinality(pub[p].own) + 1}
        BY <3>2, <3>5, Zenon
      <4>. HIDE DEF k
      <4>2. k \in Nat /\ k <= Cardinality(pub[p].own) + 1
        BY <3>1, <4>1
      <4>. QED
        BY <3>1, <4>1, <4>2 DEF k
    <3>. QED
      BY <3>3, <3>4, <3>5
  <2>3. Len(Tail(pub[p].todo)) = Len(pub[p].todo) - 1 /\ Len(pub[p].todo) \in Nat
    BY <1>1, <2>1 DEF PublishTx
  <2>. HIDE DEF own
  <2>4. /\ t.pc = "insert" /\ t.gone = pub[p].gone /\ t.own = own
        /\ t.todo = Tail(pub[p].todo)
    BY <1>1, <2>1 DEF PublishTx
  <2>. HIDE DEF t
  <2>5. Cardinality(t.own) + Len(t.todo) <= MaxBatch
    BY <1>1, <2>2, <2>3, <2>4, LimitsAssumption
  <2>. QED
    BY <1>1, <2>1, <2>2, <2>4, <2>5, StockRequest
<1>5. CASE PublishCount(p)
  <2>1. /\ UNCHANGED <<pkg, expired>> /\ pub[p].pc = "insert"
        /\ \/ pub' = [pub EXCEPT ![p] = NoPublish]
           \/ /\ ~(Count(p) > Limit)
              /\ pub' = [pub EXCEPT ![p] = [pub[p] EXCEPT !.pc = "counted", !.gone = {}]]
    BY <1>5 DEF PublishCount
  <2>2. CASE pub' = [pub EXCEPT ![p] = NoPublish]
    BY <1>2, <2>1, <2>2, StockRequest
  <2>3. CASE /\ ~(Count(p) > Limit)
             /\ pub' = [pub EXCEPT ![p] = [pub[p] EXCEPT !.pc = "counted", !.gone = {}]]
    <3>1. Count(p) \in Nat
      <4>. DEFINE Seen == {r \in Refs : /\ r \notin pub[p].gone
                                        /\ \/ pkg[r].owner = pub[p].device /\ pkg[r].consumer = Null
                                           \/ r \in pub[p].own}
      <4>1. pub[p].device # Null
        BY <2>1, NullAssumption DEF PackageInv, PublisherTrusted
      <4>2. Seen \subseteq Rows \cup pub[p].own
        BY <4>1 DEF Rows
      <4>3. IsFiniteSet(Rows \cup pub[p].own)
        BY <1>1, FS_Union DEF StockInv
      <4>4. Count(p) = Cardinality(Seen)
        BY DEF Count
      <4>. HIDE DEF Seen
      <4>. QED
        BY <4>2, <4>3, <4>4, FS_Subset, FS_CardinalityType
    <3>2. Count(p) <= Limit
      BY <2>3, <3>1, LimitsAssumption
    <3>. QED
      BY <2>1, <2>3, <3>2, StockCounted
  <2>. QED
    BY <2>1, <2>2, <2>3
<1>6. CASE PublishCommit(p)
  BY <1>6, StockCommitted
<1>7. CASE PublishAbort(p)
  BY <1>2, <1>7, StockRequest DEF PublishAbort
<1>. QED
  BY <1>3, <1>4, <1>5, <1>6, <1>7 DEF Publish

(* All other steps leave the publications alone and make no package        *)
(* available.                                                              *)
LEMMA StockOthers ==
    ASSUME PackageInv, StockInv, pub' = pub, Spent \subseteq Spent', Spent' \subseteq Rows,
           \A r \in Refs : /\ pkg'[r].owner = pkg[r].owner
                           /\ pkg[r].consumer # Null => pkg'[r].consumer # Null
    PROVE  StockInv'
<1>1. Rows' = Rows
  BY DEF Rows
<1>2. ExpiredRows' /\ Batches'
  BY <1>1 DEF StockInv, ExpiredRows, Batches
<1>3. ASSUME NEW d \in Devices PROVE Stock(d)'
  <2>1. Counted(d)' = Counted(d) /\ Available(d)' \subseteq Available(d)
    BY DEF Counted, Available, Spent
  <2>2. Promised(d)' \subseteq Promised(d)
    BY <2>1 DEF Promised
  <2>. QED
    BY <2>2, StockShrinks DEF StockInv
<1>. QED
  BY <1>1, <1>2, <1>3 DEF StockInv

(* Every step keeps the bound of every device. *)
LEMMA StockNext == PackageInv /\ StockInv /\ [Next]_vars => StockInv'
<1>. SUFFICES ASSUME PackageInv, StockInv, [Next]_vars PROVE StockInv'
  OBVIOUS
<1>0. Spent \subseteq Rows
  BY DEF StockInv, ExpiredRows
<1>1. ASSUME NEW c \in Claimers, Take(c) PROVE StockInv'
  <2>1. CASE ClaimFinish(c)
    <3>1. /\ pub' = pub /\ expired' = expired \ {clm[c].ref} /\ clm[c].pc = "locked"
          /\ pkg' = [pkg EXCEPT ![clm[c].ref] = Taken(pkg[clm[c].ref], clm[c].consumer)]
      BY <2>1 DEF ClaimFinish
    <3>2. /\ clm[c].consumer # Null /\ clm[c].ref \in Refs
          /\ clm[c].ref \in Rows
      BY <3>1, NullAssumption DEF PackageInv, LockedOnce, SeenPublished, Rows
    <3>3. \A r \in Refs : /\ pkg'[r].owner = pkg[r].owner
                          /\ pkg[r].consumer # Null => pkg'[r].consumer # Null
      BY <3>1, <3>2 DEF Taken, PackageInv, TypeOK
    <3>4. pkg'[clm[c].ref].consumer # Null /\ \A r \in Refs \ {clm[c].ref} : pkg'[r] = pkg[r]
      BY <3>1, <3>2 DEF Taken, PackageInv, TypeOK
    <3>5. Spent' = Spent \cup {clm[c].ref}
      BY <3>1, <3>2, <3>3, <3>4 DEF Spent
    <3>. QED
      BY <1>0, <3>1, <3>2, <3>3, <3>5, StockOthers
  <2>2. CASE UNCHANGED <<pkg, pub, expired>>
    BY <1>0, <2>2, StockOthers DEF Spent
  <2>. QED
    BY <1>1, <2>1, <2>2 DEF Take, ClaimBegin, ClaimLock, ClaimNone, ClaimAbort
<1>2. ASSUME NEW r \in Refs, Expire(r) PROVE StockInv'
  BY <1>0, <1>2, StockOthers DEF Expire, Rows, Spent
<1>3. CASE \/ \E d \in Devices : ApproveDevice(d) \/ RevokeBegin(d) \/ RevokeFinish(d) \/ RevokeAbort(d)
           \/ \E u \in Accounts : Join(u) \/ Leave(u)
           \/ UNCHANGED vars
  <2>1. UNCHANGED <<pkg, pub, expired>>
    BY <1>3 DEF ApproveDevice, RevokeBegin, RevokeFinish, RevokeAbort, Join, Leave, vars
  <2>. QED
    BY <1>0, <2>1, StockOthers DEF Spent
<1>. QED
  BY <1>1, <1>2, <1>3, StockPublish DEF Next

(* publish_key_packages counts before it commits, without a lock that      *)
(* keeps other publications of the device away: only their batches can     *)
(* come on top of the limit.                                               *)
THEOREM InventoryStaysBounded == Spec => []InventoryBounded
<1>1. PackageInv /\ StockInv => InventoryBounded
  <2>. SUFFICES ASSUME StockInv, NEW d \in Devices PROVE Cardinality(Available(d)) <= Bound
    BY DEF InventoryBounded, Bound, Largest
  <2>1. IsFiniteSet(Promised(d)) /\ Cardinality(Promised(d)) <= Bound
    BY DEF StockInv, Stock
  <2>2. Available(d) \subseteq Promised(d)
    BY DEF Promised
  <2>3. /\ IsFiniteSet(Available(d)) /\ Cardinality(Available(d)) <= Cardinality(Promised(d))
    BY <2>1, <2>2, FS_Subset
  <2>4. Bound \in Int
    <3>1. Cardinality(Publishers) \in Nat /\ Largest \in Nat
      BY RequestsAssumption, LimitsAssumption, FS_CardinalityType DEF Largest
    <3>. QED
      BY <3>1, LimitsAssumption DEF Bound
  <2>. QED
    BY <2>1, <2>3, <2>4, FS_CardinalityType
<1>. QED
  BY <1>1, InvInit, InvNext, StockInit, StockNext, PTL DEF Spec

-----------------------------------------------------------------------------
(* Uploaded files *)

Locking == {"locked", "deleting", "gone"}

(* A process knows its key, and the user or message it works for.          *)
Knows(p) ==
    /\ ~At(p, "idle") => run[p].key \in Keys
    /\ run[p].pc \in {"verified", "create", "prepared"} => run[p].user \in Users
    /\ run[p].pc \in {"attach", "inserted"} =>
           run[p].message \in Messages /\ message[run[p].message].key = run[p].key

(* At these places a process is sure the object store had the object.      *)
Sure(p) ==
    run[p].pc \in {"verified", "create", "prepared", "complete", "assembled", "approved",
                   "inserted"} => run[p].key \in stored

(* A row locked for deletion is there, and nothing refers to its key.      *)
Unused(p) ==
    \A k \in Keys : run[p].pc \in Locking /\ run[p].key = k => Present(k) /\ ~Referenced(k)

(* A message in its transaction has its object, but for what is torn.      *)
Backed(p) == At(p, "inserted") => run[p].key \in object \cup torn

(* Nobody locks a row another process has locked.                          *)
RowsApart ==
    \A p, q \in Procs :
        /\ run[p].pc \in Locking /\ run[q].pc \in Locking \cup {"inserted"}
        /\ run[p].key = run[q].key
        => p = q

(* What is marked, committed or sent was stored.                           *)
StoredKnown ==
    /\ CompletedWasStored
    /\ \A k \in Keys : commit[k].status # "none" => k \in stored
    /\ \A m \in Messages : message[m].status # "none" => message[m].key \in stored

(* An object is gone only if its row says so, or is about to.              *)
Accounted(k) ==
    k \in stored \ object =>
        \/ k \in torn \/ record[k] = "deleted"
        \/ \E p \in Procs : At(p, "gone") /\ run[p].key = k

UploadInv ==
    /\ UploadTypeOK /\ RowsApart /\ StoredKnown /\ MessageHasObject
    /\ \A p \in Procs : Knows(p) /\ Sure(p) /\ Unused(p) /\ Backed(p)
    /\ \A k \in Keys : Accounted(k)

(* What a process does to the rest of the state when it moves without      *)
(* taking a new lock: S are the processes that move, one or none.          *)
Careful(S) ==
    /\ \A q \in Procs \ S : run'[q] = run[q]
    /\ \A q \in S :
        /\ Knows(q)' /\ Sure(q)' /\ ~At(q, "inserted")'
        /\ run'[q].pc \in Locking =>
               run[q].pc \in Locking \ {"gone"} /\ run'[q].key = run[q].key
        /\ At(q, "gone") => run[q].key \in torn' \/ record'[run[q].key] = "deleted"
    /\ \A m \in Messages :
        /\ message'[m].key = message[m].key
        /\ message'[m].status = "live" =>
               \/ message[m].status = "live"
               \/ \E q \in S : At(q, "inserted") /\ run[q].message = m
    /\ stored \subseteq stored' /\ torn \subseteq torn' /\ stored' \ stored \subseteq object'
    /\ \A k \in object \ object' :
           \E q \in S : /\ At(q, "deleting") /\ run[q].key = k
                        /\ k \in torn' \/ (At(q, "gone")' /\ run'[q].key = k)
    /\ \A k \in Keys :
        /\ record[k] = "deleted" => record'[k] = "deleted" \/ k \in torn'
        /\ Exclusive(k) =>
            /\ Present(k)' \/ \E q \in S : At(q, "gone") /\ run[q].key = k
            /\ Referenced(k)' => Referenced(k)

(* Such a step keeps all the locks, and what they stand for.               *)
LEMMA Kept ==
    ASSUME UploadInv, UploadTypeOK', StoredKnown', NEW S \in SUBSET Procs, Careful(S)
    PROVE  UploadInv'
  <1>1. ASSUME NEW q \in Procs, run'[q].pc \in Locking
        PROVE  run[q].pc \in Locking /\ run'[q].key = run[q].key /\ (q \in S => ~At(q, "gone"))
    BY <1>1 DEF Careful, At
  <1>2. ASSUME NEW q \in Procs, At(q, "inserted")' PROVE q \notin S /\ run'[q] = run[q]
    BY <1>2 DEF Careful
  <1>3. RowsApart'
    <2> SUFFICES ASSUME NEW p \in Procs, NEW q \in Procs, run'[p].pc \in Locking,
                        run'[q].pc \in Locking \cup {"inserted"}, run'[p].key = run'[q].key
                 PROVE  p = q
      BY DEF RowsApart
    <2>1. run[p].pc \in Locking /\ run'[p].key = run[p].key
      BY <1>1
    <2>2. run[q].pc \in Locking \cup {"inserted"} /\ run'[q].key = run[q].key
      BY <1>1, <1>2 DEF At
    <2> QED
      BY <2>1, <2>2 DEF UploadInv, RowsApart
  <1>4. \A q \in Procs : Knows(q)' /\ Sure(q)'
    <2> SUFFICES ASSUME NEW q \in Procs, q \notin S PROVE Knows(q)' /\ Sure(q)'
      BY DEF Careful
    <2>1. run'[q] = run[q] /\ Knows(q) /\ Sure(q)
      BY DEF Careful, UploadInv
    <2>2. stored \subseteq stored' /\ \A m \in Messages : message'[m].key = message[m].key
      BY DEF Careful
    <2> QED
      BY <2>1, <2>2 DEF Knows, Sure, At
  <1>5. ASSUME NEW q \in Procs PROVE Unused(q)'
    <2> SUFFICES ASSUME NEW k \in Keys, run'[q].pc \in Locking, run'[q].key = k
                 PROVE  Present(k)' /\ ~Referenced(k)'
      BY DEF Unused
    <2>1. run[q].pc \in Locking /\ run[q].key = k
      BY <1>1
    <2>2. ~Referenced(k) /\ Exclusive(k)
      BY <2>1 DEF UploadInv, Unused, Exclusive, Locking
    <2>3. ASSUME NEW s \in S, At(s, "gone"), run[s].key = k PROVE FALSE
      <3>1. s = q
        BY <2>1, <2>2, <2>3 DEF UploadInv, RowsApart, At, Locking
      <3> QED
        BY <1>1, <2>3, <3>1
    <2> QED
      BY <2>2, <2>3 DEF Careful
  <1>6. ASSUME NEW q \in Procs, At(q, "inserted"), run[q].key \in object \cup torn
        PROVE  run[q].key \in object' \cup torn'
    <2> SUFFICES ASSUME run[q].key \in object \ object' PROVE FALSE
      BY <1>6 DEF Careful
    <2>1. PICK s \in S : At(s, "deleting") /\ run[s].key = run[q].key
      BY DEF Careful
    <2> QED
      BY <1>6, <2>1 DEF UploadInv, RowsApart, Locking, At
  <1>7. ASSUME NEW q \in Procs PROVE Backed(q)'
    BY <1>2, <1>6 DEF Backed, UploadInv, At
  <1>8. ASSUME NEW k \in Keys PROVE Accounted(k)'
    <2> SUFFICES ASSUME k \in stored' \ object'
                 PROVE  \/ k \in torn' \/ record'[k] = "deleted"
                        \/ \E p \in Procs : At(p, "gone")' /\ run'[p].key = k
      BY DEF Accounted
    <2>1. k \in stored
      BY DEF Careful
    <2>2. CASE k \in object
      BY <2>2 DEF Careful
    <2>3. CASE k \notin object
      <3>1. CASE k \in torn \/ record[k] = "deleted"
        BY <3>1 DEF Careful
      <3>2. CASE \E p \in Procs : At(p, "gone") /\ run[p].key = k
        <4>1. PICK p \in Procs : At(p, "gone") /\ run[p].key = k
          BY <3>2
        <4>2. CASE p \in S
          BY <4>1, <4>2 DEF Careful
        <4>3. CASE p \notin S
          BY <4>1, <4>3 DEF Careful, At
        <4> QED
          BY <4>2, <4>3
      <3> QED
        BY <2>1, <2>3, <3>1, <3>2 DEF UploadInv, Accounted
    <2> QED
      BY <2>2, <2>3
  <1>9. ASSUME NEW m \in Messages, message'[m].status = "live"
        PROVE  message'[m].key \in object' \cup torn'
    <2>1. message'[m].key = message[m].key
      BY DEF Careful
    <2>2. CASE message[m].status = "live"
      <3> SUFFICES ASSUME message[m].key \in object \ object' PROVE FALSE
        BY <2>1, <2>2 DEF UploadInv, MessageHasObject, Careful
      <3>1. PICK s \in S : At(s, "deleting") /\ run[s].key = message[m].key
        BY DEF Careful
      <3>2. message[m].key \in Keys /\ Referenced(message[m].key)
        BY <2>2 DEF UploadInv, UploadTypeOK, Message, Referenced
      <3> QED
        BY <3>1, <3>2 DEF UploadInv, Unused, Locking, At
    <2>3. CASE message[m].status # "live"
      <3>1. PICK s \in S : At(s, "inserted") /\ run[s].message = m
        BY <1>9, <2>3 DEF Careful
      <3>2. run[s].key = message[m].key /\ run[s].key \in object \cup torn
        BY <3>1 DEF UploadInv, Knows, Backed, At
      <3> QED
        BY <1>6, <2>1, <3>1, <3>2
    <2> QED
      BY <2>2, <2>3
  <1> QED
    BY <1>3, <1>4, <1>5, <1>7, <1>8, <1>9 DEF UploadInv, MessageHasObject

-----------------------------------------------------------------------------
(* Moves of one process *)

RunPc == HandlerPc \cup CleanerPc \cup AuditPc \cup SharedPc

(* A process that stops is free of locks and knows nothing any more. *)
LEMMA Stopped ==
    ASSUME UploadInv, NEW p \in Procs, Stop(p)
    PROVE  /\ run' \in [Procs -> Run] /\ \A q \in Procs \ {p} : run'[q] = run[q]
           /\ run'[p].pc \notin Locking /\ Knows(p)' /\ Sure(p)' /\ ~At(p, "inserted")'
  <1>1. run' \in [Procs -> Run] /\ run'[p] = Idle /\ \A q \in Procs \ {p} : run'[q] = run[q]
    BY DEF UploadInv, UploadTypeOK, Stop, Idle, Run, SharedPc
  <1>2. Idle.pc = "idle"
    BY DEF Idle
  <1> QED
    BY <1>1, <1>2 DEF Locking, Knows, Sure, At

(* A process that goes on keeps its key, its user and its message. *)
LEMMA Went ==
    ASSUME UploadInv, NEW p \in Procs, NEW pc \in RunPc, Goto(p, pc)
    PROVE  /\ run' \in [Procs -> Run] /\ \A q \in Procs \ {p} : run'[q] = run[q]
           /\ run'[p].pc = pc /\ run'[p].key = run[p].key /\ run'[p].user = run[p].user
           /\ run'[p].message = run[p].message
  <1>1. run[p] \in Run /\ [run[p] EXCEPT !.pc = pc] \in Run
    BY DEF UploadInv, UploadTypeOK, Run, RunPc
  <1>2. run' = [run EXCEPT ![p] = [run[p] EXCEPT !.pc = pc]]
    BY DEF Goto
  <1>3. run' \in [Procs -> Run] /\ \A q \in Procs \ {p} : run'[q] = run[q]
    BY <1>1, <1>2 DEF UploadInv, UploadTypeOK
  <1>4. run'[p] = [run[p] EXCEPT !.pc = pc]
    BY <1>2 DEF UploadInv, UploadTypeOK
  <1> QED
    BY <1>1, <1>3, <1>4 DEF Run

(* Where a process may go with only a key that is known to be stored.      *)
Free == RunPc \ (Locking \cup {"verified", "create", "prepared", "attach", "inserted"})

(* Going on to a place without a lock. *)
LEMMA WentFree ==
    ASSUME UploadInv, NEW p \in Procs, ~At(p, "idle"), NEW pc \in Free, Goto(p, pc),
           stored \subseteq stored',
           pc \in {"complete", "assembled", "approved"} => run[p].key \in stored'
    PROVE  /\ run' \in [Procs -> Run] /\ \A q \in Procs \ {p} : run'[q] = run[q]
           /\ run'[p].pc \notin Locking /\ Knows(p)' /\ Sure(p)' /\ ~At(p, "inserted")'
  <1>1. pc \in RunPc
    BY DEF Free
  <1>2. /\ run' \in [Procs -> Run] /\ \A q \in Procs \ {p} : run'[q] = run[q]
        /\ run'[p].pc = pc /\ run'[p].key = run[p].key
    BY <1>1, Went
  <1>3. run[p].key \in Keys
    BY DEF UploadInv, Knows
  <1> QED
    BY <1>2, <1>3 DEF Free, Knows, Sure, At, Locking

(* Beginning with a key at a place without a lock. *)
LEMMA Began ==
    ASSUME UploadInv, NEW p \in Procs, NEW pc \in Free, NEW k \in Keys, Start(p, pc, k),
           pc \notin {"complete", "assembled", "approved"}
    PROVE  /\ run' \in [Procs -> Run] /\ \A q \in Procs \ {p} : run'[q] = run[q]
           /\ run'[p].pc \notin Locking /\ Knows(p)' /\ Sure(p)' /\ ~At(p, "inserted")'
           /\ run[p].pc = "idle"
  <1> DEFINE w == [Idle EXCEPT !.pc = pc, !.key = k]
  <1>1. pc \in RunPc
    BY DEF Free
  <1>2. w \in Run /\ w.pc = pc /\ w.key = k /\ Idle.pc = "idle"
    BY <1>1 DEF Idle, Run, RunPc
  <1>3. run' = [run EXCEPT ![p] = w] /\ run[p] = Idle
    BY DEF Start
  <1>4. run' \in [Procs -> Run] /\ run'[p] = w /\ \A q \in Procs \ {p} : run'[q] = run[q]
    BY <1>2, <1>3 DEF UploadInv, UploadTypeOK
  <1> QED
    BY <1>2, <1>3, <1>4 DEF Free, Knows, Sure, At, Locking

(* A move that touches nothing else.                                       *)
LEMMA OnlyMoved ==
    ASSUME UploadInv, NEW p \in Procs, ~At(p, "gone"),
           run' \in [Procs -> Run], \A q \in Procs \ {p} : run'[q] = run[q],
           Knows(p)', Sure(p)', ~At(p, "inserted")',
           run'[p].pc \in Locking => run[p].pc \in Locking /\ run'[p].key = run[p].key,
           UNCHANGED <<object, stored, record, commit, message, session, parts, task, torn>>,
           faults' \in 0..MaxFaults
    PROVE  UploadInv'
  <1>1. /\ object' = object /\ stored' = stored /\ record' = record /\ commit' = commit
        /\ message' = message /\ session' = session /\ parts' = parts /\ task' = task
        /\ torn' = torn
    OBVIOUS
  <1>2. UploadTypeOK'
    BY <1>1 DEF UploadInv, UploadTypeOK
  <1>3. StoredKnown'
    BY <1>1 DEF UploadInv, StoredKnown, CompletedWasStored
  <1>4. \A k \in Keys : Present(k)' = Present(k) /\ Referenced(k)' = Referenced(k)
    BY <1>1 DEF Present, Referenced
  <1>5. \A k \in Keys : Exclusive(k) => Present(k)
    BY DEF Exclusive, UploadInv, Unused, Locking
  <1>6. Careful({p})
    BY <1>1, <1>4, <1>5 DEF Careful, At
  <1> QED
    BY <1>2, <1>3, <1>6, Kept

(* A process stops and touches nothing else. *)
LEMMA OnlyStopped ==
    ASSUME UploadInv, NEW p \in Procs, ~At(p, "gone"), Stop(p),
           UNCHANGED <<object, stored, record, commit, message, session, parts, task, torn>>,
           faults' \in 0..MaxFaults
    PROVE  UploadInv'
  BY Stopped, OnlyMoved

(* A process goes on and touches nothing else. *)
LEMMA OnlyWent ==
    ASSUME UploadInv, NEW p \in Procs, run[p].pc \notin {"idle", "gone"},
           NEW pc \in Free, Goto(p, pc),
           pc \in {"complete", "assembled", "approved"} => run[p].key \in stored,
           UNCHANGED <<object, stored, record, commit, message, session, parts, task, torn, faults>>
    PROVE  UploadInv'
  <1>1. stored' = stored /\ faults' \in 0..MaxFaults
    BY DEF UploadInv, UploadTypeOK
  <1> QED
    BY <1>1, WentFree, OnlyMoved DEF At

(* A process begins and touches nothing else. *)
LEMMA OnlyBegan ==
    ASSUME UploadInv, NEW p \in Procs, NEW pc \in Free, NEW k \in Keys, Start(p, pc, k),
           pc \notin {"complete", "assembled", "approved"},
           UNCHANGED <<object, stored, record, commit, message, session, parts, task, torn, faults>>
    PROVE  UploadInv'
  <1>1. faults' \in 0..MaxFaults
    BY DEF UploadInv, UploadTypeOK
  <1> QED
    BY <1>1, Began, OnlyMoved DEF At

-----------------------------------------------------------------------------
(* Changes of the rows of one key *)

(* The processes in S, one or none, move without a lock before or after.   *)
Unlocked(S) ==
    /\ run' \in [Procs -> Run] /\ \A q \in Procs \ S : run'[q] = run[q]
    /\ \A q \in S : /\ run'[q].pc \notin Locking /\ Knows(q)' /\ Sure(q)' /\ ~At(q, "inserted")'
                    /\ ~At(q, "gone")

(* A step changes the rows of one key: what it marks was stored, and a     *)
(* row locked for deletion stays as it is.                                 *)
LEMMA RowChanged ==
    ASSUME UploadInv, NEW S \in SUBSET Procs, Unlocked(S), NEW k \in Keys,
           record' \in [Keys -> RecordStatus], commit' \in [Keys -> Commit],
           session' \in [Keys -> SessionStatus], parts' \in [Keys -> PartsStatus],
           task' \in [Keys -> Task],
           \A x \in Keys \ {k} : /\ record'[x] = record[x] /\ commit'[x] = commit[x]
                                 /\ session'[x] = session[x] /\ task'[x] = task[x],
           record'[k] = "completed" \/ task'[k].status = "approved" \/ session'[k] = "completed"
               \/ commit'[k].status # "none" => k \in stored,
           record[k] = "deleted" => record'[k] = "deleted" \/ k \in torn',
           Exclusive(k) =>
               record'[k] = record[k] /\ commit'[k].status \notin {"live", "confirmed"},
           torn \subseteq torn', torn' \subseteq Keys,
           UNCHANGED <<object, stored, message, faults>>
    PROVE  UploadInv'
  <1> USE DEF UploadInv
  <1>1. object' = object /\ stored' = stored /\ message' = message /\ faults' = faults
    OBVIOUS
  <1>2. UploadTypeOK'
    BY <1>1 DEF UploadTypeOK, Unlocked
  <1>3. StoredKnown'
    BY <1>1 DEF StoredKnown, CompletedWasStored
  <1>4. ASSUME NEW x \in Keys, Exclusive(x)
        PROVE  Present(x)' /\ (Referenced(x)' => Referenced(x))
    <2>1. Present(x)
      BY <1>4 DEF Exclusive, Unused, Locking
    <2>2. Present(x)'
      BY <1>4, <2>1 DEF Present
    <2>3. Referenced(x)' => Referenced(x)
      BY <1>1, <1>4 DEF Referenced
    <2> QED
      BY <2>2, <2>3
  <1>5. Careful(S)
    BY <1>1, <1>4 DEF Careful, Unlocked
  <1> QED
    BY <1>2, <1>3, <1>5, Kept

(* A process that stops, or goes on, without a lock. *)
LEMMA UnlockedMove ==
    ASSUME UploadInv, NEW p \in Procs, run[p].pc \notin {"idle", "gone"},
           \/ Stop(p)
           \/ \E pc \in Free : /\ Goto(p, pc)
                               /\ pc \in {"complete", "assembled", "approved"}
                                    => run[p].key \in stored',
           stored \subseteq stored'
    PROVE  Unlocked({p}) /\ run[p].key \in Keys /\ {p} \in SUBSET Procs
  <1>1. run[p].key \in Keys
    BY DEF UploadInv, Knows, At
  <1>2. CASE Stop(p)
    BY <1>1, <1>2, Stopped DEF Unlocked, At
  <1>3. ASSUME NEW pc \in Free, Goto(p, pc),
               pc \in {"complete", "assembled", "approved"} => run[p].key \in stored'
        PROVE  Unlocked({p})
    BY <1>3, WentFree DEF Unlocked, At
  <1> QED
    BY <1>1, <1>2, <1>3

(* A step of no process: what a client, time or an administrator does. *)
LEMMA NobodyMoves == ASSUME UploadInv, run' = run PROVE Unlocked({})
  BY DEF Unlocked, UploadInv, UploadTypeOK

(* mark_completed_by_key and mark_failed_by_key. *)
LEMMA Marked ==
    ASSUME UploadInv, NEW p \in Procs, Unlocked({p}), NEW k \in Keys,
           NEW st \in {"completed", "failed"}, MarkUnlessDeleted(k, st),
           st = "completed" => k \in stored,
           UNCHANGED <<object, stored, commit, message, session, parts, task, torn, faults>>
    PROVE  UploadInv'
  <1>1. /\ object' = object /\ stored' = stored /\ commit' = commit /\ message' = message
        /\ session' = session /\ parts' = parts /\ task' = task /\ torn' = torn
        /\ faults' = faults /\ ~Exclusive(k)
    BY DEF MarkUnlessDeleted, UpdateGranted
  <1>2. /\ record' \in [Keys -> RecordStatus] /\ \A x \in Keys \ {k} : record'[x] = record[x]
        /\ record'[k] = IF Present(k) THEN st ELSE record[k]
    BY DEF MarkUnlessDeleted, SetRecord, RecordStatus, UploadInv, UploadTypeOK
  <1>3. /\ record'[k] = "completed" => k \in stored
        /\ record[k] = "deleted" => record'[k] = "deleted"
    BY <1>2 DEF Present, UploadInv, StoredKnown, CompletedWasStored
  <1>4. task[k].status = "approved" \/ session[k] = "completed" \/ commit[k].status # "none"
            => k \in stored
    BY DEF UploadInv, StoredKnown, CompletedWasStored
  <1>5. /\ commit \in [Keys -> Commit] /\ session \in [Keys -> SessionStatus]
        /\ parts \in [Keys -> PartsStatus] /\ task \in [Keys -> Task] /\ torn \subseteq Keys
    BY DEF UploadInv, UploadTypeOK
  <1> QED
    BY <1>1, <1>2, <1>3, <1>4, <1>5, RowChanged

(* A step that changes the audit task of a key. *)
LEMMA TaskChanged ==
    ASSUME UploadInv, NEW S \in SUBSET Procs, Unlocked(S), NEW k \in Keys, NEW new \in Task,
           task' = [task EXCEPT ![k] = new], new.status = "approved" => k \in stored,
           UNCHANGED <<object, stored, record, commit, message, session, parts, torn, faults>>
    PROVE  UploadInv'
  <1>1. /\ object' = object /\ stored' = stored /\ commit' = commit /\ message' = message
        /\ session' = session /\ parts' = parts /\ record' = record /\ torn' = torn
        /\ faults' = faults
    OBVIOUS
  <1>2. /\ record \in [Keys -> RecordStatus] /\ commit \in [Keys -> Commit]
        /\ session \in [Keys -> SessionStatus] /\ parts \in [Keys -> PartsStatus]
        /\ task \in [Keys -> Task] /\ torn \subseteq Keys
    BY DEF UploadInv, UploadTypeOK
  <1>3. /\ task' \in [Keys -> Task] /\ task'[k] = new
        /\ \A x \in Keys \ {k} : task'[x] = task[x]
    BY <1>2
  <1>4. record[k] = "completed" \/ session[k] = "completed" \/ commit[k].status # "none"
            => k \in stored
    BY DEF UploadInv, StoredKnown, CompletedWasStored
  <1>5. Exclusive(k) => commit[k].status \notin {"live", "confirmed"}
    BY DEF Exclusive, UploadInv, Unused, Locking, Referenced
  <1> QED
    BY <1>1, <1>2, <1>3, <1>4, <1>5, RowChanged

-----------------------------------------------------------------------------
(* The steps of a request, the cleaner and the auditor that keep to the    *)
(* lemmas above                                                            *)

(* The places a process may go to with a key alone. *)
LEMMA FreePlaces ==
    {"reuse", "vanished", "completing", "assembled", "aborting", "unwanted", "stale", "old",
     "head", "unconfirmed", "missing", "begin", "claimed", "exhausted", "approved", "given_up",
     "complete", "audit"} \subseteq Free
  BY DEF Free, RunPc, HandlerPc, CleanerPc, AuditPc, SharedPc, Locking

(* Steps that only read. *)
LEMMA PureSteps ==
    ASSUME UploadInv, NEW p \in Procs,
           \/ \E k \in Keys : \/ Reuse(p, k) \/ CompleteMultipart(p, k) \/ AbortMultipart(p, k)
                              \/ List(p, k) \/ Claim(p, k)
           \/ ReuseCheck(p) \/ AbortMessage(p) \/ CheckReferences(p) \/ HeadStale(p)
    PROVE  UploadInv'
  <1>f. faults' = faults => faults' \in 0..MaxFaults
    BY DEF UploadInv, UploadTypeOK
  <1>1. ASSUME NEW k \in Keys, Reuse(p, k) PROVE UploadInv'
    BY <1>1, FreePlaces, OnlyBegan DEF Reuse
  <1>2. ASSUME NEW k \in Keys, CompleteMultipart(p, k) PROVE UploadInv'
    BY <1>2, FreePlaces, OnlyBegan DEF CompleteMultipart
  <1>3. ASSUME NEW k \in Keys, AbortMultipart(p, k) PROVE UploadInv'
    BY <1>3, FreePlaces, OnlyBegan DEF AbortMultipart
  <1>4. ASSUME NEW k \in Keys, List(p, k) PROVE UploadInv'
    BY <1>4, FreePlaces, OnlyBegan DEF List
  <1>5. ASSUME NEW k \in Keys, Claim(p, k) PROVE UploadInv'
    BY <1>5, FreePlaces, OnlyBegan DEF Claim
  <1>6. CASE ReuseCheck(p)
    BY <1>f, <1>6, FreePlaces, OnlyWent, OnlyStopped DEF ReuseCheck, StopUnless, At
  <1>7. CASE AbortMessage(p)
    BY <1>f, <1>7, OnlyStopped DEF AbortMessage, At
  <1>8. CASE CheckReferences(p)
    <2>1. run[p].key \in Keys /\ (Referenced(run[p].key) => run[p].key \in stored)
      <3>1. run[p].key \in Keys
        BY <1>8 DEF CheckReferences, At, UploadInv, Knows
      <3> QED
        BY <3>1 DEF Referenced, UploadInv, StoredKnown
    <2>2. CASE At(p, "stale")
      BY <1>8, <2>1, <2>2, FreePlaces, OnlyWent DEF CheckReferences, At
    <2>3. CASE At(p, "old")
      BY <1>f, <1>8, <2>3, FreePlaces, OnlyWent, OnlyStopped DEF CheckReferences, StopUnless, At
    <2> QED
      BY <1>8, <2>2, <2>3 DEF CheckReferences
  <1>9. CASE HeadStale(p)
    BY <1>9, FreePlaces, OnlyWent DEF HeadStale, At
  <1> QED
    BY <1>1, <1>2, <1>3, <1>4, <1>5, <1>6, <1>7, <1>8, <1>9

(* Steps that mark an upload by its key. *)
LEMMA MarkSteps ==
    ASSUME UploadInv, NEW p \in Procs,
           \/ MarkCompleted(p) \/ FailUpload(p) \/ CompleteUpload(p)
           \/ \E old \in BOOLEAN : FailStale(p, old)
    PROVE  UploadInv'
  <1>1. CASE MarkCompleted(p)
    <2>1. Unlocked({p}) /\ run[p].key \in Keys
      BY <1>1, FreePlaces, UnlockedMove DEF MarkCompleted, At
    <2>2. run[p].key \in stored
      BY <1>1 DEF MarkCompleted, At, UploadInv, Sure
    <2> QED
      BY <1>1, <2>1, <2>2, Marked DEF MarkCompleted
  <1>2. CASE FailUpload(p)
    <2>1. Unlocked({p}) /\ run[p].key \in Keys
      BY <1>2, FreePlaces, UnlockedMove DEF FailUpload, At
    <2> QED
      BY <1>2, <2>1, Marked DEF FailUpload
  <1>3. CASE CompleteUpload(p)
    <2>1. Unlocked({p}) /\ run[p].key \in Keys
      BY <1>3, FreePlaces, UnlockedMove DEF CompleteUpload, At
    <2>2. run[p].key \in stored
      BY <1>3 DEF CompleteUpload, At, UploadInv, Sure
    <2> QED
      BY <1>3, <2>1, <2>2, Marked DEF CompleteUpload
  <1>4. ASSUME NEW old \in BOOLEAN, FailStale(p, old) PROVE UploadInv'
    <2>1. Unlocked({p}) /\ run[p].key \in Keys
      BY <1>4, FreePlaces, UnlockedMove DEF FailStale, StopUnless, At
    <2> QED
      BY <1>4, <2>1, Marked DEF FailStale
  <1> QED
    BY <1>1, <1>2, <1>3, <1>4

(* Steps on the audit task of a key. *)
LEMMA TaskSteps ==
    ASSUME UploadInv, NEW p \in Procs,
           EnqueueAudit(p) \/ GiveUp(p) \/ Approve(p) \/ Retry(p) \/ RefuseProvider(p)
    PROVE  UploadInv'
  <1>0. /\ task \in [Keys -> Task] /\ object \subseteq stored
        /\ \A k \in Keys : task[k].status = "approved" => k \in stored
    BY DEF UploadInv, UploadTypeOK, StoredKnown, CompletedWasStored
  <1>t. \A k \in Keys : /\ task[k] \in Task
                        /\ task[k] \in [status : TaskStatus, attempts : Nat]
                        /\ task' = task => task' = [task EXCEPT ![k] = task[k]]
    BY <1>0 DEF Task
  <1>s. \A k \in Keys, st \in TaskStatus :
            /\ [task[k] EXCEPT !.status = st] \in Task
            /\ [task[k] EXCEPT !.status = st].status = st
    BY <1>t DEF Task
  <1>1. CASE EnqueueAudit(p)
    <2>1. Unlocked({p}) /\ run[p].key \in Keys /\ {p} \in SUBSET Procs
      BY <1>1, UnlockedMove DEF EnqueueAudit, At
    <2>2. CASE task[run[p].key].status = "none"
      <3>1. task' = [task EXCEPT ![run[p].key] = [task[run[p].key] EXCEPT !.status = "pending"]]
        BY <1>1, <2>2 DEF EnqueueAudit, UpsertTask
      <3>2. "pending" \in TaskStatus
        BY DEF TaskStatus
      <3> QED
        BY <1>1, <1>s, <2>1, <3>1, <3>2, TaskChanged DEF EnqueueAudit
    <2>3. CASE task[run[p].key].status # "none"
      BY <1>0, <1>1, <1>t, <2>1, <2>3, TaskChanged DEF EnqueueAudit, UpsertTask
    <2> QED
      BY <2>2, <2>3
  <1>2. CASE GiveUp(p) \/ RefuseProvider(p)
    <2>1. Unlocked({p}) /\ run[p].key \in Keys /\ {p} \in SUBSET Procs
      BY <1>2, FreePlaces, UnlockedMove DEF GiveUp, RefuseProvider, At
    <2>2. task' = [task EXCEPT ![run[p].key] = [task[run[p].key] EXCEPT !.status = "failed"]]
      BY <1>2 DEF GiveUp, RefuseProvider
    <2>3. "failed" \in TaskStatus
      BY DEF TaskStatus
    <2> QED
      BY <1>2, <1>s, <2>1, <2>2, <2>3, TaskChanged DEF GiveUp, RefuseProvider
  <1>3. CASE Approve(p)
    <2>1. run[p].key \in stored /\ stored' = stored
      BY <1>0, <1>3 DEF Approve
    <2>2. Unlocked({p}) /\ run[p].key \in Keys /\ {p} \in SUBSET Procs
      BY <1>3, <2>1, FreePlaces, UnlockedMove DEF Approve, At
    <2>3. task' = [task EXCEPT ![run[p].key] = [task[run[p].key] EXCEPT !.status = "approved"]]
      BY <1>3 DEF Approve
    <2>4. "approved" \in TaskStatus
      BY DEF TaskStatus
    <2> QED
      BY <1>3, <1>s, <2>1, <2>2, <2>3, <2>4, TaskChanged DEF Approve
  <1>4. CASE Retry(p)
    <2>1. Unlocked({p}) /\ run[p].key \in Keys /\ {p} \in SUBSET Procs
      BY <1>4, UnlockedMove DEF Retry, At
    <2>2. CASE task[run[p].key].status = "failed"
      BY <1>0, <1>4, <1>t, <2>1, <2>2, TaskChanged DEF Retry
    <2>3. CASE task[run[p].key].status # "failed"
      <3> DEFINE new == [status |-> "retry", attempts |-> task[run[p].key].attempts + 1]
      <3>1. new \in Task /\ new.status = "retry"
        BY <1>t, <2>1 DEF Task, TaskStatus
      <3>2. task' = [task EXCEPT ![run[p].key] = new]
        BY <1>4, <2>3 DEF Retry
      <3> QED
        BY <1>4, <2>1, <3>1, <3>2, TaskChanged DEF Retry
    <2> QED
      BY <2>2, <2>3
  <1> QED
    BY <1>1, <1>2, <1>3, <1>4

(* The columns of a key, as every step finds them.                         *)
LEMMA Columns ==
    ASSUME UploadInv
    PROVE  /\ object \subseteq stored /\ stored \subseteq Keys /\ torn \subseteq Keys
           /\ record \in [Keys -> RecordStatus] /\ commit \in [Keys -> Commit]
           /\ session \in [Keys -> SessionStatus] /\ parts \in [Keys -> PartsStatus]
           /\ task \in [Keys -> Task]
           /\ \A k \in Keys :
               /\ record[k] = "completed" \/ task[k].status = "approved"
                    \/ session[k] = "completed" \/ commit[k].status # "none" => k \in stored
               /\ Exclusive(k) => commit[k].status \notin {"live", "confirmed"}
  <1>1. \A k \in Keys : Exclusive(k) => commit[k].status \notin {"live", "confirmed"}
    BY DEF Exclusive, UploadInv, Unused, Locking, Referenced
  <1> QED
    BY <1>1 DEF UploadInv, UploadTypeOK, StoredKnown, CompletedWasStored

(* The statements that change only the status of an upload.                *)
LEMMA RecordChanged ==
    ASSUME UploadInv, NEW S \in SUBSET Procs, Unlocked(S), NEW k \in Keys,
           NEW st \in RecordStatus, SetRecord(k, st),
           st = "completed" => k \in stored, UpdateGranted(k),
           record[k] = "deleted" => st = "deleted" \/ k \in torn',
           torn \subseteq torn', torn' \subseteq Keys,
           UNCHANGED <<object, stored, commit, message, session, parts, task, faults>>
    PROVE  UploadInv'
  <1>1. /\ object' = object /\ stored' = stored /\ commit' = commit /\ message' = message
        /\ session' = session /\ parts' = parts /\ task' = task
        /\ faults' = faults /\ ~Exclusive(k)
    BY DEF UpdateGranted
  <1>2. /\ record' \in [Keys -> RecordStatus] /\ record'[k] = st
        /\ \A x \in Keys \ {k} : record'[x] = record[x]
    BY Columns DEF SetRecord
  <1> QED
    BY <1>1, <1>2, Columns, RowChanged

(* Steps on the row of a key, and on its commit in the same transaction. *)
LEMMA RecordSteps ==
    ASSUME UploadInv, NEW p \in Procs, MarkVanished(p) \/ CommitUpsert(p) \/ CommitRecord(p)
    PROVE  UploadInv'
  <1>1. CASE MarkVanished(p)
    <2>1. Unlocked({p}) /\ run[p].key \in Keys /\ {p} \in SUBSET Procs
      BY <1>1, UnlockedMove DEF MarkVanished, At
    <2> QED
      BY <1>1, <2>1, Columns, RecordChanged DEF MarkVanished, RecordStatus
  <1>2. CASE CommitUpsert(p)
    <2>1. /\ run[p].key \in Keys /\ run[p].user \in Users /\ run[p].key \in stored
          /\ run[p].pc \in {"verified", "create"}
      BY <1>2 DEF CommitUpsert, At, UploadInv, Knows, Sure
    <2>2. /\ run' \in [Procs -> Run] /\ \A q \in Procs \ {p} : run'[q] = run[q]
          /\ run'[p].pc = "prepared" /\ run'[p].key = run[p].key /\ run'[p].user = run[p].user
      BY <1>2, Went DEF CommitUpsert, RunPc, HandlerPc
    <2>3. Unlocked({p}) /\ {p} \in SUBSET Procs
      BY <1>2, <2>1, <2>2 DEF CommitUpsert, Unlocked, Locking, Knows, Sure, At
    <2>4. torn \subseteq torn' /\ torn' \subseteq Keys
          /\ (record[run[p].key] = "deleted" => run[p].key \in torn')
      BY <1>2, <2>1, Columns DEF CommitUpsert, UpsertPending
    <2> QED
      BY <1>2, <2>1, <2>3, <2>4, RecordChanged DEF CommitUpsert, UpsertPending, RecordStatus
  <1>3. CASE CommitRecord(p)
    <2> DEFINE k == run[p].key
    <2>1. k \in Keys /\ run[p].user \in Users /\ k \in stored /\ At(p, "prepared")
      BY <1>3 DEF CommitRecord, At, UploadInv, Knows, Sure
    <2>2. CASE ~MayCommit(k, run[p].user)
      <3>1. Stop(p) /\ faults' \in 0..MaxFaults
        BY <1>3, <2>2 DEF CommitRecord, UploadInv, UploadTypeOK
      <3> QED
        BY <1>3, <2>1, <2>2, <3>1, OnlyStopped DEF CommitRecord, At
    <2>3. CASE MayCommit(k, run[p].user)
      <3>1. Unlocked({p}) /\ {p} \in SUBSET Procs
        BY <1>3, <2>1, <2>3, FreePlaces, UnlockedMove DEF CommitRecord, At
      <3> DEFINE new == [by |-> run[p].user,
                         status |-> IF commit[k].status = "confirmed" THEN "confirmed" ELSE "live"]
      <3>2. new \in Commit
        BY <2>1 DEF Commit, CommitStatus
      <3>3. /\ commit' = [commit EXCEPT ![k] = new] /\ SetRecord(k, "completed")
            /\ ~Exclusive(k) /\ Present(k)
            /\ object' = object /\ stored' = stored /\ message' = message /\ session' = session
            /\ parts' = parts /\ task' = task /\ torn' = torn /\ faults' = faults
        BY <1>3, <2>3 DEF CommitRecord, UpdateGranted, MayCommit
      <3>4. commit' \in [Keys -> Commit] /\ \A x \in Keys \ {k} : commit'[x] = commit[x]
        BY <2>1, <3>2, <3>3, Columns
      <3>5. /\ record' \in [Keys -> RecordStatus] /\ record'[k] = "completed"
            /\ \A x \in Keys \ {k} : record'[x] = record[x]
        BY <2>1, <3>3, Columns DEF SetRecord, RecordStatus
      <3>6. record[k] # "deleted"
        BY <3>3 DEF Present
      <3> HIDE DEF k
      <3> QED
        BY <2>1, <3>1, <3>3, <3>4, <3>5, <3>6, Columns, RowChanged
    <2> QED
      BY <2>2, <2>3
  <1> QED
    BY <1>1, <1>2, <1>3

(* The statements on the rows of a multipart session.                      *)
LEMMA SessionSteps ==
    ASSUME UploadInv, NEW p \in Procs,
           MarkSessionCompleted(p) \/ MarkSessionAborted(p) \/ AbortParts(p)
    PROVE  UploadInv'
  <1>1. run[p].pc \in {"assembled", "unwanted", "aborting"}
    BY DEF MarkSessionCompleted, MarkSessionAborted, AbortParts, At
  <1>2. run[p].key \in Keys /\ (At(p, "assembled") => run[p].key \in stored)
    BY <1>1 DEF UploadInv, Knows, Sure, At
  <1>3. Unlocked({p}) /\ {p} \in SUBSET Procs
    <2>1. stored' = stored
      BY DEF MarkSessionCompleted, MarkSessionAborted, AbortParts
    <2> QED
      BY <1>1, <1>2, <2>1, FreePlaces, UnlockedMove
         DEF MarkSessionCompleted, MarkSessionAborted, AbortParts, At
  <1>4. /\ object' = object /\ stored' = stored /\ record' = record /\ commit' = commit
        /\ message' = message /\ task' = task /\ torn' = torn /\ faults' = faults
    BY DEF MarkSessionCompleted, MarkSessionAborted, AbortParts
  <1>5. /\ session' \in [Keys -> SessionStatus]
        /\ \A x \in Keys \ {run[p].key} : session'[x] = session[x]
        /\ session'[run[p].key] = "completed" => run[p].key \in stored
    BY <1>1, <1>2, Columns
       DEF MarkSessionCompleted, MarkSessionAborted, AbortParts, EndSession, SessionStatus, At
  <1>6. parts' \in [Keys -> PartsStatus]
    BY <1>1, <1>2, Columns
       DEF MarkSessionCompleted, MarkSessionAborted, AbortParts, PartsStatus, At
  <1> QED
    BY <1>2, <1>3, <1>4, <1>5, <1>6, Columns, RowChanged

(* What clients and time do to the rows without a request that is running. *)
LEMMA OtherSteps ==
    ASSUME UploadInv, NEW k \in Keys,
           \/ Sign(k) \/ ExpireCommit(k) \/ Requeue(k)
           \/ \E hashed \in BOOLEAN : Initiate(k, hashed)
           \/ \E u \in Users : ClaimAccess(k, u)
    PROVE  UploadInv'
  <1>0. Unlocked({}) /\ {} \in SUBSET Procs
    BY NobodyMoves DEF Sign, ExpireCommit, Requeue, Initiate, ClaimAccess
  <1>n. record[k] = "none" => ~Exclusive(k)
    BY DEF Exclusive, UploadInv, Unused, Locking, Present
  <1>1. CASE Sign(k)
    <2>1. /\ object' = object /\ stored' = stored /\ commit' = commit /\ message' = message
          /\ session' = session /\ parts' = parts /\ task' = task /\ torn' = torn
          /\ faults' = faults /\ record[k] = "none"
      BY <1>1 DEF Sign
    <2>2. /\ record' \in [Keys -> RecordStatus] /\ record'[k] = "pending"
          /\ \A x \in Keys \ {k} : record'[x] = record[x]
      BY <1>1, Columns DEF Sign, SetRecord, RecordStatus
    <2> QED
      BY <1>0, <1>n, <2>1, <2>2, Columns, RowChanged
  <1>2. ASSUME NEW st \in CommitStatus, commit' = [commit EXCEPT ![k].status = st],
               commit[k].status # "none", ~Exclusive(k) \/ st = "expired",
               UNCHANGED <<object, stored, record, message, session, parts, task, torn, faults>>
        PROVE  UploadInv'
    <2>1. /\ object' = object /\ stored' = stored /\ record' = record /\ message' = message
          /\ session' = session /\ parts' = parts /\ task' = task /\ torn' = torn
          /\ faults' = faults
      BY <1>2
    <2>2. [commit[k] EXCEPT !.status = st] \in Commit
          /\ [commit[k] EXCEPT !.status = st].status = st
      BY Columns DEF Commit
    <2>3. /\ commit' \in [Keys -> Commit] /\ commit'[k].status = st
          /\ \A x \in Keys \ {k} : commit'[x] = commit[x]
      BY <1>2, <2>2, Columns
    <2> QED
      BY <1>0, <1>2, <2>1, <2>3, Columns, RowChanged
  <1>3. CASE ExpireCommit(k)
    BY <1>2, <1>3 DEF ExpireCommit, CommitStatus
  <1>4. ASSUME NEW u \in Users, ClaimAccess(k, u) PROVE UploadInv'
    BY <1>2, <1>4 DEF ClaimAccess, UpdateGranted, CommitStatus
  <1>5. CASE Requeue(k)
    <2>1. [status |-> "pending", attempts |-> 0] \in Task
      BY DEF Task, TaskStatus
    <2> QED
      BY <1>0, <1>5, <2>1, TaskChanged DEF Requeue
  <1>6. ASSUME NEW hashed \in BOOLEAN, Initiate(k, hashed) PROVE UploadInv'
    <2>1. /\ object' = object /\ stored' = stored /\ commit' = commit /\ message' = message
          /\ task' = task /\ torn' = torn /\ faults' = faults /\ record[k] = "none"
      BY <1>6 DEF Initiate
    <2>2. /\ record' \in [Keys -> RecordStatus] /\ record'[k] \in {"none", "pending"}
          /\ \A x \in Keys \ {k} : record'[x] = record[x]
      BY <1>6, Columns DEF Initiate, SetRecord, RecordStatus
    <2>3. /\ session' \in [Keys -> SessionStatus] /\ session'[k] = "open"
          /\ \A x \in Keys \ {k} : session'[x] = session[x]
          /\ parts' \in [Keys -> PartsStatus]
      BY <1>6, Columns DEF Initiate, SessionStatus, PartsStatus
    <2> QED
      BY <1>0, <1>n, <2>1, <2>2, <2>3, Columns, RowChanged
  <1> QED
    BY <1>1, <1>3, <1>4, <1>5, <1>6

-----------------------------------------------------------------------------
(* The steps that move an object, a message or the lock of a row           *)

(* Steps that read, and take a user, a message or the result of            *)
(* head_object along.                                                      *)
LEMMA MoveSteps ==
    ASSUME UploadInv, NEW p \in Procs,
           \/ \E k \in Keys, u \in Users : CommitVerify(p, k, u)
           \/ \E m \in Messages : Attach(p, m)
           \/ CommitWithoutHash(p) \/ HeadLocked(p)
    PROVE  UploadInv'
  <1>f. faults' = faults => faults' \in 0..MaxFaults
    BY DEF UploadInv, UploadTypeOK
  <1>i. Idle.pc = "idle" /\ Idle \in Run /\ run \in [Procs -> Run]
    BY DEF Idle, Run, SharedPc, UploadInv, UploadTypeOK
  <1>1. ASSUME NEW k \in Keys, NEW u \in Users, CommitVerify(p, k, u) PROVE UploadInv'
    <2> DEFINE w == [Idle EXCEPT !.pc = "verified", !.key = k, !.user = u]
    <2>1. w \in Run /\ w.pc = "verified" /\ w.key = k /\ w.user = u
      BY DEF Idle, Run, HandlerPc
    <2>2. run' = [run EXCEPT ![p] = w] /\ k \in stored /\ stored' = stored /\ run[p] = Idle
      BY <1>1, Columns DEF CommitVerify, UploadVerified
    <2>3. run' \in [Procs -> Run] /\ run'[p] = w /\ \A q \in Procs \ {p} : run'[q] = run[q]
      BY <1>i, <2>1, <2>2
    <2>4. Knows(p)' /\ Sure(p)' /\ ~At(p, "inserted")' /\ run'[p].pc \notin Locking
      BY <2>1, <2>2, <2>3 DEF Knows, Sure, At, Locking
    <2> QED
      BY <1>f, <1>i, <1>1, <2>2, <2>3, <2>4, OnlyMoved DEF CommitVerify, At
  <1>2. ASSUME NEW m \in Messages, Attach(p, m) PROVE UploadInv'
    <2> DEFINE w == [Idle EXCEPT !.pc = "attach", !.key = message[m].key, !.message = m]
    <2>1. message[m].key \in Keys
      BY DEF UploadInv, UploadTypeOK, Message
    <2>2. w \in Run /\ w.pc = "attach" /\ w.key = message[m].key /\ w.message = m
      BY <2>1 DEF Idle, Run, HandlerPc
    <2>3. run' = [run EXCEPT ![p] = w] /\ run[p] = Idle /\ message' = message
      BY <1>2 DEF Attach
    <2>4. run' \in [Procs -> Run] /\ run'[p] = w /\ \A q \in Procs \ {p} : run'[q] = run[q]
      BY <1>i, <2>2, <2>3
    <2>5. Knows(p)' /\ Sure(p)' /\ ~At(p, "inserted")' /\ run'[p].pc \notin Locking
      BY <2>1, <2>2, <2>3, <2>4 DEF Knows, Sure, At, Locking
    <2> QED
      BY <1>f, <1>i, <1>2, <2>3, <2>4, <2>5, OnlyMoved DEF Attach, At
  <1>3. CASE CommitWithoutHash(p)
    <2>1. run[p].key \in Keys /\ run[p].user \in Users /\ run[p].key \in stored
      BY <1>3 DEF CommitWithoutHash, At, UploadInv, Knows, Sure
    <2>2. PICK pc \in {"create", "prepared"} : Goto(p, pc)
      BY <1>3 DEF CommitWithoutHash
    <2>3. /\ run' \in [Procs -> Run] /\ \A q \in Procs \ {p} : run'[q] = run[q]
          /\ run'[p].pc = pc /\ run'[p].key = run[p].key /\ run'[p].user = run[p].user
      BY <2>2, Went DEF RunPc, HandlerPc
    <2>4. Knows(p)' /\ Sure(p)' /\ ~At(p, "inserted")' /\ run'[p].pc \notin Locking
      BY <1>3, <2>1, <2>3 DEF CommitWithoutHash, Knows, Sure, At, Locking
    <2> QED
      BY <1>f, <1>3, <2>3, <2>4, OnlyMoved DEF CommitWithoutHash, At
  <1>4. CASE HeadLocked(p)
    <2>1. run[p].key \in Keys
      BY <1>4 DEF HeadLocked, At, UploadInv, Knows
    <2>2. PICK pc \in {"deleting", "gone"} : Goto(p, pc)
      BY <1>4 DEF HeadLocked
    <2>3. /\ run' \in [Procs -> Run] /\ \A q \in Procs \ {p} : run'[q] = run[q]
          /\ run'[p].pc = pc /\ run'[p].key = run[p].key
      BY <2>2, Went DEF RunPc, CleanerPc
    <2>4. Knows(p)' /\ Sure(p)' /\ ~At(p, "inserted")'
      BY <2>1, <2>3 DEF Knows, Sure, At
    <2> QED
      BY <1>f, <1>4, <2>3, <2>4, OnlyMoved DEF HeadLocked, At, Locking
  <1> QED
    BY <1>1, <1>2, <1>3, <1>4

(* An object comes, and a message comes or goes.                           *)
LEMMA PutStep ==
    ASSUME UploadInv, NEW S \in SUBSET Procs, Unlocked(S), NEW k \in Keys,
           object' = object \cup {k}, stored' = stored \cup {k},
           parts' \in [Keys -> PartsStatus],
           UNCHANGED <<record, commit, message, session, task, torn, faults>>
    PROVE  UploadInv'
  <1>1. /\ record' = record /\ commit' = commit /\ message' = message /\ session' = session
        /\ task' = task /\ torn' = torn /\ faults' = faults
    OBVIOUS
  <1>2. UploadTypeOK'
    BY <1>1 DEF UploadInv, UploadTypeOK, Unlocked
  <1>3. StoredKnown'
    BY <1>1 DEF UploadInv, StoredKnown, CompletedWasStored
  <1>4. \A x \in Keys : Present(x)' = Present(x) /\ Referenced(x)' = Referenced(x)
    BY <1>1 DEF Present, Referenced
  <1>5. \A x \in Keys : Exclusive(x) => Present(x)
    BY DEF Exclusive, UploadInv, Unused, Locking
  <1>6. Careful(S)
    BY <1>1, <1>4, <1>5 DEF Careful, Unlocked
  <1> QED
    BY <1>2, <1>3, <1>6, Kept

(* The client puts the object, or the object store assembles its parts. *)
LEMMA ObjectComes ==
    ASSUME UploadInv, (\E k \in Keys : Put(k)) \/ \E p \in Procs : Assemble(p)
    PROVE  UploadInv'
  <1>1. ASSUME NEW k \in Keys, Put(k) PROVE UploadInv'
    <2>1. Unlocked({}) /\ {} \in SUBSET Procs /\ parts' \in [Keys -> PartsStatus]
      BY <1>1, NobodyMoves, Columns DEF Put
    <2> QED
      BY <1>1, <2>1, PutStep DEF Put
  <1>2. ASSUME NEW p \in Procs, Assemble(p) PROVE UploadInv'
    <2> DEFINE k == run[p].key
    <2>1. At(p, "completing")
      BY <1>2 DEF Assemble
    <2>2. CASE parts[k] = "open"
      <3>1. object' = object \cup {k} /\ stored' = stored \cup {k} /\ Goto(p, "assembled")
        BY <1>2, <2>2 DEF Assemble
      <3>2. Unlocked({p}) /\ k \in Keys /\ {p} \in SUBSET Procs
        BY <2>1, <3>1, FreePlaces, UnlockedMove DEF At
      <3>3. parts' \in [Keys -> PartsStatus]
        BY <1>2, <2>2, <3>2, Columns DEF Assemble, PartsStatus
      <3> QED
        BY <1>2, <3>1, <3>2, <3>3, PutStep DEF Assemble
    <2>3. CASE parts[k] # "open"
      <3>1. Stop(p) /\ faults' \in 0..MaxFaults
        BY <1>2, <2>3 DEF Assemble, UploadInv, UploadTypeOK
      <3> QED
        BY <1>2, <2>1, <2>3, <3>1, OnlyStopped DEF Assemble, At
    <2> QED
      BY <2>2, <2>3
  <1> QED
    BY <1>1, <1>2

(* The transaction of a message commits, or a message is marked deleted. *)
LEMMA MessageSteps ==
    ASSUME UploadInv, (\E p \in Procs : CommitMessage(p)) \/ \E m \in Messages : DeleteMessage(m)
    PROVE  UploadInv'
  <1>0. \A x \in Keys : Exclusive(x) => Present(x)
    BY DEF Exclusive, UploadInv, Unused, Locking
  <1>1. ASSUME NEW S \in SUBSET Procs, NEW m \in Messages, NEW st \in {"live", "deleted"},
               message' = [message EXCEPT ![m].status = st],
               run' \in [Procs -> Run], \A q \in Procs \ S : run'[q] = run[q],
               \A q \in S : /\ run'[q].pc \notin Locking /\ Knows(q)' /\ Sure(q)'
                            /\ ~At(q, "inserted")' /\ ~At(q, "gone"),
               message[m].key \in stored,
               st = "live" => /\ ~Exclusive(message[m].key)
                                  /\ \E q \in S : At(q, "inserted") /\ run[q].message = m,
               UNCHANGED <<object, stored, record, commit, session, parts, task, torn, faults>>
        PROVE  UploadInv'
    <2>1. /\ object' = object /\ stored' = stored /\ record' = record /\ commit' = commit
          /\ session' = session /\ parts' = parts /\ task' = task /\ torn' = torn
          /\ faults' = faults
      BY <1>1
    <2>2. message \in [Messages -> Message] /\ message[m] \in [key : Keys, status : MessageStatus]
      BY DEF UploadInv, UploadTypeOK, Message
    <2>3. /\ message' \in [Messages -> Message] /\ message'[m].key = message[m].key
          /\ message'[m].status = st
          /\ \A n \in Messages \ {m} : message'[n] = message[n]
      BY <1>1, <2>2 DEF Message, MessageStatus
    <2>4. UploadTypeOK'
      BY <1>1, <2>1, <2>3 DEF UploadInv, UploadTypeOK
    <2>5. StoredKnown'
      BY <1>1, <2>1, <2>3 DEF UploadInv, StoredKnown, CompletedWasStored
    <2>6. ASSUME NEW x \in Keys, Exclusive(x) PROVE Present(x)' /\ (Referenced(x)' => Referenced(x))
      BY <1>0, <1>1, <2>1, <2>3, <2>6 DEF Present, Referenced
    <2>7. Careful(S)
      BY <1>1, <2>1, <2>3, <2>6 DEF Careful
    <2> QED
      BY <2>4, <2>5, <2>7, Kept
  <1>2. ASSUME NEW p \in Procs, CommitMessage(p) PROVE UploadInv'
    <2>1. /\ At(p, "inserted") /\ run[p].message \in Messages
          /\ message[run[p].message].key = run[p].key /\ run[p].key \in stored
      BY <1>2 DEF CommitMessage, UploadInv, Knows, Sure, At
    <2>2. ~Exclusive(run[p].key)
      BY <2>1 DEF Exclusive, UploadInv, RowsApart, Locking, At
    <2>3. /\ {p} \in SUBSET Procs /\ \A q \in {p} : ~At(q, "gone") /\ At(q, "inserted")
          /\ \E q \in {p} : At(q, "inserted") /\ run[q].message = run[p].message
      BY <2>1 DEF At
    <2>4. /\ run' \in [Procs -> Run] /\ \A q \in Procs \ {p} : run'[q] = run[q]
          /\ \A q \in {p} : /\ run'[q].pc \notin Locking /\ Knows(q)' /\ Sure(q)'
                            /\ ~At(q, "inserted")'
      BY <1>2, Stopped DEF CommitMessage
    <2>5. /\ message' = [message EXCEPT ![run[p].message].status = "live"]
          /\ UNCHANGED <<object, stored, record, commit, session, parts, task, torn, faults>>
      BY <1>2 DEF CommitMessage
    <2> DEFINE m == run[p].message
    <2>6. m \in Messages /\ message[m].key \in stored /\ ~Exclusive(message[m].key)
      BY <2>1, <2>2
    <2> QED
      BY <1>1, <2>3, <2>4, <2>5, <2>6
  <1>3. ASSUME NEW m \in Messages, DeleteMessage(m) PROVE UploadInv'
    <2>1. run' = run /\ run \in [Procs -> Run] /\ message[m].key \in stored
      BY <1>3 DEF DeleteMessage, UploadInv, UploadTypeOK, StoredKnown
    <2>2. /\ message' = [message EXCEPT ![m].status = "deleted"]
          /\ UNCHANGED <<object, stored, record, commit, session, parts, task, torn, faults>>
      BY <1>3 DEF DeleteMessage
    <2>3. {} \in SUBSET Procs /\ \A q \in Procs \ {} : run'[q] = run[q]
      BY <2>1
    <2> QED
      BY <1>1, <2>1, <2>2, <2>3
  <1> QED
    BY <1>2, <1>3

(* What the cleaner does while it holds the lock of a row, and how it lets *)
(* the lock go.                                                            *)
LEMMA LockedMove ==
    ASSUME UploadInv, NEW p \in Procs, run[p].pc \in Locking,
           run' \in [Procs -> Run], \A q \in Procs \ {p} : run'[q] = run[q],
           Knows(p)', Sure(p)', ~At(p, "inserted")',
           run'[p].pc \in Locking => ~At(p, "gone") /\ run'[p].key = run[p].key,
           object' \in {object, object \ {run[p].key}},
           object' # object =>
               At(p, "deleting") /\ (run[p].key \in torn' \/ At(p, "gone")'),
           torn' \in {torn, torn \cup {run[p].key}},
           record' = record \/ (At(p, "gone") /\ SetRecord(run[p].key, "deleted")),
           At(p, "gone") => run[p].key \in torn' \/ record'[run[p].key] = "deleted",
           faults' \in 0..MaxFaults,
           UNCHANGED <<stored, commit, message, session, parts, task>>
    PROVE  UploadInv'
  <1> DEFINE k == run[p].key
  <1>1. /\ stored' = stored /\ commit' = commit /\ message' = message /\ session' = session
        /\ parts' = parts /\ task' = task
    OBVIOUS
  <1>2. k \in Keys
    BY DEF UploadInv, Knows, At, Locking
  <1>3. /\ record' \in [Keys -> RecordStatus] /\ \A x \in Keys \ {k} : record'[x] = record[x]
        /\ record'[k] = record[k] \/ (At(p, "gone") /\ record'[k] = "deleted")
    BY <1>2, Columns DEF SetRecord, RecordStatus
  <1>4. object' \subseteq object /\ torn \subseteq torn' /\ torn' \subseteq Keys
    BY <1>2, Columns
  <1>5. UploadTypeOK'
    BY <1>1, <1>3, <1>4 DEF UploadInv, UploadTypeOK
  <1>6. StoredKnown'
    BY <1>1, <1>2, <1>3 DEF UploadInv, StoredKnown, CompletedWasStored
  <1>7. ASSUME NEW x \in Keys, Exclusive(x)
        PROVE  /\ Present(x)' \/ (At(p, "gone") /\ k = x)
               /\ Referenced(x)' => Referenced(x)
    <2>1. Present(x)
      BY <1>7 DEF Exclusive, UploadInv, Unused, Locking
    <2> QED
      BY <1>1, <1>3, <2>1 DEF Present, Referenced
  <1>8. ASSUME NEW x \in object \ object'
        PROVE  At(p, "deleting") /\ k = x /\ (x \in torn' \/ (At(p, "gone")' /\ run'[p].key = x))
    BY DEF At, Locking
  <1>9. ASSUME NEW x \in Keys, record[x] = "deleted" PROVE record'[x] = "deleted"
    BY <1>3, <1>9
  <1>10. run'[p].pc \in Locking =>
             run[p].pc \in Locking \ {"gone"} /\ run'[p].key = run[p].key
    BY DEF At
  <1> HIDE DEF k
  <1>11. Careful({p})
    BY <1>1, <1>4, <1>7, <1>8, <1>9, <1>10 DEF Careful, k
  <1> QED
    BY <1>5, <1>6, <1>11, Kept

(* delete_file, commit_deleted_record, a failure of the object store and   *)
(* a crash, at whatever place.                                             *)
LEMMA LockedSteps ==
    ASSUME UploadInv, NEW p \in Procs,
           DeleteObject(p) \/ CommitDeleted(p) \/ StoreFails(p) \/ Crash(p)
    PROVE  UploadInv'
  <1>f. faults' = faults => faults' \in 0..MaxFaults
    BY DEF UploadInv, UploadTypeOK
  <1>1. CASE DeleteObject(p)
    <2>1. run[p].key \in Keys /\ At(p, "deleting")
      BY <1>1 DEF DeleteObject, At, UploadInv, Knows
    <2>2. /\ run' \in [Procs -> Run] /\ \A q \in Procs \ {p} : run'[q] = run[q]
          /\ run'[p].pc = "gone" /\ run'[p].key = run[p].key
      BY <1>1, Went DEF DeleteObject, RunPc, CleanerPc
    <2>3. Knows(p)' /\ Sure(p)' /\ ~At(p, "inserted")' /\ At(p, "gone")'
      BY <2>1, <2>2 DEF Knows, Sure, At
    <2>4. object' = object \ {run[p].key} /\ torn' = torn /\ record' = record
      BY <1>1 DEF DeleteObject
    <2> QED
      BY <1>f, <1>1, <2>1, <2>2, <2>3, <2>4, LockedMove DEF DeleteObject, At, Locking
  <1>2. CASE CommitDeleted(p)
    <2>1. run[p].key \in Keys /\ At(p, "gone")
      BY <1>2 DEF CommitDeleted, At, UploadInv, Knows
    <2>2. /\ SetRecord(run[p].key, "deleted") /\ record'[run[p].key] = "deleted"
          /\ object' = object /\ torn' = torn
      BY <1>2, <2>1, Columns DEF CommitDeleted, SetRecord
    <2> QED
      BY <1>f, <1>2, <2>1, <2>2, Stopped, LockedMove DEF CommitDeleted, At, Locking
  <1>3. CASE StoreFails(p)
    <2>1. run[p].key \in Keys /\ run[p].pc \in {"head", "locked", "deleting"} /\ Stop(p)
      BY <1>3 DEF StoreFails, At, UploadInv, Knows
    <2>2. CASE object' = object /\ torn' = torn
      BY <1>f, <1>3, <2>1, <2>2, OnlyStopped DEF StoreFails, At
    <2>3. CASE At(p, "deleting") /\ object' = object \ {run[p].key} /\ run[p].key \in torn'
      BY <1>f, <1>3, <2>1, <2>3, Stopped, LockedMove DEF StoreFails, At, Locking
    <2> QED
      BY <1>3, <2>2, <2>3 DEF StoreFails
  <1>4. CASE Crash(p)
    <2>1. Stop(p) /\ faults' \in 0..MaxFaults
      BY <1>4, AttemptsAssumption DEF Crash, UploadInv, UploadTypeOK
    <2>2. CASE At(p, "gone")
      <3>1. torn' = torn \cup {run[p].key} /\ object' = object /\ record' = record
        BY <1>4, <2>2 DEF Crash
      <3> QED
        BY <1>4, <2>1, <2>2, <3>1, Stopped, LockedMove DEF Crash, Locking, At
    <2>3. CASE ~At(p, "gone")
      BY <1>4, <2>1, <2>3, OnlyStopped DEF Crash
    <2> QED
      BY <2>2, <2>3
  <1> QED
    BY <1>1, <1>2, <1>3, <1>4

(* The two steps that take a lock: each sees that no lock is in its way.   *)
LEMMA LockTaken ==
    ASSUME UploadInv, NEW p \in Procs, NEW pc \in {"locked", "inserted"},
           run[p].pc \in {"attach", "begin"}, Goto(p, pc), Knows(p)', run[p].key \in Keys,
           pc = "locked" => UpdateGranted(run[p].key) /\ Deletable(run[p].key),
           pc = "inserted" => /\ ShareGranted(run[p].key) /\ record[run[p].key] = "completed",
           UNCHANGED <<object, stored, record, commit, message, session, parts, task, torn, faults>>
    PROVE  UploadInv'
  <1> DEFINE k == run[p].key
  <1>1. /\ object' = object /\ stored' = stored /\ record' = record /\ commit' = commit
        /\ message' = message /\ session' = session /\ parts' = parts /\ task' = task
        /\ torn' = torn /\ faults' = faults
    OBVIOUS
  <1>2. /\ run' \in [Procs -> Run] /\ \A q \in Procs \ {p} : run'[q] = run[q]
        /\ run'[p].pc = pc /\ run'[p].key = k
    BY Went DEF RunPc, HandlerPc, CleanerPc
  <1>3. UploadTypeOK'
    BY <1>1, <1>2 DEF UploadInv, UploadTypeOK
  <1>4. StoredKnown' /\ MessageHasObject'
    BY <1>1 DEF UploadInv, StoredKnown, CompletedWasStored, MessageHasObject
  <1>5. \A q \in Procs : run[q].pc \in Locking => run[q].key # k
    BY DEF Exclusive, UpdateGranted, ShareGranted, Locking
  <1>6. pc = "locked" => \A q \in Procs : At(q, "inserted") => run[q].key # k
    BY DEF UpdateGranted, Shared, At
  <1>7. RowsApart'
    <2> SUFFICES ASSUME NEW q \in Procs, NEW r \in Procs, run'[q].pc \in Locking,
                        run'[r].pc \in Locking \cup {"inserted"}, run'[q].key = run'[r].key,
                        q # r
                 PROVE  FALSE
      BY DEF RowsApart
    <2>1. CASE q # p /\ r # p
      BY <1>2, <2>1 DEF UploadInv, RowsApart
    <2>2. CASE q = p
      BY <1>2, <1>5, <1>6, <2>2 DEF Locking, At
    <2>3. CASE r = p
      BY <1>2, <1>5, <2>3
    <2> QED
      BY <2>1, <2>2, <2>3
  <1>8. \A x \in Keys : Present(x)' = Present(x) /\ Referenced(x)' = Referenced(x)
    BY <1>1 DEF Present, Referenced
  <1>9. \A q \in Procs : Unused(q)'
    <2> SUFFICES ASSUME NEW q \in Procs, NEW x \in Keys, run'[q].pc \in Locking, run'[q].key = x
                 PROVE  Present(x) /\ ~Referenced(x)
      BY <1>8 DEF Unused
    <2>1. CASE q = p
      BY <1>2, <2>1 DEF Locking, Deletable
    <2>2. CASE q # p
      BY <1>2, <2>2 DEF UploadInv, Unused
    <2> QED
      BY <2>1, <2>2
  <1>10. pc = "inserted" => k \in stored /\ k \in object \cup torn
    <2> SUFFICES ASSUME pc = "inserted" PROVE k \in stored /\ k \in object \cup torn
      OBVIOUS
    <2>1. k \in stored /\ record[k] # "deleted"
      BY DEF UploadInv, StoredKnown, CompletedWasStored
    <2>2. ~\E q \in Procs : At(q, "gone") /\ run[q].key = k
      BY <1>5 DEF At, Locking
    <2> QED
      BY <2>1, <2>2 DEF UploadInv, Accounted
  <1>11. ASSUME NEW q \in Procs PROVE Knows(q)' /\ Sure(q)' /\ Backed(q)'
    <2>1. CASE q = p
      BY <1>1, <1>2, <1>10, <2>1 DEF Knows, Sure, Backed, At
    <2>2. CASE q # p
      BY <1>1, <1>2, <2>2 DEF UploadInv, Knows, Sure, Backed, At
    <2> QED
      BY <2>1, <2>2
  <1>12. ASSUME NEW x \in Keys PROVE Accounted(x)'
    <2>1. \A q \in Procs : At(q, "gone") /\ run[q].key = x => At(q, "gone")' /\ run'[q].key = x
      BY <1>2 DEF At
    <2> QED
      BY <1>1, <2>1 DEF UploadInv, Accounted
  <1> QED
    BY <1>3, <1>4, <1>7, <1>9, <1>11, <1>12 DEF UploadInv

(* begin_unreferenced_deletion and insert_message_parts. *)
LEMMA LockSteps ==
    ASSUME UploadInv, NEW p \in Procs, LockForDeletion(p) \/ InsertParts(p)
    PROVE  UploadInv'
  <1>f. faults' = faults => faults' \in 0..MaxFaults
    BY DEF UploadInv, UploadTypeOK
  <1>1. CASE LockForDeletion(p)
    <2>1. run[p].key \in Keys /\ At(p, "begin")
      BY <1>1 DEF LockForDeletion, At, UploadInv, Knows
    <2>2. CASE ~Deletable(run[p].key)
      BY <1>f, <1>1, <2>1, <2>2, OnlyStopped DEF LockForDeletion, StopUnless, At
    <2>3. CASE Deletable(run[p].key)
      <3>1. Goto(p, "locked")
        BY <1>1, <2>3 DEF LockForDeletion, StopUnless
      <3>2. Knows(p)'
        BY <2>1, <3>1, Went DEF RunPc, CleanerPc, Knows, At
      <3> QED
        BY <1>1, <2>1, <2>3, <3>1, <3>2, LockTaken DEF LockForDeletion, At
    <2> QED
      BY <2>2, <2>3
  <1>2. CASE InsertParts(p)
    <2>1. /\ run[p].key \in Keys /\ At(p, "attach")
          /\ run[p].message \in Messages /\ message[run[p].message].key = run[p].key
      BY <1>2 DEF InsertParts, At, UploadInv, Knows
    <2>2. CASE record[run[p].key] # "completed"
      BY <1>f, <1>2, <2>1, <2>2, OnlyStopped DEF InsertParts, StopUnless, At
    <2>3. CASE record[run[p].key] = "completed"
      <3>1. Goto(p, "inserted") /\ message' = message
        BY <1>2, <2>3 DEF InsertParts, StopUnless
      <3>2. Knows(p)'
        BY <2>1, <3>1, Went DEF RunPc, HandlerPc, Knows, At
      <3> QED
        BY <1>2, <2>1, <2>3, <3>1, <3>2, LockTaken DEF InsertParts, At
    <2> QED
      BY <2>2, <2>3
  <1> QED
    BY <1>1, <1>2

-----------------------------------------------------------------------------
(* The invariant holds                                                     *)

(* Nothing is uploaded, sent or running at the start.                      *)
LEMMA UploadStart == UploadInit => UploadInv
  <1> SUFFICES ASSUME UploadInit PROVE UploadInv
    OBVIOUS
  <1>1. Idle.pc = "idle" /\ Idle \in Run
    BY DEF Idle, Run, SharedPc
  <1>2. \A p \in Procs : run[p].pc = "idle"
    BY <1>1 DEF UploadInit
  <1>3. /\ record \in [Keys -> RecordStatus] /\ session \in [Keys -> SessionStatus]
        /\ parts \in [Keys -> PartsStatus] /\ run \in [Procs -> Run] /\ faults \in 0..MaxFaults
    BY <1>1, AttemptsAssumption DEF UploadInit, RecordStatus, SessionStatus, PartsStatus
  <1>4. commit \in [Keys -> Commit] /\ \A k \in Keys : commit[k].status = "none"
    BY DEF UploadInit, Commit, CommitStatus
  <1>5. message \in [Messages -> Message] /\ \A m \in Messages : message[m].status = "none"
    <2>1. message \in [Messages -> [key : Keys, status : {"none"}]]
      BY DEF UploadInit
    <2>2. [key : Keys, status : {"none"}] \subseteq Message
      BY DEF Message, MessageStatus
    <2> QED
      BY <2>1, <2>2
  <1>6. task \in [Keys -> Task] /\ \A k \in Keys : task[k].status = "none"
    BY DEF UploadInit, Task, TaskStatus
  <1>7. UploadTypeOK
    BY <1>3, <1>4, <1>5, <1>6 DEF UploadTypeOK, UploadInit
  <1>8. StoredKnown /\ MessageHasObject
    BY <1>4, <1>5, <1>6 DEF UploadInit, StoredKnown, CompletedWasStored, MessageHasObject
  <1>9. RowsApart /\ \A p \in Procs : Knows(p) /\ Sure(p) /\ Unused(p) /\ Backed(p)
    BY <1>2 DEF RowsApart, Knows, Sure, Unused, Backed, Locking, At
  <1>10. \A k \in Keys : Accounted(k)
    BY DEF UploadInit, Accounted
  <1> QED
    BY <1>7, <1>8, <1>9, <1>10 DEF UploadInv

(* Every statement, request of the object store and crash keeps it.        *)
LEMMA UploadKept == UploadInv /\ [UploadNext]_uploadVars => UploadInv'
  <1> SUFFICES ASSUME UploadInv, [UploadNext]_uploadVars PROVE UploadInv'
    OBVIOUS
  <1>p. Clients \subseteq Procs /\ Cleaners \subseteq Procs /\ Auditors \subseteq Procs
    BY DEF Procs
  <1>1. ASSUME NEW p \in Clients, Handler(p) PROVE UploadInv'
    BY <1>1, <1>p, PureSteps, MarkSteps, TaskSteps, RecordSteps, SessionSteps, MoveSteps,
       ObjectComes, MessageSteps, LockSteps DEF Handler
  <1>2. ASSUME NEW c \in Cleaners, Clean(c) PROVE UploadInv'
    BY <1>2, <1>p, PureSteps, MarkSteps, TaskSteps, MoveSteps, LockSteps, LockedSteps DEF Clean
  <1>3. ASSUME NEW a \in Auditors, Audit(a) PROVE UploadInv'
    BY <1>3, <1>p, PureSteps, MarkSteps, TaskSteps DEF Audit
  <1>4. ASSUME NEW p \in Procs, Crash(p) PROVE UploadInv'
    BY <1>4, LockedSteps
  <1>5. ASSUME NEW k \in Keys, Sign(k) \/ Put(k) \/ ExpireCommit(k) \/ Requeue(k)
                               \/ (\E hashed \in BOOLEAN : Initiate(k, hashed))
                               \/ (\E u \in Users : ClaimAccess(k, u))
        PROVE  UploadInv'
    BY <1>5, OtherSteps, ObjectComes
  <1>6. ASSUME NEW m \in Messages, DeleteMessage(m) PROVE UploadInv'
    BY <1>6, MessageSteps
  <1>7. CASE UNCHANGED uploadVars
    <2>1. /\ object' = object /\ stored' = stored /\ record' = record /\ commit' = commit
          /\ message' = message /\ session' = session /\ parts' = parts /\ task' = task
          /\ run' = run /\ torn' = torn /\ faults' = faults
      BY <1>7 DEF uploadVars
    <2>2. UploadTypeOK' /\ StoredKnown'
      BY <2>1 DEF UploadInv, UploadTypeOK, StoredKnown, CompletedWasStored
    <2>3. \A x \in Keys : Exclusive(x) => Present(x)
      BY DEF Exclusive, UploadInv, Unused, Locking
    <2>4. \A x \in Keys : Present(x)' = Present(x) /\ Referenced(x)' = Referenced(x)
      BY <2>1 DEF Present, Referenced
    <2>5. Careful({})
      BY <2>1, <2>3, <2>4 DEF Careful
    <2>6. {} \in SUBSET Procs
      OBVIOUS
    <2> QED
      BY <2>2, <2>5, <2>6, Kept
  <1> QED
    BY <1>1, <1>2, <1>3, <1>4, <1>5, <1>6, <1>7 DEF UploadNext

(* The invariant of the uploads, from which the theorems follow. *)
LEMMA UploadInvHolds == UploadSpec => []UploadInv
  BY UploadStart, UploadKept, PTL DEF UploadSpec

(* The columns of file_upload_records and of the tables beside it have the *)
(* values their handlers give them, and what the object store has it was   *)
(* given.                                                                  *)
THEOREM UploadTypeCorrect == UploadSpec => []UploadTypeOK
  <1>1. UploadInv => UploadTypeOK
    BY DEF UploadInv
  <1> QED
    BY <1>1, UploadInvHolds, PTL

(* A message that is not deleted has its attachment, unless the cleaner    *)
(* stopped after delete_file or a commit overwrote a row marked deleted.   *)
THEOREM MessagesHaveObjects == UploadSpec => []MessageHasObject
  <1>1. UploadInv => MessageHasObject
    BY DEF UploadInv
  <1> QED
    BY <1>1, UploadInvHolds, PTL

(* mark_completed_by_key, mark_approved and mark_completed of a session    *)
(* are only said of an object the object store had.                        *)
THEOREM CompletedObjectsWereStored == UploadSpec => []CompletedWasStored
  <1>1. UploadInv => CompletedWasStored
    BY DEF UploadInv, StoredKnown
  <1> QED
    BY <1>1, UploadInvHolds, PTL

(* The cleaner deletes an object only while nothing refers to it: the      *)
(* references counted under the row lock stay uncounted until it is gone.  *)
LEMMA OnlyUnusedGo ==
    ASSUME UploadInv, [UploadNext]_uploadVars, NEW k \in Keys, k \in object, k \notin object'
    PROVE  ~Referenced(k)
  <1>1. \E p \in Procs : At(p, "deleting") /\ run[p].key = k
    <2>1. object' # object
      OBVIOUS
    <2>2. ASSUME NEW p \in Procs, Handler(p) PROVE FALSE
      BY <2>1, <2>2 DEF Handler, Reuse, CompleteMultipart, AbortMultipart, CommitVerify, Attach,
         ReuseCheck, MarkVanished, CommitWithoutHash, CommitUpsert, CommitRecord, InsertParts,
         CommitMessage, AbortMessage, Assemble, MarkSessionCompleted, AbortParts,
         MarkSessionAborted, MarkCompleted, EnqueueAudit
    <2>3. ASSUME NEW p \in Procs, Clean(p) PROVE At(p, "deleting") /\ run[p].key = k
      BY <2>1, <2>3 DEF Clean, List, FailStale, CheckReferences, HeadStale, LockForDeletion,
         HeadLocked, DeleteObject, CommitDeleted, StoreFails, MarkCompleted, EnqueueAudit
    <2>4. ASSUME NEW p \in Procs, Audit(p) PROVE FALSE
      BY <2>1, <2>4 DEF Audit, Claim, GiveUp, FailUpload, Approve, CompleteUpload, Retry,
         RefuseProvider
    <2>5. UploadNext
      BY <2>1 DEF uploadVars
    <2>6. ~\E p \in Procs : Crash(p)
      BY <2>1 DEF Crash
    <2>7. /\ ~\E x \in Keys : Sign(x) \/ Put(x) \/ ExpireCommit(x) \/ Requeue(x)
          /\ ~\E x \in Keys, hashed \in BOOLEAN : Initiate(x, hashed)
          /\ ~\E x \in Keys, u \in Users : ClaimAccess(x, u)
          /\ ~\E m \in Messages : DeleteMessage(m)
      BY <2>1 DEF Sign, Put, ExpireCommit, Requeue, Initiate, ClaimAccess, DeleteMessage
    <2> QED
      BY <2>2, <2>3, <2>4, <2>5, <2>6, <2>7 DEF UploadNext, Procs
  <1> QED
    BY <1>1 DEF UploadInv, Unused, Locking, At

(* begin_unreferenced_deletion and delete_locked_object: no object goes    *)
(* while a live message or a valid commit refers to it.                    *)
THEOREM OnlyUnreferencedDeleted == UploadSpec => DeleteUnreferenced
  <1>1. UploadInv /\ [UploadNext]_uploadVars
            => [\A k \in Keys : k \in object /\ k \notin object' => ~Referenced(k)]_uploadVars
    BY OnlyUnusedGo
  <1> QED
    BY <1>1, UploadInvHolds, PTL DEF UploadSpec, DeleteUnreferenced

(* A committed attachment whose row is not deleted can be downloaded: its  *)
(* object is there, but for torn keys, whatever the cleaner is doing.      *)
CommitHasObject ==
    \A k \in Keys :
        commit[k].status \in {"live", "confirmed"} /\ Present(k) => k \in object \cup torn

(* record_room_attachment_commit and begin_unreferenced_deletion: the      *)
(* object of a commit that is valid goes with its row or not at all.       *)
THEOREM CommitsHaveObjects == UploadSpec => []CommitHasObject
  <1>1. UploadInv => CommitHasObject
    <2> SUFFICES ASSUME UploadInv, NEW k \in Keys, Present(k),
                        commit[k].status \in {"live", "confirmed"}
                 PROVE  k \in object \cup torn
      BY DEF CommitHasObject
    <2>1. k \in stored /\ ~Exclusive(k)
      BY Columns
    <2>2. ~\E p \in Procs : At(p, "gone") /\ run[p].key = k
      BY <2>1 DEF Exclusive, At
    <2> QED
      BY <2>1, <2>2 DEF UploadInv, Accounted, Present
  <1> QED
    BY <1>1, UploadInvHolds, PTL

(* FOR UPDATE and FOR SHARE on file_upload_records: the row a cleaner has  *)
(* locked is locked by no other cleaner and shared by no message.          *)
THEOREM UploadRowsLockedOnce == UploadSpec => []RowsApart
  <1>1. UploadInv => RowsApart
    BY DEF UploadInv
  <1> QED
    BY <1>1, UploadInvHolds, PTL
=============================================================================
