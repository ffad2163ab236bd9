----------------------------- MODULE RoomsProofs -----------------------------
(***************************************************************************)
(* Proofs about Rooms, for any number of users and of requests at once.    *)
(***************************************************************************)
EXTENDS Rooms, TLAPS

-----------------------------------------------------------------------------
(* A request knows who sent it and, where its next statement needs one,    *)
(* the user it is about.                                                   *)
Targeted == {"add", "remove", "removing", "transfer", "new owner", "transferring", "appoint",
             "appointing", "demote", "demoting", "mute", "unmute", "expire", "review", "invite"}

Informed ==
    \A p \in Clients :
        /\ ~At(p, "idle") => run[p].by \in Users
        /\ run[p].pc \in Targeted => Target(p) \in Users

(* A row is locked by one transaction at a time. *)
LocksExclusive == \A p, q \in Clients : p # q => run[p].held \cap run[q].held = {}

(* A removal that is about to commit has locked the row of its member, and *)
(* so has an appointment, whose user is a member until then.               *)
RowsHeld ==
    \A p \in Clients :
        /\ At(p, "removing") => Holds(p, MemberRow(Target(p)))
        /\ At(p, "appointing") => Holds(p, MemberRow(Target(p))) /\ In(Target(p))

TypeInv == TypeOK /\ Informed

Inv == TypeInv /\ LocksExclusive /\ RowsHeld /\ AdminsAreMembers

(* A transaction that has not begun is a transaction. *)
LEMMA IdleRun == Idle \in Run /\ Idle.pc = "idle" /\ Idle.held = {}
  BY DEF Idle, Run, Pc

(* What a statement locks are rows of this room. *)
LEMMA WantsRows ==
    ASSUME TypeInv, NEW p \in Clients
    PROVE  Wants(p) \subseteq Rows
<1>1. /\ run[p].pc # "idle" => run[p].by \in Users
      /\ run[p].pc \in Targeted => run[p].target \in Users
  BY DEF TypeInv, Informed, At, Target
<1>2. \A u \in Users : MemberRow(u) \in Rows /\ AdminRow(u) \in Rows
  BY DEF Rows
<1>3. RoomRow \in Rows /\ EpochRow \in Rows
  BY DEF Rows
<1>. QED
  BY <1>1, <1>2, <1>3 DEF Wants, At, Target, Targeted, Members

(* The three ways a request goes on: it takes its locks, it ends, or it    *)
(* gets a new state that holds no lock.                                    *)
LEMMA RunLock ==
    ASSUME TypeInv, NEW p \in Clients, NEW pc \in Pc, Lock(p, pc),
           pc \in Targeted => Target(p) \in Users, ~At(p, "idle")
    PROVE  TypeInv'
<1>1. Wants(p) \subseteq Rows
  BY WantsRows
<1>2. [run[p] EXCEPT !.pc = pc, !.held = @ \cup Wants(p)] \in Run
  BY <1>1 DEF TypeInv, TypeOK, Run
<1>3. run' \in [Clients -> Run]
  BY <1>2 DEF Lock, TypeInv, TypeOK
<1>4. \A q \in Clients : run'[q].by = run[q].by /\ run'[q].target = run[q].target
  BY DEF Lock, TypeInv, TypeOK, Run
<1>5. run'[p].pc = pc /\ \A q \in Clients : q # p => run'[q] = run[q]
  BY DEF Lock, TypeInv, TypeOK, Run
<1>6. Informed'
  BY <1>4, <1>5 DEF TypeInv, Informed, At, Target
<1>. QED
  BY <1>3, <1>6 DEF Lock, TypeInv, TypeOK, group

(* A transaction that moves to another one of the right shape keeps the types. *)
LEMMA RunSet ==
    ASSUME TypeInv, NEW p \in Clients, NEW w \in Run, run' = [run EXCEPT ![p] = w],
           w.pc # "idle" => w.by \in Users, w.pc \in Targeted => w.target \in Users
    PROVE  run' \in [Clients -> Run] /\ Informed'
<1>1. \A q \in Clients : run'[q] = IF q = p THEN w ELSE run[q]
  BY DEF TypeInv, TypeOK
<1>2. run' \in [Clients -> Run]
  BY DEF TypeInv, TypeOK
<1>. QED
  BY <1>1, <1>2 DEF TypeInv, Informed, At, Target

(* The end of a transaction keeps the types. *)
LEMMA RunEnd ==
    ASSUME TypeInv, NEW p \in Clients, End(p)
    PROVE  run' \in [Clients -> Run] /\ Informed'
  BY IdleRun, RunSet DEF End, Targeted

(* The start of a transaction keeps the types. *)
LEMMA RunEnter ==
    ASSUME TypeInv, NEW p \in Clients, NEW pc \in Pc, NEW u \in Users,
           NEW t \in Users \cup {None}, NEW S \in SUBSET Users, Enter(p, pc, u, t, S),
           pc \in Targeted => t \in Users
    PROVE  run' \in [Clients -> Run] /\ Informed' /\ requests' \in 0 .. MaxRequests
<1>1. [Idle EXCEPT !.pc = pc, !.by = u, !.target = t, !.todo = S] \in Run
  BY DEF Idle, Run
<1>2. requests' \in 0 .. MaxRequests
  BY LimitsAssumption DEF Enter, Count, TypeInv, TypeOK
<1>. DEFINE w == [Idle EXCEPT !.pc = pc, !.by = u, !.target = t, !.todo = S]
<1>3. w \in Run /\ w.pc = pc /\ w.by = u /\ w.target = t
  BY <1>1 DEF Idle
<1>4. run' = [run EXCEPT ![p] = w]
  BY DEF Enter
<1>. HIDE DEF w
<1>. QED
  BY <1>2, <1>3, <1>4, RunSet

-----------------------------------------------------------------------------
(* Types *)

(* The group starts with no request under way. *)
LEMMA TypeInit == Init => TypeInv
<1>. SUFFICES ASSUME Init PROVE TypeInv
  OBVIOUS
<1>1. run \in [Clients -> Run] /\ Informed
  BY IdleRun DEF Init, Informed, At, Targeted
<1>2. member \in [Users -> Roles \cup {"out"}]
  BY DEF Init, Roles
<1>3. muted \in [Users -> MuteStatus] /\ request \in [Users -> RequestStatus]
  BY DEF Init, MuteStatus, RequestStatus
<1>4. settings \in Settings /\ requests \in 0 .. MaxRequests
  <2>1. settings = [approval |-> FALSE, invite |-> "no row"] /\ requests = 0
    BY DEF Init
  <2>2. 0 \in 0 .. MaxRequests
    BY LimitsAssumption
  <2>3. [approval |-> FALSE, invite |-> "no row"] \in Settings
    BY DEF Settings
  <2>. QED
    BY <2>1, <2>2, <2>3
<1>. QED
  BY <1>1, <1>2, <1>3, <1>4 DEF Init, TypeInv, TypeOK

(* A new request is well-formed, and so is what its checks leave behind.   *)
LEMMA TypeArrive ==
    ASSUME TypeInv, NEW p \in Clients, Arrive(p)
    PROVE  TypeInv'
<1>1. ASSUME NEW pc \in Pc, NEW u \in Users, NEW t \in Users \cup {None}, Begin(p, pc, u, t),
             pc \in Targeted => t \in Users
      PROVE  TypeInv'
  <2>1. Enter(p, pc, u, t, {}) /\ {} \in SUBSET Users
    BY <1>1 DEF Begin
  <2>2. run' \in [Clients -> Run] /\ Informed' /\ requests' \in 0 .. MaxRequests
    BY <1>1, <2>1, RunEnter
  <2>. QED
    BY <1>1, <2>2 DEF Begin, group, TypeInv, TypeOK
<1>2. CreateSettings => settings' \in Settings
  BY DEF CreateSettings, Settings, TypeInv, TypeOK
<1>3. ASSUME NEW u \in Users, Join(p, u) PROVE TypeInv'
  <2>. Enter(p, "add", u, u, {}) /\ {} \in SUBSET Users /\ "add" \in Pc
    BY <1>3 DEF Join, Pc
  <2>1. run' \in [Clients -> Run] /\ Informed' /\ requests' \in 0 .. MaxRequests
    BY RunEnter
  <2>. QED
    BY <1>2, <1>3, <2>1 DEF Join, TypeInv, TypeOK
<1>4. ASSUME NEW u \in Users, NEW S \in SUBSET Users, AddStart(p, u, S) PROVE TypeInv'
  <2>. Enter(p, "adding", u, None, S) /\ "adding" \in Pc \ Targeted
    BY <1>4 DEF AddStart, Pc, Targeted
  <2>1. run' \in [Clients -> Run] /\ Informed' /\ requests' \in 0 .. MaxRequests
    BY RunEnter
  <2>. QED
    BY <1>2, <1>4, <2>1 DEF AddStart, TypeInv, TypeOK
<1>5. ASSUME NEW u \in Users, NEW accept \in BOOLEAN, Respond(p, u, accept) PROVE TypeInv'
  <2>1. CASE accept
    <3>. Enter(p, "add", u, u, {}) /\ {} \in SUBSET Users /\ "add" \in Pc
      BY <1>5, <2>1 DEF Respond, Pc
    <3>1. run' \in [Clients -> Run] /\ Informed' /\ requests' \in 0 .. MaxRequests
      BY RunEnter
    <3>. QED
      BY <1>5, <3>1 DEF Respond, TypeInv, TypeOK
  <2>2. CASE ~accept
    <3>1. Informed' /\ run' = run /\ requests' \in 0 .. MaxRequests
      BY <1>5, <2>2, LimitsAssumption
      DEF Respond, Count, TypeInv, TypeOK, Informed, At, Target
    <3>. QED
      BY <1>5, <3>1 DEF Respond, TypeInv, TypeOK
  <2>. QED
    BY <2>1, <2>2
<1>6. ASSUME NEW u \in Users,
             Leave(p, u) \/ Dissolve(p, u) \/ FindOver(p, u) \/ SettingsStart(p, u)
      PROVE  TypeInv'
  <2>1. PICK pc \in {"remove", "dissolve", "expire", "settings"}, t \in {u, None} :
             Begin(p, pc, u, t) /\ (pc \in Targeted => t = u)
    BY <1>6 DEF Leave, Dissolve, FindOver, SettingsStart, Targeted
  <2>2. pc \in Pc
    BY DEF Pc
  <2>. QED
    BY <1>1, <2>1, <2>2
<1>7. ASSUME NEW u \in Users, NEW t \in Users,
             \/ ReviewStart(p, u, t) \/ InviteStart(p, u, t) \/ Kick(p, u, t)
             \/ Transfer(p, u, t) \/ Appoint(p, u, t) \/ Demote(p, u, t)
             \/ MuteStart(p, u, t) \/ UnmuteStart(p, u, t)
      PROVE  TypeInv'
  <2>1. PICK pc \in Pc : Begin(p, pc, u, t)
    BY <1>7
    DEF ReviewStart, InviteStart, Kick, Transfer, Appoint, Demote, MuteStart, UnmuteStart, Pc
  <2>. QED
    BY <1>1, <2>1
<1>. QED
  BY <1>3, <1>4, <1>5, <1>6, <1>7 DEF Arrive

(* A statement of a running request: those that only lock, and those that  *)
(* end the request with its changes.                                       *)
LEMMA TypeProgress ==
    ASSUME TypeInv, NEW p \in Clients, Step(p) \/ Fail(p)
    PROVE  TypeInv'
<1>1. /\ \A pc \in Targeted : At(p, pc) => Target(p) \in Users
      /\ run[p] \in Run
  BY DEF TypeInv, TypeOK, Informed, At
<1>2. ASSUME End(p), UNCHANGED <<group, requests>> PROVE TypeInv'
  BY <1>2, RunEnd DEF TypeInv, TypeOK, group
<1>3. CASE Review(p)
  BY <1>3, RunEnd DEF Review, TypeInv, TypeOK, RequestStatus
<1>4. CASE Invite(p)
  BY <1>1, <1>4, RunEnd DEF Invite, TypeInv, TypeOK, Targeted
<1>5. ASSUME NEW t \in Users, AddNext(p, t) PROVE TypeInv'
  <2>. DEFINE left == run[p].todo \ {t}
  <2>0. left \in SUBSET Users
    BY <1>1 DEF Run
  <2>. HIDE DEF left
  <2>1. [run[p] EXCEPT !.pc = "add", !.target = t, !.todo = left] \in Run
    BY <1>1, <2>0 DEF Run, Pc
  <2>2. [run[p] EXCEPT !.todo = left] \in Run
    BY <1>1, <2>0 DEF Run
  <2>3. run[p].by \in Users /\ run[p].pc = "adding"
    BY <1>5 DEF AddNext, TypeInv, Informed, At
  <2>4. PICK w \in Run : /\ run' = [run EXCEPT ![p] = w]
                         /\ w.pc # "idle" => w.by \in Users
                         /\ w.pc \in Targeted => w.target \in Users
    <3>1. \/ run' = [run EXCEPT ![p] = [run[p] EXCEPT !.pc = "add", !.target = t, !.todo = left]]
          \/ run' = [run EXCEPT ![p] = Idle]
          \/ run' = [run EXCEPT ![p] = [run[p] EXCEPT !.todo = left]]
      BY <1>5 DEF AddNext, left
    <3>. QED
      BY <1>1, <2>0, <2>1, <2>2, <2>3, <3>1, IdleRun DEF Targeted, Run
  <2>5. run' \in [Clients -> Run] /\ Informed'
    BY <2>4, RunSet
  <2>. QED
    BY <1>5, <2>5 DEF AddNext, TypeInv, TypeOK, group
<1>6. CASE Add(p)
  <2>1. run[p].by \in Users /\ run[p].pc = "add"
    BY <1>6 DEF Add, TypeInv, Informed, At
  <2>2. [run[p] EXCEPT !.pc = "adding", !.target = None] \in Run
    BY <1>1 DEF Run, Pc
  <2>3. PICK w \in Run : /\ run' = [run EXCEPT ![p] = w]
                         /\ w.pc # "idle" => w.by \in Users
                         /\ w.pc \in Targeted => w.target \in Users
    BY <1>1, <1>6, <2>1, <2>2, IdleRun DEF Add, Targeted, Run
  <2>4. run' \in [Clients -> Run] /\ Informed'
    BY <2>3, RunSet
  <2>. QED
    BY <1>6, <2>4 DEF Add, TypeInv, TypeOK, Roles
<1>7. CASE RemoveMark(p) \/ DissolveRoom(p) \/ TransferOld(p) \/ TransferNew(p)
           \/ AppointMark(p) \/ DemoteRow(p)
  <2>1. \/ End(p) /\ UNCHANGED <<group, requests>>
        \/ \E pc \in Pc : /\ Lock(p, pc) /\ ~At(p, "idle")
                          /\ pc \in Targeted => Target(p) \in Users
    BY <1>1, <1>7
    DEF RemoveMark, DissolveRoom, TransferOld, TransferNew, AppointMark, DemoteRow, At, Pc, Targeted
  <2>. QED
    BY <1>2, <2>1, RunLock
<1>8. CASE RemoveCommit(p) \/ DissolveCommit(p)
  BY <1>8, RunEnd DEF RemoveCommit, DissolveCommit, TypeInv, TypeOK, MuteStatus
<1>9. CASE TransferCommit(p)
  <2>1. Target(p) \in Users
    BY <1>1, <1>9 DEF TransferCommit, Targeted
  <2>2. Transferred(p) \in [Users -> Roles \cup {"out"}]
    BY DEF Transferred, TypeInv, TypeOK, Roles
  <2>. QED
    BY <1>9, <2>1, <2>2, RunEnd DEF TransferCommit, TypeInv, TypeOK
<1>10. CASE AppointCommit(p) \/ DemoteCommit(p)
  <2>1. Target(p) \in Users
    BY <1>1, <1>10 DEF AppointCommit, DemoteCommit, Targeted
  <2>. QED
    BY <1>10, <2>1, RunEnd DEF AppointCommit, DemoteCommit, TypeInv, TypeOK, Roles
<1>11. CASE Mute(p) \/ Unmute(p) \/ Expire(p)
  BY <1>11, RunEnd DEF Mute, Unmute, Expire, SetMute, TypeInv, TypeOK, MuteStatus
<1>12. CASE UpdateSettings(p)
  BY <1>12, RunEnd DEF UpdateSettings, TypeInv, TypeOK, Settings
<1>13. CASE DeadlockVictim(p) \/ Fail(p)
  BY <1>2, <1>13 DEF DeadlockVictim, Fail
<1>. QED
  BY <1>3, <1>4, <1>5, <1>6, <1>7, <1>8, <1>9, <1>10, <1>11, <1>12, <1>13 DEF Step

(* Every step keeps the types. *)
LEMMA TypeStep == TypeInv /\ [Next]_vars => TypeInv'
<1>. SUFFICES ASSUME TypeInv, [Next]_vars PROVE TypeInv'
  OBVIOUS
<1>1. ASSUME NEW p \in Clients, Step(p) \/ Arrive(p) \/ Fail(p) PROVE TypeInv'
  BY <1>1, TypeArrive, TypeProgress
<1>2. ASSUME NEW u \in Users, Apply(u) \/ MuteEnds(u) PROVE TypeInv'
  BY <1>2, LimitsAssumption DEF Apply, MuteEnds, Count, TypeInv, TypeOK, Informed, At, Target,
                                RequestStatus, MuteStatus
<1>3. CASE ReadSettings
  BY <1>3 DEF ReadSettings, CreateSettings, TypeInv, TypeOK, Informed, At, Target, Settings
<1>4. CASE UNCHANGED vars
  BY <1>4 DEF vars, group, TypeInv, TypeOK, Informed, At, Target
<1>. QED
  BY <1>1, <1>2, <1>3, <1>4 DEF Next

(* Rows and requests keep their shapes. *)
THEOREM TypeCorrect == Spec => []TypeOK
<1>1. TypeInv => TypeOK
  BY DEF TypeInv
<1>. QED
  BY <1>1, TypeInit, TypeStep, PTL DEF Spec

-----------------------------------------------------------------------------
(* Locks *)

(* A request either ends, or keeps its locks and perhaps takes those it    *)
(* wants once nobody else holds them, or begins without any.               *)
LocksMove(p) ==
    /\ \A q \in Clients \ {p} : run'[q] = run[q]
    /\ \/ run'[p].held = {}
       \/ run'[p].held = run[p].held
       \/ run'[p].held = run[p].held \cup Wants(p) /\ Granted(p)

(* Locks that are granted or given back stay exclusive. *)
LEMMA MoveExclusive ==
    ASSUME TypeInv, LocksExclusive, NEW p \in Clients, LocksMove(p)
    PROVE  LocksExclusive'
<1>1. Granted(p) => \A q \in Clients \ {p} : run[q].held \cap Wants(p) = {}
  BY DEF Granted, WaitsFor
<1>2. \A q \in Clients \ {p} : run'[q].held = run[q].held
  BY DEF LocksMove
<1>3. \A q \in Clients \ {p} : run'[p].held \cap run[q].held = {}
  BY <1>1 DEF LocksMove, LocksExclusive
<1>. QED
  BY <1>2, <1>3 DEF LocksExclusive

(* Requests that begin, end, or take a lock. *)
LEMMA EnterMoves ==
    ASSUME TypeInv, NEW p \in Clients, NEW pc, NEW u, NEW t, NEW S, Enter(p, pc, u, t, S)
    PROVE  /\ LocksMove(p) /\ run'[p].pc = pc
  BY DEF Enter, LocksMove, TypeInv, TypeOK, Idle

(* The end of a transaction only gives locks back. *)
LEMMA EndMoves ==
    ASSUME TypeInv, NEW p \in Clients, End(p)
    PROVE  LocksMove(p) /\ run'[p].pc = "idle"
  BY IdleRun DEF End, LocksMove, TypeInv, TypeOK

(* A request that waited for rows holds them afterwards. *)
LEMMA LockMoves ==
    ASSUME TypeInv, NEW p \in Clients, NEW pc, Lock(p, pc)
    PROVE  /\ LocksMove(p) /\ run'[p].pc = pc /\ run'[p].target = run[p].target
           /\ run'[p].held = run[p].held \cup Wants(p)
  BY DEF Lock, LocksMove, TypeInv, TypeOK, Run

-----------------------------------------------------------------------------
(* The rest of the invariant follows when the requests other than p keep   *)
(* theirs, p is not about to commit, and nobody becomes an admin.          *)
LEMMA Undisturbed ==
    ASSUME Inv, NEW p \in Clients, LocksMove(p),
           run'[p].pc \notin {"removing", "appointing"},
           \A u \in Users : In(u) => In(u)'
    PROVE  LocksExclusive' /\ RowsHeld'
<1>1. LocksExclusive'
  BY MoveExclusive DEF Inv
<1>2. \A q \in Clients \ {p} : run'[q] = run[q]
  BY DEF LocksMove
<1>3. \A q \in Clients : At(q, "appointing") => Target(q) \in Users
  BY DEF Inv, TypeInv, Informed, At, Targeted
<1>4. RowsHeld'
  BY <1>2, <1>3 DEF Inv, RowsHeld, At, Holds, Target
<1>. QED
  BY <1>1, <1>4

(* The start of a transaction keeps the invariant. *)
LEMMA InvArrive ==
    ASSUME Inv, NEW p \in Clients, Arrive(p)
    PROVE  LocksExclusive' /\ RowsHeld' /\ AdminsAreMembers'
<1>1. UNCHANGED <<alive, member, admins>>
  BY DEF Arrive, Join, Leave, Dissolve, FindOver, SettingsStart, Respond, AddStart, ReviewStart,
         InviteStart, Kick, Transfer, Appoint, Demote, MuteStart, UnmuteStart, Begin, group
<1>2. \/ run' = run
      \/ \E pc \in Pc \ {"removing", "appointing"} : \E u, t, S : Enter(p, pc, u, t, S)
  BY DEF Arrive, Join, Leave, Dissolve, FindOver, SettingsStart, Respond, AddStart, ReviewStart,
         InviteStart, Kick, Transfer, Appoint, Demote, MuteStart, UnmuteStart, Begin, Pc
<1>3. AdminsAreMembers'
  BY <1>1 DEF Inv, AdminsAreMembers, In
<1>4. CASE run' = run
  BY <1>1, <1>3, <1>4 DEF Inv, LocksExclusive, RowsHeld, At, Holds, Target, In
<1>5. ASSUME NEW pc \in Pc \ {"removing", "appointing"}, NEW u, NEW t, NEW S,
             Enter(p, pc, u, t, S)
      PROVE  LocksExclusive' /\ RowsHeld'
  <2>1. LocksMove(p) /\ run'[p].pc = pc
    BY <1>5, EnterMoves DEF Inv
  <2>. QED
    BY <1>1, <2>1, Undisturbed DEF In
<1>. QED
  BY <1>2, <1>3, <1>4, <1>5

(* The statements that take a lock before a commit that relies on it. *)
LEMMA InvMark ==
    ASSUME Inv, NEW p \in Clients, RemoveMark(p) \/ AppointMark(p)
    PROVE  LocksExclusive' /\ RowsHeld' /\ AdminsAreMembers'
<1>1. CASE ~In(Target(p))
  <2>1. End(p) /\ UNCHANGED group
    BY <1>1 DEF RemoveMark, AppointMark
  <2>. QED
    BY <2>1, EndMoves, Undisturbed DEF Inv, AdminsAreMembers, In, group
<1>2. CASE In(Target(p))
  <2>1. /\ run[p].pc \in {"remove", "appoint"} /\ UNCHANGED group
        /\ Lock(p, IF At(p, "remove") THEN "removing" ELSE "appointing")
    BY <1>2 DEF RemoveMark, AppointMark, Lock, At
  <2>2. MemberRow(Target(p)) \in Wants(p)
    BY <1>2, <2>1 DEF Wants, At
  <2>3. /\ LocksMove(p) /\ run'[p].target = run[p].target
        /\ run'[p].held = run[p].held \cup Wants(p)
    BY <2>1, LockMoves DEF Inv
  <2>4. LocksExclusive'
    BY <2>3, MoveExclusive DEF Inv
  <2>5. member' = member /\ alive' = alive /\ admins' = admins
    BY <2>1 DEF group
  <2>6. \A q \in Clients \ {p} : run'[q] = run[q]
    BY <2>3 DEF LocksMove
  <2>7. RowsHeld'
    BY <1>2, <2>2, <2>3, <2>5, <2>6 DEF Inv, RowsHeld, At, Holds, Target, In
  <2>. QED
    BY <2>4, <2>5, <2>7 DEF Inv, AdminsAreMembers, In
<1>. QED
  BY <1>1, <1>2

(* A removal that commits holds the row of its member: no appointment of   *)
(* the same user is under way.                                             *)
LEMMA InvRemoveCommit ==
    ASSUME Inv, NEW p \in Clients, RemoveCommit(p)
    PROVE  LocksExclusive' /\ RowsHeld' /\ AdminsAreMembers'
<1>. DEFINE t == Target(p)
<1>1. /\ t \in Users /\ MemberRow(t) \in run[p].held /\ alive' = alive
      /\ \A u \in Users \ {t} : member'[u] = member[u]
      /\ admins' = admins \ {t}
  BY DEF RemoveCommit, Inv, TypeInv, TypeOK, Informed, Targeted, RowsHeld, At, Holds, Target
<1>2. LocksMove(p) /\ run'[p].pc = "idle"
  BY EndMoves DEF RemoveCommit, Inv
<1>3. LocksExclusive'
  BY <1>2, MoveExclusive DEF Inv
<1>4. AdminsAreMembers'
  <2>. HIDE DEF t
  <2>1. admins \subseteq Users /\ AdminsAreMembers
    BY DEF Inv, TypeInv, TypeOK
  <2>. QED
    BY <1>1, <2>1 DEF AdminsAreMembers, In
<1>5. ASSUME NEW q \in Clients \ {p}, At(q, "appointing")
      PROVE  Target(q) \in Users \ {t}
  <2>1. Target(q) \in Users /\ MemberRow(Target(q)) \in run[q].held
    BY <1>5 DEF Inv, TypeInv, Informed, Targeted, RowsHeld, At, Holds, Target
  <2>2. run[p].held \cap run[q].held = {}
    BY DEF Inv, LocksExclusive
  <2>. QED
    BY <1>1, <2>1, <2>2
<1>6. RowsHeld'
  BY <1>1, <1>2, <1>5 DEF Inv, RowsHeld, LocksMove, At, Holds, Target, In
<1>. QED
  BY <1>3, <1>4, <1>6

(* A dissolution waits for the rows of all members, so it commits while no *)
(* appointment is under way.                                               *)
LEMMA InvDissolveCommit ==
    ASSUME Inv, NEW p \in Clients, DissolveCommit(p)
    PROVE  LocksExclusive' /\ RowsHeld' /\ AdminsAreMembers'
<1>1. LocksMove(p) /\ run'[p].pc = "idle"
  BY EndMoves DEF DissolveCommit, Inv
<1>2. LocksExclusive'
  BY <1>1, MoveExclusive DEF Inv
<1>3. AdminsAreMembers'
  BY DEF DissolveCommit, AdminsAreMembers
<1>4. \A u \in Users : In(u) => MemberRow(u) \in Wants(p)
  BY DEF DissolveCommit, Wants, At, Members
<1>5. \A q \in Clients \ {p} : ~At(q, "appointing")
  <2>. SUFFICES ASSUME NEW q \in Clients \ {p}, At(q, "appointing") PROVE FALSE
    OBVIOUS
  <2>1. Target(q) \in Users /\ In(Target(q)) /\ MemberRow(Target(q)) \in run[q].held
    BY DEF Inv, TypeInv, Informed, Targeted, RowsHeld, At, Holds, Target
  <2>2. q \in WaitsFor(p)
    BY <1>4, <2>1 DEF WaitsFor
  <2>. QED
    BY <2>2 DEF DissolveCommit, Granted
<1>6. RowsHeld'
  BY <1>1, <1>5 DEF Inv, RowsHeld, LocksMove, At, Holds, Target
<1>. QED
  BY <1>2, <1>3, <1>6

(* The other statements let nobody go. *)
LEMMA InvOther ==
    ASSUME Inv, NEW p \in Clients,
           \/ Review(p) \/ Invite(p) \/ \E t \in Users : AddNext(p, t)
           \/ Add(p) \/ DissolveRoom(p) \/ TransferOld(p) \/ TransferNew(p) \/ TransferCommit(p)
           \/ AppointCommit(p) \/ DemoteRow(p) \/ DemoteCommit(p)
           \/ Mute(p) \/ Unmute(p) \/ Expire(p) \/ UpdateSettings(p) \/ DeadlockVictim(p)
           \/ Fail(p)
    PROVE  LocksExclusive' /\ RowsHeld' /\ AdminsAreMembers'
<1>. USE DEF Inv
<1>1. /\ LocksMove(p) /\ run'[p].pc \notin {"removing", "appointing"}
  <2>1. CASE End(p)
    BY <2>1, EndMoves
  <2>2. ASSUME NEW pc \in {"dissolving", "new owner", "transferring", "demoting"}, Lock(p, pc)
        PROVE  LocksMove(p) /\ run'[p].pc = pc
    BY <2>2, LockMoves
  <2>3. CASE Add(p) \/ \E t \in Users : AddNext(p, t)
    <3>2. run[p] \in Run
      BY DEF TypeInv, TypeOK
    <3>3. ASSUME \A q \in Clients \ {p} : run'[q] = run[q],
                 \/ run'[p] = Idle
                 \/ run'[p].held = run[p].held /\ run'[p].pc \in {"add", "adding"}
          PROVE  LocksMove(p) /\ run'[p].pc \notin {"removing", "appointing"}
      BY <3>3, IdleRun DEF LocksMove
    <3>4. CASE Add(p)
      <4>. DEFINE w == [run[p] EXCEPT !.pc = "adding", !.target = None]
      <4>1. w.held = run[p].held /\ w.pc = "adding"
        BY <3>2 DEF Run
      <4>. HIDE DEF w
      <4>2. run' = [run EXCEPT ![p] = IF run[p].todo = {} THEN Idle ELSE w]
        BY <3>4 DEF Add, w
      <4>3. run'[p] \in {Idle, w} /\ \A q \in Clients \ {p} : run'[q] = run[q]
        BY <4>2 DEF TypeInv, TypeOK
      <4>. QED
        BY <3>3, <4>1, <4>3
    <3>5. ASSUME NEW t \in Users, AddNext(p, t)
          PROVE  LocksMove(p) /\ run'[p].pc \notin {"removing", "appointing"}
      <4>. DEFINE w == [run[p] EXCEPT !.pc = "add", !.target = t, !.todo = run[p].todo \ {t}]
                  x == [run[p] EXCEPT !.todo = run[p].todo \ {t}]
      <4>1. w.held = run[p].held /\ w.pc = "add" /\ x.held = run[p].held /\ x.pc = "adding"
        BY <3>2, <3>5 DEF Run, AddNext, At
      <4>. HIDE DEF w, x
      <4>2. run' = [run EXCEPT ![p] = w] \/ run' = [run EXCEPT ![p] = Idle]
            \/ run' = [run EXCEPT ![p] = x]
        BY <3>5 DEF AddNext, w, x
      <4>3. run'[p] \in {Idle, w, x} /\ \A q \in Clients \ {p} : run'[q] = run[q]
        BY <4>2 DEF TypeInv, TypeOK
      <4>. QED
        BY <3>3, <4>1, <4>3
    <3>. QED
      BY <2>3, <3>4, <3>5
  <2>. QED
    BY <2>1, <2>2, <2>3
    DEF Review, Invite, DissolveRoom, TransferOld, TransferNew, TransferCommit, AppointCommit,
        DemoteRow, DemoteCommit, Mute, Unmute, Expire, SetMute, UpdateSettings, DeadlockVictim, Fail
<1>2. \A u \in Users : In(u) => In(u)'
  <2>1. CASE TransferCommit(p)
    BY <2>1 DEF TransferCommit, Transferred, In
  <2>2. CASE Add(p) \/ AppointCommit(p) \/ DemoteCommit(p)
    BY <2>2 DEF Add, AppointCommit, DemoteCommit, In, TypeInv, TypeOK
  <2>3. CASE member' = member
    BY <2>3 DEF In
  <2>. QED
    BY <2>1, <2>2, <2>3
    DEF Review, Invite, AddNext, DissolveRoom, TransferOld, TransferNew, DemoteRow, Lock,
        Mute, Unmute, Expire, SetMute, UpdateSettings, DeadlockVictim, Fail, group
<1>3. LocksExclusive' /\ RowsHeld'
  BY <1>1, <1>2, Undisturbed
<1>4. alive' = alive
  BY DEF Review, Invite, AddNext, Add, DissolveRoom, TransferOld, TransferNew, TransferCommit,
         AppointCommit, DemoteRow, DemoteCommit, Lock, Mute, Unmute, Expire, SetMute,
         UpdateSettings, DeadlockVictim, Fail, group
<1>5. \A u \in admins' : u \in admins \/ In(u)
  <2>1. CASE AppointCommit(p)
    BY <2>1 DEF AppointCommit, RowsHeld
  <2>2. CASE admins' \subseteq admins
    BY <2>2
  <2>. QED
    BY <2>1, <2>2
    DEF Review, Invite, AddNext, Add, DissolveRoom, TransferOld, TransferNew, TransferCommit,
        DemoteRow, DemoteCommit, Lock, Mute, Unmute, Expire, SetMute, UpdateSettings,
        DeadlockVictim, Fail, group
<1>6. admins' \subseteq Users
  BY TypeProgress DEF TypeInv, TypeOK, Step
<1>. QED
  BY <1>2, <1>3, <1>4, <1>5, <1>6 DEF AdminsAreMembers

(* Every step keeps the invariant. *)
LEMMA InvStep == Inv /\ [Next]_vars => Inv'
<1>. SUFFICES ASSUME Inv, [Next]_vars PROVE LocksExclusive' /\ RowsHeld' /\ AdminsAreMembers'
  BY TypeStep DEF Inv
<1>1. ASSUME NEW p \in Clients, Step(p) \/ Arrive(p) \/ Fail(p)
      PROVE  LocksExclusive' /\ RowsHeld' /\ AdminsAreMembers'
  BY <1>1, InvArrive, InvMark, InvRemoveCommit, InvDissolveCommit, InvOther DEF Step
<1>2. ASSUME UNCHANGED <<alive, member, admins, run>>
      PROVE  LocksExclusive' /\ RowsHeld' /\ AdminsAreMembers'
  BY <1>2 DEF Inv, LocksExclusive, RowsHeld, AdminsAreMembers, At, Holds, Target, In
<1>. QED
  BY <1>1, <1>2 DEF Next, Apply, MuteEnds, ReadSettings, vars, group

(* The invariant holds in the first state. *)
LEMMA InvInit == Init => Inv
<1>. SUFFICES ASSUME Init PROVE LocksExclusive /\ RowsHeld /\ AdminsAreMembers
  BY TypeInit DEF Inv
<1>1. \A p \in Clients : run[p] = Idle
  BY DEF Init
<1>2. LocksExclusive /\ RowsHeld
  BY <1>1, IdleRun DEF LocksExclusive, RowsHeld, At
<1>. QED
  BY <1>2 DEF Init, AdminsAreMembers

-----------------------------------------------------------------------------
(* Everybody group_admins lists is a member of the room as long as it      *)
(* exists, whatever removals, appointments, transfers and dissolutions run *)
(* at once and wherever they break off: the rows of room_members they lock *)
(* make up for the checks that were made without a lock.                   *)
THEOREM AdminsRemainMembers == Spec => []AdminsAreMembers
<1>1. Inv => AdminsAreMembers
  BY DEF Inv
<1>. QED
  BY <1>1, InvInit, InvStep, PTL DEF Spec

(* No two transactions on the room hold a lock on the same row: a          *)
(* statement waits, or its request is rolled back.                         *)
THEOREM RowsLockedOnce == Spec => []LocksExclusive
<1>1. Inv => LocksExclusive
  BY DEF Inv
<1>. QED
  BY <1>1, InvInit, InvStep, PTL DEF Spec

(* The role of the owner is held only by users the room has belonged to,   *)
(* although a transfer writes the two roles and rooms.owner_id in          *)
(* different statements and the room may be dissolved before the last.     *)
THEOREM OwnersHaveOwned == Spec => []OwnersOnly
<1>. DEFINE OwnerInv == TypeInv /\ OwnersOnly
<1>1. Init => OwnersOnly
  BY DEF Init, OwnersOnly
<1>2. ASSUME TypeInv, OwnersOnly, [Next]_vars PROVE OwnersOnly'
  <2>1. CASE \E p \in Clients : TransferCommit(p)
    <3>1. PICK p \in Clients : TransferCommit(p)
      BY <2>1
    <3>2. \A u \in Users : Transferred(p)[u] = "Owner" => u = Target(p) \/ member[u] = "Owner"
      BY DEF Transferred
    <3>. QED
      BY <1>2, <3>1, <3>2 DEF TransferCommit, OwnersOnly
  <2>2. ASSUME \A u \in Users : member'[u] \in {member[u], "Member", "Admin", "out"},
               owned' = owned
        PROVE  OwnersOnly'
    BY <1>2, <2>2 DEF OwnersOnly
  <2>3. ASSUME NEW p \in Clients,
               Add(p) \/ RemoveCommit(p) \/ DissolveCommit(p) \/ AppointCommit(p) \/ DemoteCommit(p)
        PROVE  OwnersOnly'
    <3>1. \A u \in Users : member'[u] \in {member[u], "Member", "Admin", "out"}
      BY <1>2, <2>3
      DEF Add, RemoveCommit, DissolveCommit, AppointCommit, DemoteCommit, TypeInv, TypeOK
    <3>. QED
      BY <2>2, <2>3, <3>1 DEF Add, RemoveCommit, DissolveCommit, AppointCommit, DemoteCommit
  <2>4. CASE UNCHANGED <<member, owned>>
    BY <2>2, <2>4
  <2>5. ASSUME NEW p \in Clients, Arrive(p) PROVE UNCHANGED <<member, owned>>
    BY <2>5
    DEF Arrive, Join, Leave, Dissolve, FindOver, SettingsStart, Respond, AddStart, ReviewStart,
        InviteStart, Kick, Transfer, Appoint, Demote, MuteStart, UnmuteStart, Begin, group
  <2>. QED
    BY <1>2, <2>1, <2>3, <2>4, <2>5
    DEF Next, Step, Review, Invite, AddNext, RemoveMark, DissolveRoom, TransferOld, TransferNew,
        AppointMark, DemoteRow, Mute, Unmute, Expire, SetMute, UpdateSettings, DeadlockVictim,
        Fail, Lock, Apply, MuteEnds, ReadSettings, vars, group
<1>3. OwnerInv /\ [Next]_vars => OwnerInv'
  BY <1>2, TypeStep
<1>4. Init => OwnerInv
  BY <1>1, TypeInit
<1>5. OwnerInv => OwnersOnly
  OBVIOUS
<1>. HIDE DEF OwnerInv
<1>. QED
  BY <1>3, <1>4, <1>5, PTL DEF Spec
=============================================================================
