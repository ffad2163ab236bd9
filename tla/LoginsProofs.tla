----------------------------- MODULE LoginsProofs -----------------------------
(***************************************************************************)
(* Proofs about Logins, for any number of requests, devices, tokens and    *)
(* QR sessions.                                                            *)
(***************************************************************************)
EXTENDS Logins, TLAPS

-----------------------------------------------------------------------------
(* A token that is stored has a device.  A request knows the device, the   *)
(* token and the session it works on; the token it is about to index was   *)
(* drawn for its device.                                                   *)
Prepared ==
    /\ \A t \in stored : payload[t] # None
    /\ \A p \in Procs :
        /\ proc[p].pc \in {"register", "issue", "index", "renew", "members", "delete"}
              => proc[p].device \in Devices
        /\ proc[p].pc \in {"index", "confirm", "push", "take", "renew", "prolong"}
              => proc[p].token \in Tokens
        /\ proc[p].pc \in {"register", "confirm", "push", "take", "expire"}
              => proc[p].qr \in Qrs
        /\ At(p, "index") => payload[proc[p].token] = proc[p].device

Inv == TypeOK /\ Prepared

(* A request that ends leaves the others prepared; so does what touches no *)
(* request.                                                                *)
LEMMA Ended ==
    ASSUME Inv, NEW p \in Procs, payload' = payload, stored' \subseteq stored,
           Finish(p) \/ proc' = proc
    PROVE  Prepared' /\ proc' \in [Procs -> Request]
<1>. USE DEF Inv, TypeOK
<1>1. CASE proc' = proc
  BY <1>1 DEF Prepared, At
<1>2. CASE Finish(p)
  <2>1. Idle \in Request /\ Idle.pc = "idle"
    BY DEF Idle, Request, Pc
  <2>2. \A o \in Procs : proc'[o] = IF o = p THEN Idle ELSE proc[o]
    BY <1>2 DEF Finish, Do
  <2>3. proc' \in [Procs -> Request]
    BY <1>2, <2>1 DEF Finish, Do
  <2>. QED
    BY <2>1, <2>2, <2>3 DEF Prepared, At
<1>. QED
  BY <1>1, <1>2

(* A session gets a new status. *)
LEMMA NewStatus ==
    ASSUME Inv, NEW q, NEW st \in QrStatus, qr' = [qr EXCEPT ![q].status = st]
    PROVE  qr' \in [Qrs -> Session]
<1>1. \A x \in Qrs : qr[x] \in Session
  BY DEF Inv, TypeOK
<1>2. \A x \in Qrs : [qr[x] EXCEPT !.status = st] \in Session
  BY <1>1, Zenon DEF Session
<1>. QED
  BY <1>2 DEF Inv, TypeOK

(* Every type and every request is left in order by every step. *)
LEMMA InvStep == Inv /\ [Next]_vars => Inv'
<1>. SUFFICES ASSUME Inv, [Next]_vars PROVE Inv'
  OBVIOUS
<1>. USE NoneAssumption, FaultAssumption DEF TypeOK
<1>0. Idle \in Request
  BY DEF Idle, Request, Pc
<1>a. \A p \in Procs : proc[p] \in Request
  BY DEF Inv
<1>1. ASSUME NEW p \in Procs, NEW d \in Devices, Login(p, d) PROVE Inv'
  BY <1>0, <1>1 DEF Inv, Prepared, Login, Registered, Do, Idle, At, Request, Pc, DeviceStatus,
     redis, history
<1>2. ASSUME NEW p \in Procs, Register(p) PROVE Inv'
  BY <1>a, <1>2 DEF Inv, Prepared, Register, Registered, Goto, At, Request, Pc, DeviceStatus,
     redis, history
<1>3. ASSUME NEW p \in Procs, NEW t \in Tokens, Issue(p, t) PROVE Inv'
  <2>1. TypeOK'
    <3>1. proc[p].device \in Devices
      BY <1>3 DEF Inv, Prepared, Issue, At
    <3>2. [proc[p] EXCEPT !.pc = "index", !.token = t] \in Request
      BY <1>a DEF Request, Pc
    <3>3. proc' \in [Procs -> Request]
      BY <1>3, <3>2 DEF Inv, Issue
    <3>. QED
      BY <1>3, <3>1, <3>3 DEF Inv, Issue, redis, history
  <2>2. Prepared'
    BY <1>a, <1>3 DEF Inv, Prepared, Issue, Fresh, At, Request
  <2>. QED
    BY <2>1, <2>2 DEF Inv
<1>4. ASSUME NEW p \in Procs, Index(p) PROVE Inv'
  <2>1. proc[p].device \in Devices /\ proc[p].token \in Tokens
    BY <1>4 DEF Inv, Prepared, Index, At
  <2>2. TypeOK'
    BY <1>0, <1>a, <1>4, <2>1 DEF Inv, Index, Indexed, Fault, Finish, Do, Goto, Request, Pc
  <2>3. Prepared'
    BY <1>a, <1>4, <2>1 DEF Inv, Prepared, Index, Finish, Do, Goto, At, Request, Idle
  <2>. QED
    BY <2>2, <2>3 DEF Inv
<1>5. ASSUME NEW p \in Procs, NEW t \in Tokens, Refresh(p, t) PROVE Inv'
  BY <1>0, <1>a, <1>5 DEF Inv, Prepared, Refresh, Do, At, Idle,
     Request, Pc, redis, history
<1>6. ASSUME NEW p \in Procs, Renew(p) PROVE Inv'
  BY <1>a, <1>6 DEF Inv, Prepared, Renew, Registered, Goto, At, Request, Pc, DeviceStatus,
     redis, history
<1>6a. ASSUME NEW p \in Procs, Prolong(p) PROVE Inv'
  <2>1. Prepared' /\ proc' \in [Procs -> Request]
    BY <1>6a, Ended DEF Prolong
  <2>. QED
    BY <1>6a, <2>1 DEF Inv, Prolong, Prolonged, history
<1>7. ASSUME NEW p \in Procs, NEW d \in Devices, Revoke(p, d) PROVE Inv'
  BY <1>0, <1>a, <1>7 DEF Inv, Prepared, Revoke, DeviceStatus, Do, At, Idle,
     Request, Pc, redis, history
<1>8. ASSUME NEW p \in Procs, Members(p) PROVE Inv'
  <2>1. PICK S \in {index[proc[p].device], {}} :
            /\ IF S = index[proc[p].device] THEN UNCHANGED faults ELSE Fault
            /\ proc' = [proc EXCEPT ![p].pc = "delete", ![p].todo = S]
    BY <1>8 DEF Members
  <2>2. proc[p].device \in Devices /\ S \subseteq Tokens
    BY <1>8 DEF Inv, Prepared, Members, At
  <2>3. [proc[p] EXCEPT !.pc = "delete", !.todo = S] \in Request
    BY <1>a, <2>2 DEF Request, Pc
  <2>4. TypeOK'
    <3>1. proc' \in [Procs -> Request]
      BY <2>1, <2>3 DEF Inv
    <3>2. faults' \in 0 .. MaxFaults
      BY <2>1 DEF Inv, Fault
    <3>. QED
      BY <1>8, <3>1, <3>2 DEF Inv, Members, redis, history
  <2>5. Prepared'
    BY <1>a, <1>8, <2>1, <2>2 DEF Inv, Prepared, Members, At, Request, redis, history
  <2>. QED
    BY <2>4, <2>5 DEF Inv
<1>9. ASSUME NEW p \in Procs, NEW t \in Tokens, DeleteToken(p, t) PROVE Inv'
  BY <1>0, <1>a, <1>9 DEF Inv, Prepared, DeleteToken, Drop, Fault, At,
     Request, Pc, history
<1>10. ASSUME NEW p \in Procs, DeleteIndex(p) PROVE Inv'
  <2>1. Prepared' /\ proc' \in [Procs -> Request]
    BY <1>10, Ended DEF DeleteIndex
  <2>. QED
    BY <1>10, <2>1 DEF Inv, DeleteIndex, Lose, Fault
<1>11. ASSUME NEW t \in Tokens, TokenExpires(t) PROVE Inv'
  <2>1. Prepared'
    BY <1>11 DEF Inv, Prepared, TokenExpires, Drop, At
  <2>. QED
    BY <1>11, <2>1 DEF Inv, TokenExpires, Drop, history
<1>12. ASSUME NEW d \in Devices, IndexExpires(d) PROVE Inv'
  <2>1. Prepared'
    BY <1>12 DEF Inv, Prepared, IndexExpires, At
  <2>. QED
    BY <1>12, <2>1 DEF Inv, IndexExpires, Lose
<1>13. ASSUME NEW q \in Qrs, CreateQr(q) PROVE Inv'
  <2>1. qr' \in [Qrs -> Session] /\ Prepared'
    BY <1>13, NewStatus DEF CreateQr, QrStatus, Inv, Prepared, At, redis
  <2>. QED
    BY <1>13, <2>1 DEF Inv, CreateQr, redis, history
<1>14. ASSUME NEW q \in Qrs, QrTimesOut(q) PROVE Inv'
  <2>1. qr[q] \in Session
    BY DEF Inv
  <2>2. [qr[q] EXCEPT !.late = TRUE] \in Session
    BY <2>1, Zenon DEF Session
  <2>3. qr' \in [Qrs -> Session]
    BY <1>14, <2>2 DEF Inv, QrTimesOut
  <2>. QED
    BY <1>14, <2>3 DEF Inv, Prepared, QrTimesOut, At, redis, history
<1>15. ASSUME NEW p \in Procs, NEW q \in Qrs, FindLate(p, q) PROVE Inv'
  BY <1>0, <1>a, <1>15 DEF Inv, Prepared, FindLate, Do, At, Idle,
     Request, Pc, redis, history
<1>16. ASSUME NEW p \in Procs, MarkExpired(p) PROVE Inv'
  <2>1. qr' \in [Qrs -> Session]
    BY <1>16, NewStatus DEF MarkExpired, QrStatus, Inv
  <2>2. Prepared' /\ proc' \in [Procs -> Request]
    BY <1>16, Ended DEF MarkExpired, redis
  <2>. QED
    BY <1>16, <2>1, <2>2 DEF Inv, MarkExpired, redis, history
<1>17. ASSUME NEW p \in Procs, NEW q \in Qrs, NEW d \in Devices, ScanQr(p, q, d) PROVE Inv'
  BY <1>0, <1>a, <1>17 DEF Inv, Prepared, ScanQr, Do, At, Idle,
     Request, Pc, redis, history
<1>18. ASSUME NEW p \in Procs, ConfirmQr(p) PROVE Inv'
  <2>1. CASE ~MayConfirm(proc[p].qr)
    <3>1. Prepared' /\ proc' \in [Procs -> Request]
      BY <1>18, <2>1, Ended DEF ConfirmQr, redis
    <3>. QED
      BY <1>18, <2>1, <3>1 DEF Inv, ConfirmQr, redis, history
  <2>2. CASE MayConfirm(proc[p].qr)
    <3>1. proc[p].qr \in Qrs /\ proc[p].token \in Tokens
      BY <1>18 DEF Inv, Prepared, ConfirmQr, At
    <3>2. [qr[proc[p].qr] EXCEPT !.status = "confirmed", !.code = proc[p].token] \in Session
      BY <3>1 DEF Inv, Session, QrStatus
    <3>3. qr' \in [Qrs -> Session]
      BY <1>18, <2>2, <3>1, <3>2 DEF Inv, ConfirmQr
    <3>4. [proc[p] EXCEPT !.pc = "push"] \in Request
      BY <1>a DEF Request, Pc
    <3>5. TypeOK'
      BY <1>18, <2>2, <3>3, <3>4 DEF Inv, ConfirmQr, Goto, redis, history
    <3>6. Prepared'
      BY <1>a, <1>18, <2>2, <3>1 DEF Inv, Prepared, ConfirmQr, Goto, At, Request, redis
    <3>. QED
      BY <3>5, <3>6 DEF Inv
  <2>. QED
    BY <2>1, <2>2
<1>19. ASSUME NEW p \in Procs, Push(p) PROVE Inv'
  <2>1. Prepared' /\ proc' \in [Procs -> Request]
    BY <1>19, Ended DEF Push, redis
  <2>2. proc[p].qr \in Qrs /\ proc[p].token \in Tokens
    BY <1>19 DEF Inv, Prepared, Push, At
  <2>. QED
    BY <1>19, <2>1, <2>2 DEF Inv, Push, HandOut, redis, history
<1>20. ASSUME NEW p \in Procs, NEW q \in Qrs, Poll(p, q) PROVE Inv'
  BY <1>0, <1>a, <1>20 DEF Inv, Prepared, Poll, Session, Do, At, Idle,
     Request, Pc, redis, history
<1>21. ASSUME NEW p \in Procs, TakeCode(p) PROVE Inv'
  <2>1. Prepared' /\ proc' \in [Procs -> Request]
    BY <1>21, Ended DEF TakeCode, redis
  <2>2. proc[p].qr \in Qrs /\ proc[p].token \in Tokens
    BY <1>21 DEF Inv, Prepared, TakeCode, At
  <2>3. [qr[proc[p].qr] EXCEPT !.code = None] \in Session
    BY <2>2 DEF Inv, Session
  <2>4. qr' \in [Qrs -> Session]
    BY <1>21, <2>2, <2>3 DEF Inv, TakeCode
  <2>. QED
    BY <1>21, <2>1, <2>2, <2>4 DEF Inv, TakeCode, HandOut, redis
<1>22. ASSUME NEW q \in Qrs, CancelQr(q) PROVE Inv'
  <2>1. qr' \in [Qrs -> Session] /\ Prepared'
    BY <1>22, NewStatus DEF CancelQr, QrStatus, Inv, Prepared, At, redis
  <2>. QED
    BY <1>22, <2>1 DEF Inv, CancelQr, redis, history
<1>23. ASSUME NEW p \in Procs, Abort(p) PROVE Inv'
  <2>1. Prepared' /\ proc' \in [Procs -> Request]
    BY <1>23, Ended DEF Abort, redis
  <2>. QED
    BY <1>23, <2>1 DEF Inv, Abort, Fault, redis, history
<1>24. CASE UNCHANGED vars
  BY <1>24 DEF Inv, Prepared, vars, At, redis, history
<1>. QED
  BY <1>1, <1>2, <1>3, <1>4, <1>5, <1>6, <1>6a, <1>7, <1>8, <1>9, <1>10, <1>11, <1>12,
     <1>13, <1>14, <1>15, <1>16, <1>17, <1>18, <1>19, <1>20, <1>21, <1>22, <1>23, <1>24 DEF Next

(* The invariant of the logins, from which the theorems follow. *)
LEMMA InvHolds == Spec => []Inv
<1>1. Init => Inv
  BY NoneAssumption, FaultAssumption
  DEF Init, Inv, TypeOK, Prepared, At, Idle, Request, Pc, Session, QrStatus, DeviceStatus
<1>. QED
  BY <1>1, InvStep, PTL DEF Spec

(* Every variable has its type; a prolonged token is one that exists.      *)
THEOREM TypeCorrect == Spec => []TypeOK
<1>1. Inv => TypeOK
  BY DEF Inv
<1>. QED
  BY <1>1, InvHolds, PTL

-----------------------------------------------------------------------------
(* Tokens and their index.  A token is released when a client has it, or   *)
(* gets it as the login code of a session; it was indexed before.          *)
Released(t) ==
    \/ t \in held
    \/ \E p \in Procs : proc[p].pc \in {"confirm", "push", "take"} /\ proc[p].token = t
    \/ \E q \in Qrs : qr[q].code = t

ReleasedIsIndexed ==
    \A t \in Tokens : Released(t) =>
        /\ payload[t] # None
        /\ t \in stored => t \in strayed \/ t \in index[payload[t]]

(* Tokens that were not released stay so, and are found where they were.   *)
LEMMA NoneReleased ==
    ASSUME Inv, ReleasedIsIndexed, payload' = payload, stored' \subseteq stored,
           \A t \in Tokens : Released(t)' => Released(t),
           \A t \in Tokens, d \in Devices :
              t \in stored' /\ t \in index[d] => t \in strayed' \/ t \in index'[d],
           strayed \subseteq strayed'
    PROVE  ReleasedIsIndexed'
  BY DEF Inv, Prepared, TypeOK, ReleasedIsIndexed

(* A step that starts, ends or leaves alone a request releases nothing.    *)
LEMMA NotReleasing ==
    ASSUME Inv, held' = held, NEW p \in Procs,
           \A o \in Procs \ {p} : proc'[o] = proc[o],
           \/ proc'[p].pc \notin {"confirm", "push", "take"}
           \/ proc'[p] = proc[p],
           \A q \in Qrs : qr'[q].code = qr[q].code
    PROVE  \A t \in Tokens : Released(t)' => Released(t)
  BY DEF Released

(* Most steps of a request concern neither a login code nor a session.     *)
Quiet(p) ==
    \/ Register(p) \/ Members(p) \/ Renew(p) \/ Prolong(p) \/ Abort(p) \/ DeleteIndex(p)
    \/ \E d \in Devices : Login(p, d) \/ Revoke(p, d)
    \/ \E t \in Tokens : Issue(p, t) \/ Refresh(p, t) \/ DeleteToken(p, t)
    \/ \E q \in Qrs : FindLate(p, q) \/ \E d \in Devices : ScanQr(p, q, d)

(* A quiet step touches no QR session, no code and no token a client holds. *)
LEMMA QuietStep ==
    ASSUME Inv, NEW p \in Procs, Quiet(p)
    PROVE  /\ proc'[p].pc \notin {"confirm", "push", "take"}
           /\ \A o \in Procs \ {p} : proc'[o] = proc[o]
           /\ qr' = qr /\ handed' = handed /\ held' = held
<1>. USE DEF Inv, TypeOK, history
<1>a. proc[p] \in Request
  OBVIOUS
<1>1. CASE Register(p) \/ Members(p) \/ Renew(p)
  BY <1>a, <1>1 DEF Register, Members, Renew, Goto, Request
<1>2. CASE Prolong(p) \/ Abort(p) \/ DeleteIndex(p)
  BY <1>2 DEF Prolong, Abort, DeleteIndex, Finish, Do, Idle
<1>3. ASSUME NEW d \in Devices, Login(p, d)
      PROVE  /\ proc'[p].pc \notin {"confirm", "push", "take"}
             /\ \A o \in Procs \ {p} : proc'[o] = proc[o]
  BY <1>3 DEF Login, Do, Idle
<1>4. ASSUME NEW d \in Devices, Revoke(p, d)
      PROVE  /\ proc'[p].pc \notin {"confirm", "push", "take"}
             /\ \A o \in Procs \ {p} : proc'[o] = proc[o]
  BY <1>4 DEF Revoke, Do, Idle
<1>5. ASSUME NEW t \in Tokens, Issue(p, t)
      PROVE  /\ proc'[p].pc \notin {"confirm", "push", "take"}
             /\ \A o \in Procs \ {p} : proc'[o] = proc[o]
  BY <1>a, <1>5 DEF Issue, Request
<1>6. ASSUME NEW t \in Tokens, Refresh(p, t)
      PROVE  /\ proc'[p].pc \notin {"confirm", "push", "take"}
             /\ \A o \in Procs \ {p} : proc'[o] = proc[o]
  BY <1>6 DEF Refresh, Do, Idle
<1>7. ASSUME NEW t \in Tokens, DeleteToken(p, t)
      PROVE  /\ proc'[p].pc \notin {"confirm", "push", "take"}
             /\ \A o \in Procs \ {p} : proc'[o] = proc[o]
  BY <1>a, <1>7 DEF DeleteToken, At, Request
<1>8. ASSUME NEW q \in Qrs, FindLate(p, q)
      PROVE  /\ proc'[p].pc \notin {"confirm", "push", "take"}
             /\ \A o \in Procs \ {p} : proc'[o] = proc[o]
  BY <1>8 DEF FindLate, Do, Idle
<1>9. ASSUME NEW q \in Qrs, NEW d \in Devices, ScanQr(p, q, d)
      PROVE  /\ proc'[p].pc \notin {"confirm", "push", "take"}
             /\ \A o \in Procs \ {p} : proc'[o] = proc[o]
  BY <1>9 DEF ScanQr, Do, Idle
<1>10. qr' = qr /\ handed' = handed /\ held' = held
  BY DEF Quiet, Login, Revoke, Register, Renew, Prolong, Members, DeleteIndex, Abort, Issue,
     Refresh, DeleteToken, FindLate, ScanQr
<1>. QED
  BY <1>1, <1>2, <1>3, <1>4, <1>5, <1>6, <1>7, <1>8, <1>9, <1>10 DEF Quiet

(* A change of status or of time leaves the login codes. *)
LEMMA OtherFields ==
    ASSUME Inv, NEW q \in Qrs, NEW st, NEW late,
           \/ qr' = [qr EXCEPT ![q].status = st]
           \/ qr' = [qr EXCEPT ![q].late = late]
    PROVE  \A x \in Qrs : qr'[x].code = qr[x].code
<1>1. \A x \in Qrs : qr[x] \in Session
  BY DEF Inv, TypeOK
<1>. QED
  BY <1>1 DEF Session, Inv, TypeOK

(* No step hands a token out before it is indexed. *)
LEMMA ReleasedStep == Inv /\ ReleasedIsIndexed /\ [Next]_vars => ReleasedIsIndexed'
<1>. SUFFICES ASSUME Inv, ReleasedIsIndexed, [Next]_vars PROVE ReleasedIsIndexed'
  OBVIOUS
<1>a. /\ \A p \in Procs : proc[p] \in Request
      /\ \A q \in Qrs : qr[q] \in Session
  BY DEF Inv, TypeOK
<1>1. ASSUME NEW p \in Procs, Quiet(p) PROVE \A t \in Tokens : Released(t)' => Released(t)
  BY <1>1, QuietStep, NotReleasing
<1>2. ASSUME NEW p \in Procs, Quiet(p), ~\E t \in Tokens : Issue(p, t) PROVE ReleasedIsIndexed'
  <2>1. /\ payload' = payload /\ stored' \subseteq stored
        /\ \/ index' = index /\ strayed' = strayed
           \/ DeleteIndex(p)
    BY <1>2 DEF Quiet, Login, Revoke, Register, Renew, Prolong, Members, DeleteIndex, Abort,
       Refresh, DeleteToken, FindLate, ScanQr, Drop, redis, history
  <2>2. CASE index' = index /\ strayed' = strayed
    BY <1>1, <1>2, <2>1, <2>2, NoneReleased
  <2>3. CASE DeleteIndex(p)
    BY <1>1, <1>2, <2>1, <2>3, NoneReleased DEF DeleteIndex, Lose, Inv, TypeOK
  <2>. QED
    BY <2>1, <2>2, <2>3
<1>3. ASSUME NEW p \in Procs, NEW t \in Tokens, Issue(p, t) PROVE ReleasedIsIndexed'
  <2>1. \A x \in Tokens : Released(x)' => Released(x)
    BY <1>1, <1>3 DEF Quiet
  <2>2. ~Released(t)
    BY <1>3 DEF ReleasedIsIndexed, Issue, Fresh
  <2>. QED
    BY <1>3, <2>1, <2>2 DEF ReleasedIsIndexed, Issue, Inv, TypeOK, history
<1>4. ASSUME NEW p \in Procs, Index(p) PROVE ReleasedIsIndexed'
  <2>1. /\ proc[p].token \in Tokens /\ proc[p].device \in Devices
        /\ payload[proc[p].token] = proc[p].device
    BY <1>4 DEF Inv, Prepared, Index, At
  <2>2. \A x \in Tokens : Released(x)' => Released(x) \/ x = proc[p].token
    <3>1. /\ proc'[p] = Idle \/ proc'[p].token = proc[p].token
          /\ \A o \in Procs \ {p} : proc'[o] = proc[o]
      BY <1>4, <1>a DEF Index, Finish, Do, Goto, Request, Inv, TypeOK
    <3>. QED
      BY <1>4, <3>1 DEF Released, Index, Idle
  <2>. QED
    BY <1>4, <2>1, <2>2, NoneAssumption DEF ReleasedIsIndexed, Index, Indexed, Inv, TypeOK
<1>7. ASSUME NEW t \in Tokens, TokenExpires(t) PROVE ReleasedIsIndexed'
  BY <1>7 DEF ReleasedIsIndexed, Released, TokenExpires, Drop, history
<1>8. ASSUME NEW d \in Devices, IndexExpires(d) PROVE ReleasedIsIndexed'
  <2>1. \A x \in Tokens : Released(x)' => Released(x)
    BY <1>8 DEF Released, IndexExpires
  <2>. QED
    BY <1>8, <2>1, NoneReleased DEF IndexExpires, Lose, Inv, TypeOK
<1>9. ASSUME NEW q \in Qrs, CreateQr(q) \/ QrTimesOut(q) \/ CancelQr(q)
      PROVE  ReleasedIsIndexed'
  <2>1. \A x \in Qrs : qr'[x].code = qr[x].code
    BY <1>9, <1>a, OtherFields DEF CreateQr, QrTimesOut, CancelQr
  <2>2. \A x \in Tokens : Released(x)' => Released(x)
    BY <1>9, <2>1 DEF Released, CreateQr, QrTimesOut, CancelQr, history
  <2>. QED
    BY <1>9, <2>2, NoneReleased DEF CreateQr, QrTimesOut, CancelQr, redis, history
<1>11. ASSUME NEW p \in Procs, MarkExpired(p) PROVE ReleasedIsIndexed'
  <2>1. \A x \in Qrs : qr'[x].code = qr[x].code
    BY <1>11, <1>a DEF MarkExpired, Session, Inv, TypeOK
  <2>2. \A x \in Tokens : Released(x)' => Released(x)
    BY <1>11, <2>1, NotReleasing DEF Inv, TypeOK, MarkExpired, Finish, Do, Idle, history
  <2>. QED
    BY <1>11, <2>2, NoneReleased DEF MarkExpired, redis, history
<1>12. ASSUME NEW p \in Procs, ConfirmQr(p) PROVE ReleasedIsIndexed'
  <2>1. \A q \in Qrs : qr'[q].code = qr[q].code \/ qr'[q].code = proc[p].token
    BY <1>12, <1>a DEF ConfirmQr, Session, Inv, TypeOK
  <2>2. \A o \in Procs : proc'[o].pc = "idle"
                           \/ (proc'[o].token = proc[o].token
                                 /\ (proc'[o].pc = proc[o].pc \/ (o = p /\ proc[o].pc = "confirm")))
    BY <1>12, <1>a DEF ConfirmQr, Finish, Do, Goto, At, Idle, Request, Inv, TypeOK
  <2>3. \A x \in Tokens : Released(x)' => Released(x)
    BY <1>12, <2>1, <2>2 DEF Released, ConfirmQr, At, history
  <2>. QED
    BY <1>12, <2>3, NoneReleased DEF ConfirmQr, redis, history
<1>13. ASSUME NEW p \in Procs, Push(p) PROVE ReleasedIsIndexed'
  <2>1. \A x \in Tokens : Released(x)' => Released(x)
    BY <1>13 DEF Released, Push, HandOut, Finish, Do, Idle, At, history, Inv, TypeOK
  <2>. QED
    BY <1>13, <2>1, NoneReleased DEF Push, HandOut, redis, history
<1>14. ASSUME NEW p \in Procs, NEW q \in Qrs, Poll(p, q) PROVE ReleasedIsIndexed'
  <2>1. \A x \in Tokens : Released(x)' => Released(x)
    BY <1>14 DEF Released, Poll, Do, Idle, history, Inv, TypeOK
  <2>. QED
    BY <1>14, <2>1, NoneReleased DEF Poll, redis, history
<1>15. ASSUME NEW p \in Procs, TakeCode(p) PROVE ReleasedIsIndexed'
  <2>1. \A q \in Qrs : qr'[q].code \in {qr[q].code, None}
    BY <1>15, <1>a DEF TakeCode, Session, Inv, TypeOK
  <2>2. \A x \in Tokens : Released(x)' => Released(x)
    BY <1>15, <2>1, NoneAssumption
    DEF Released, TakeCode, HandOut, Finish, Do, Idle, At, Inv, TypeOK
  <2>. QED
    BY <1>15, <2>2, NoneReleased DEF TakeCode, HandOut, redis
<1>16. CASE UNCHANGED vars
  BY <1>16 DEF ReleasedIsIndexed, Released, vars, redis, history
<1>. QED
  BY <1>2, <1>3, <1>4, <1>7, <1>8, <1>9, <1>11, <1>12, <1>13, <1>14, <1>15, <1>16
  DEF Next, Quiet

(* A refresh token in a client's hands that works is in the index of the   *)
(* device it renews, where a revocation finds it, unless the index was     *)
(* lost with it.                                                           *)
THEOREM HeldTokensIndexed == Spec => []HeldIsIndexed
<1>1. Init => ReleasedIsIndexed
  BY NoneAssumption DEF Init, ReleasedIsIndexed, Released, Idle
<1>2. TypeOK /\ ReleasedIsIndexed => HeldIsIndexed
  BY DEF TypeOK, ReleasedIsIndexed, Released, HeldIsIndexed
<1>3. Spec => []TypeOK
  BY TypeCorrect
<1>. QED
  BY <1>1, <1>2, <1>3, InvHolds, ReleasedStep, PTL DEF Spec

-----------------------------------------------------------------------------
(* QR sessions.  A token is out for a session when it was handed out as    *)
(* its login code, or is about to be.                                      *)
Out(q, t) ==
    \/ t \in handed[q] \/ qr[q].code = t
    \/ \E p \in Procs : /\ proc[p].pc \in {"push", "take"}
                        /\ proc[p].qr = q /\ proc[p].token = t

(* At most one token is out for a session, and none before it is confirmed. *)
OneOut ==
    \A q \in Qrs :
        /\ \A t, u \in Tokens : Out(q, t) /\ Out(q, u) => t = u
        /\ \A t \in Tokens : Out(q, t) => qr[q].status = "confirmed"

(* What brings no new token out, and ends no confirmed session, keeps it.  *)
LEMMA NothingOut ==
    ASSUME OneOut,
           \A q \in Qrs, t \in Tokens : Out(q, t)' => Out(q, t),
           \A q \in Qrs : qr[q].status = "confirmed" => qr'[q].status = "confirmed"
    PROVE  OneOut'
  BY DEF OneOut

(* No step hands out a second code of a session. *)
LEMMA OneOutStep == Inv /\ OneOut /\ [Next]_vars => OneOut'
<1>. SUFFICES ASSUME Inv, OneOut, [Next]_vars PROVE OneOut'
  OBVIOUS
<1>a. /\ \A p \in Procs : proc[p] \in Request
      /\ \A q \in Qrs : qr[q] \in Session
  BY DEF Inv, TypeOK
<1>1. ASSUME NEW p \in Procs, handed' = handed, qr' = qr,
             \A o \in Procs : proc'[o].pc \in {"push", "take"} => proc'[o] = proc[o]
      PROVE  OneOut'
  BY <1>1, NothingOut DEF Out
<1>2. ASSUME NEW p \in Procs, Quiet(p) \/ Index(p) PROVE OneOut'
  <2>1. CASE Quiet(p)
    BY <1>1, <2>1, QuietStep
  <2>2. CASE Index(p)
    <3>1. /\ proc'[p].pc \in {"idle", "confirm"}
          /\ \A o \in Procs \ {p} : proc'[o] = proc[o]
      BY <1>a, <2>2 DEF Index, Finish, Do, Goto, Idle, Request, Inv, TypeOK
    <3>. QED
      BY <1>1, <2>2, <3>1 DEF Index
  <2>. QED
    BY <1>2, <2>1, <2>2
<1>3. ASSUME NEW q \in Qrs, CreateQr(q) \/ QrTimesOut(q) \/ CancelQr(q) PROVE OneOut'
  <2>1. \A x \in Qrs : /\ qr'[x].code = qr[x].code
                       /\ qr[x].status = "confirmed" => qr'[x].status = "confirmed"
    BY <1>3, <1>a DEF CreateQr, QrTimesOut, CancelQr, Pending, Session, Inv, TypeOK
  <2>. QED
    BY <1>3, <2>1, NothingOut DEF Out, CreateQr, QrTimesOut, CancelQr, history
<1>4. ASSUME NEW p \in Procs, MarkExpired(p) PROVE OneOut'
  <2>1. \A x \in Qrs : /\ qr'[x].code = qr[x].code
                       /\ qr[x].status = "confirmed" => qr'[x].status = "confirmed"
    BY <1>4, <1>a DEF MarkExpired, Pending, Session, Inv, TypeOK
  <2>2. \A o \in Procs : proc'[o].pc \in {"push", "take"} => proc'[o] = proc[o]
    BY <1>4 DEF MarkExpired, Finish, Do, Idle, Inv, TypeOK
  <2>. QED
    BY <1>4, <2>1, <2>2, NothingOut DEF Out, MarkExpired, history
<1>5. ASSUME NEW p \in Procs, ConfirmQr(p) PROVE OneOut'
  <2>1. CASE ~MayConfirm(proc[p].qr)
    BY <1>5, <2>1, <1>1 DEF ConfirmQr, Finish, Do, Idle, history, Inv, TypeOK
  <2>2. CASE MayConfirm(proc[p].qr)
    <3>1. PICK q \in Qrs, t \in Tokens : q = proc[p].qr /\ t = proc[p].token
      BY <1>5 DEF Inv, Prepared, ConfirmQr, At
    <3>2. \A x \in Tokens : ~Out(q, x)
      BY <2>2, <3>1 DEF OneOut, MayConfirm, InTime, Pending
    <3>3. /\ qr'[q].status = "confirmed" /\ qr'[q].code = t
          /\ \A r \in Qrs \ {q} : qr'[r] = qr[r]
      BY <1>5, <1>a, <2>2, <3>1 DEF ConfirmQr, Session, Inv, TypeOK
    <3>4. \A o \in Procs : proc'[o] = proc[o] \/ (proc'[o].qr = q /\ proc'[o].token = t)
      BY <1>5, <1>a, <2>2, <3>1 DEF ConfirmQr, Goto, Request, Inv, TypeOK
    <3>5. \A x \in Tokens : Out(q, x)' => x = t
      BY <1>5, <3>1, <3>2, <3>3, <3>4 DEF Out, ConfirmQr, history
    <3>6. \A r \in Qrs \ {q}, x \in Tokens : Out(r, x)' => Out(r, x)
      BY <1>5, <3>1, <3>3, <3>4 DEF Out, ConfirmQr, history
    <3>7. ASSUME NEW r \in Qrs, NEW x \in Tokens, NEW y \in Tokens, Out(r, x)', Out(r, y)'
          PROVE  x = y
      <4>1. CASE r = q
        BY <3>5, <3>7, <4>1
      <4>2. CASE r # q
        <5>1. Out(r, x) /\ Out(r, y)
          BY <3>6, <3>7, <4>2
        <5>. QED
          BY <5>1 DEF OneOut
      <4>. QED
        BY <4>1, <4>2
    <3>8. \A r \in Qrs : \A x \in Tokens : Out(r, x)' => qr'[r].status = "confirmed"
      BY <3>3, <3>6 DEF OneOut
    <3>. QED
      BY <3>7, <3>8 DEF OneOut
  <2>. QED
    BY <2>1, <2>2
<1>6. ASSUME NEW p \in Procs, Push(p) PROVE OneOut'
  <2>1. \A q \in Qrs, t \in Tokens : Out(q, t)' => Out(q, t)
    BY <1>6 DEF Out, Push, HandOut, Finish, Do, Idle, At, history, Inv, TypeOK
  <2>. QED
    BY <1>6, <2>1, NothingOut DEF Push
<1>7. ASSUME NEW p \in Procs, NEW q \in Qrs, Poll(p, q) PROVE OneOut'
  <2>1. \A x \in Qrs, t \in Tokens : Out(x, t)' => Out(x, t)
    BY <1>7 DEF Out, Poll, Do, Idle, history, Inv, TypeOK
  <2>. QED
    BY <1>7, <2>1, NothingOut DEF Poll
<1>8. ASSUME NEW p \in Procs, TakeCode(p) PROVE OneOut'
  <2>1. \A q \in Qrs : qr'[q].code \in {qr[q].code, None} /\ qr'[q].status = qr[q].status
    BY <1>8, <1>a DEF TakeCode, Session, Inv, TypeOK
  <2>2. \A q \in Qrs, t \in Tokens : Out(q, t)' => Out(q, t)
    BY <1>8, <2>1, NoneAssumption DEF Out, TakeCode, HandOut, Finish, Do, Idle, At, Inv, TypeOK
  <2>. QED
    BY <2>1, <2>2, NothingOut
<1>9. CASE \/ \E t \in Tokens : TokenExpires(t)
           \/ \E d \in Devices : IndexExpires(d)
           \/ UNCHANGED vars
  BY <1>9, NothingOut DEF Out, TokenExpires, IndexExpires, vars, history
<1>. QED
  BY <1>2, <1>3, <1>4, <1>5, <1>6, <1>7, <1>8, <1>9 DEF Next, Quiet

(* A QR session gives out one login code, and only once it is confirmed.   *)
THEOREM OneLoginCode == Spec => []QrYieldsOne
<1>1. Init => OneOut
  BY NoneAssumption DEF Init, OneOut, Out, Idle
<1>2. TypeOK /\ OneOut => QrYieldsOne
  <2>. SUFFICES ASSUME TypeOK, OneOut, NEW q \in Qrs
                PROVE  /\ \A t, u \in handed[q] : t = u
                       /\ handed[q] # {} => qr[q].status = "confirmed"
                       /\ qr[q].code # None => handed[q] \subseteq {qr[q].code}
    BY DEF QrYieldsOne
  <2>1. handed[q] \subseteq Tokens /\ qr[q].code \in Tokens \cup {None}
    BY DEF TypeOK, Session
  <2>. QED
    BY <2>1 DEF OneOut, Out
<1>3. Spec => []TypeOK
  BY TypeCorrect
<1>. QED
  BY <1>1, <1>2, <1>3, InvHolds, OneOutStep, PTL DEF Spec
=============================================================================
