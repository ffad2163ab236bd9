-------------------------------- MODULE Logins --------------------------------
(***************************************************************************)
(* The login devices of an account, its refresh tokens and the QR login.   *)
(*                                                                         *)
(* A login registers its device in PostgreSQL, then writes a new refresh   *)
(* token to Redis, then adds the token to the index of its device, which a *)
(* revocation of the device reads to find the tokens to delete.  A token   *)
(* lives for thirty days after its last use, the index for thirty days     *)
(* after the last login of the device.  The phone that confirms a QR       *)
(* session makes a new device and a token for it; the token is the login   *)
(* code the other side is pushed, or gets by polling.                      *)
(*                                                                         *)
(* There is one account, and its password, SMS code and status are right.  *)
(***************************************************************************)
EXTENDS Naturals, FiniteSets

CONSTANTS
    Procs,       \* concurrent requests
    Devices,     \* ids of login devices
    Tokens,      \* the UUIDs drawn for refresh tokens, each at most once
    Qrs,         \* QR sessions
    None,        \* no device, token or session
    MaxFaults    \* bound: failures of PostgreSQL, Redis or the process

ASSUME NoneAssumption  == None \notin Devices \cup Tokens \cup Qrs
ASSUME FaultAssumption == MaxFaults \in Nat

VARIABLES
    device,   \* user_devices
    payload,  \* the device in the payload of every token that was drawn
    stored,   \* the tokens whose auth:refresh:<token> key exists
    renewed,  \* the tokens that may outlive the index of their device
    index,    \* auth:refresh:by-device:<device>
    qr,       \* qr_login_sessions
    proc,     \* the request every process serves
    held,     \* history: the tokens a client has been given
    handed,   \* history: the login codes given out for every QR session
    strayed,  \* history: the tokens an index lost while they were stored
    faults    \* number of failures so far

redis   == <<stored, renewed, index>>
history == <<held, handed, strayed>>
vars    == <<device, payload, redis, qr, proc, history, faults>>

-----------------------------------------------------------------------------
DeviceStatus == {"absent", "live", "revoked"}
QrStatus     == {"absent", "pending", "confirmed", "cancelled", "expired"}
Session      == [status : QrStatus, late : BOOLEAN, code : Tokens \cup {None}]

Pc      == {"idle", "register", "issue", "index", "confirm", "push", "renew", "prolong",
            "members", "delete", "take", "expire"}
Request == [pc : Pc, device : Devices \cup {None}, qr : Qrs \cup {None},
            token : Tokens \cup {None}, todo : SUBSET Tokens]

Idle == [pc |-> "idle", device |-> None, qr |-> None, token |-> None, todo |-> {}]

At(p, pc) == proc[p].pc = pc
Do(p, r)  == proc' = [proc EXCEPT ![p] = r]
Finish(p) == Do(p, Idle)
Goto(p, pc) == proc' = [proc EXCEPT ![p].pc = pc]

Fresh(t) == payload[t] = None
Fault    == faults < MaxFaults /\ faults' = faults + 1

Init ==
    /\ device = [d \in Devices |-> "absent"]
    /\ payload = [t \in Tokens |-> None]
    /\ stored = {} /\ renewed = {}
    /\ index = [d \in Devices |-> {}]
    /\ qr = [q \in Qrs |-> [status |-> "absent", late |-> FALSE, code |-> None]]
    /\ proc = [p \in Procs |-> Idle]
    /\ held = {} /\ handed = [q \in Qrs |-> {}] /\ strayed = {}
    /\ faults = 0

-----------------------------------------------------------------------------
(* Logins *)

(* upsert_device: the row is made, or revived. *)
Registered(d) == device' = [device EXCEPT ![d] = "live"]

(* login, login_with_sms *)
Login(p, d) ==
    /\ At(p, "idle")
    /\ Registered(d)
    /\ Do(p, [Idle EXCEPT !.pc = "issue", !.device = d])
    /\ UNCHANGED <<payload, redis, qr, history, faults>>

(* A confirmation registers the device it has made up. *)
Register(p) ==
    /\ At(p, "register")
    /\ Registered(proc[p].device)
    /\ Goto(p, "issue")
    /\ UNCHANGED <<payload, redis, qr, history, faults>>

(* generate_and_store_refresh_token, SETEX *)
Issue(p, t) ==
    /\ At(p, "issue") /\ Fresh(t)
    /\ payload' = [payload EXCEPT ![t] = proc[p].device]
    /\ stored' = stored \cup {t}
    /\ proc' = [proc EXCEPT ![p].pc = "index", ![p].token = t]
    /\ UNCHANGED <<device, renewed, index, qr, history, faults>>

(* Variant: a failure to index the token is ignored. *)
IndexedPerhaps(d, t) ==
    /\ \/ index' = [index EXCEPT ![d] = @ \cup {t}] /\ UNCHANGED faults
       \/ Fault /\ UNCHANGED index
    /\ UNCHANGED renewed

(* SADD, then EXPIRE: when that fails, the index is not kept for longer.   *)
Indexed(d, t) ==
    /\ index' = [index EXCEPT ![d] = @ \cup {t}]
    /\ \/ UNCHANGED <<renewed, faults>>
       \/ Fault /\ renewed' = renewed \cup ({t} \cap stored)

(* A login answers with the token, a confirmation goes on. *)
Index(p) ==
    /\ At(p, "index")
    /\ Indexed(proc[p].device, proc[p].token)
    /\ IF proc[p].qr = None
       THEN Finish(p) /\ held' = held \cup {proc[p].token}
       ELSE Goto(p, "confirm") /\ UNCHANGED held
    /\ UNCHANGED <<device, payload, stored, qr, handed, strayed>>

-----------------------------------------------------------------------------
(* refresh_token: a client uses its token, which exists ... *)
Refresh(p, t) ==
    /\ At(p, "idle") /\ t \in held \cap stored
    /\ Do(p, [Idle EXCEPT !.pc = "renew", !.device = payload[t], !.token = t])
    /\ UNCHANGED <<device, payload, redis, qr, history, faults>>

(* ... the device is registered again, ... *)
Renew(p) ==
    /\ At(p, "renew")
    /\ Registered(proc[p].device)
    /\ Goto(p, "prolong")
    /\ UNCHANGED <<payload, redis, qr, history, faults>>

(* Variant: the token is written again. *)
ProlongedAnyway(t) == renewed' = renewed \cup {t}

(* EXPIRE does nothing to a key that is gone. *)
Prolonged(t) == renewed' = renewed \cup ({t} \cap stored)

(* ... and the token prolonged. *)
Prolong(p) ==
    /\ At(p, "prolong")
    /\ Prolonged(proc[p].token)
    /\ Finish(p)
    /\ UNCHANGED <<device, payload, stored, index, qr, history, faults>>

-----------------------------------------------------------------------------
(* revoke_device: the row, ... *)
Revoke(p, d) ==
    /\ At(p, "idle") /\ device[d] = "live"
    /\ device' = [device EXCEPT ![d] = "revoked"]
    /\ Do(p, [Idle EXCEPT !.pc = "members", !.device = d])
    /\ UNCHANGED <<payload, redis, qr, history, faults>>

(* ... the tokens of its index, none when Redis fails, ... *)
Members(p) ==
    /\ At(p, "members")
    /\ \E S \in {index[proc[p].device], {}} :
         /\ IF S = index[proc[p].device] THEN UNCHANGED faults ELSE Fault
         /\ proc' = [proc EXCEPT ![p].pc = "delete", ![p].todo = S]
    /\ UNCHANGED <<device, payload, redis, qr, history>>

Drop(t) == stored' = stored \ {t} /\ renewed' = renewed \ {t}

(* ... which are deleted one by one, a failure being ignored, ... *)
DeleteToken(p, t) ==
    /\ At(p, "delete") /\ t \in proc[p].todo
    /\ \/ Drop(t) /\ UNCHANGED faults
       \/ Fault /\ UNCHANGED <<stored, renewed>>
    /\ proc' = [proc EXCEPT ![p].todo = @ \ {t}]
    /\ UNCHANGED <<device, payload, index, qr, history>>

Lose(d) ==
    /\ index' = [index EXCEPT ![d] = {}]
    /\ strayed' = strayed \cup (index[d] \cap stored)

(* ... and the index. *)
DeleteIndex(p) ==
    /\ At(p, "delete") /\ proc[p].todo = {}
    /\ \/ Lose(proc[p].device) /\ UNCHANGED faults
       \/ Fault /\ UNCHANGED <<index, strayed>>
    /\ Finish(p)
    /\ UNCHANGED <<device, payload, stored, renewed, qr, held, handed>>

-----------------------------------------------------------------------------
(* Thirty days *)

TokenExpires(t) ==
    /\ t \in stored
    /\ Drop(t)
    /\ UNCHANGED <<device, payload, index, qr, proc, history, faults>>

(* The index outlives the tokens nobody has used since they were issued,   *)
(* if it was prolonged with them.                                          *)
IndexExpires(d) ==
    /\ index[d] # {} /\ index[d] \cap stored \subseteq renewed
    /\ Lose(d)
    /\ UNCHANGED <<device, payload, stored, renewed, qr, proc, held, handed, faults>>

-----------------------------------------------------------------------------
(* QR login *)

Pending(q) == qr[q].status = "pending"
InTime(q)  == Pending(q) /\ ~qr[q].late

CreateQr(q) ==
    /\ qr[q].status = "absent"
    /\ qr' = [qr EXCEPT ![q].status = "pending"]
    /\ UNCHANGED <<device, payload, redis, proc, history, faults>>

(* Five minutes have passed. *)
QrTimesOut(q) ==
    /\ InTime(q)
    /\ qr' = [qr EXCEPT ![q].late = TRUE]
    /\ UNCHANGED <<device, payload, redis, proc, history, faults>>

(* A poll or a confirmation that finds the session late. *)
FindLate(p, q) ==
    /\ At(p, "idle") /\ Pending(q) /\ qr[q].late
    /\ Do(p, [Idle EXCEPT !.pc = "expire", !.qr = q])
    /\ UNCHANGED <<device, payload, redis, qr, history, faults>>

(* mark_expired_if_needed *)
MarkExpired(p) ==
    /\ At(p, "expire")
    /\ qr' = IF Pending(proc[p].qr) /\ qr[proc[p].qr].late
             THEN [qr EXCEPT ![proc[p].qr].status = "expired"] ELSE qr
    /\ Finish(p)
    /\ UNCHANGED <<device, payload, redis, history, faults>>

(* confirm_session reads the session and makes up a device. *)
ScanQr(p, q, d) ==
    /\ At(p, "idle") /\ InTime(q)
    /\ device[d] = "absent" /\ \A o \in Procs : proc[o].device # d
    /\ Do(p, [Idle EXCEPT !.pc = "register", !.qr = q, !.device = d])
    /\ UNCHANGED <<device, payload, redis, qr, history, faults>>

(* Variant: the session is only looked at when it is scanned. *)
MayConfirmAnyway(q) == qr[q].status # "absent"

(* The condition of the UPDATE of QrLoginStore::confirm. *)
MayConfirm(q) == InTime(q)

ConfirmQr(p) ==
    /\ At(p, "confirm")
    /\ IF MayConfirm(proc[p].qr)
       THEN /\ qr' = [qr EXCEPT ![proc[p].qr].status = "confirmed",
                                ![proc[p].qr].code = proc[p].token]
            /\ Goto(p, "push")
       ELSE Finish(p) /\ UNCHANGED qr
    /\ UNCHANGED <<device, payload, redis, history, faults>>

HandOut(q, t) ==
    /\ handed' = [handed EXCEPT ![q] = @ \cup {t}]
    /\ held' = held \cup {t}
    /\ UNCHANGED strayed

(* send_to_qr: a connection of this node may listen. *)
Push(p) ==
    /\ At(p, "push")
    /\ HandOut(proc[p].qr, proc[p].token) \/ UNCHANGED history
    /\ Finish(p)
    /\ UNCHANGED <<device, payload, redis, qr, faults>>

(* get_session of a confirmed session: consume_login_code reads the code   *)
(* and removes it in a second statement.                                   *)
Poll(p, q) ==
    /\ At(p, "idle") /\ qr[q].status = "confirmed" /\ qr[q].code # None
    /\ Do(p, [Idle EXCEPT !.pc = "take", !.qr = q, !.token = qr[q].code])
    /\ UNCHANGED <<device, payload, redis, qr, history, faults>>

TakeCode(p) ==
    /\ At(p, "take")
    /\ qr' = [qr EXCEPT ![proc[p].qr].code = None]
    /\ HandOut(proc[p].qr, proc[p].token)
    /\ Finish(p)
    /\ UNCHANGED <<device, payload, redis, faults>>

CancelQr(q) ==
    /\ Pending(q)
    /\ qr' = [qr EXCEPT ![q].status = "cancelled"]
    /\ UNCHANGED <<device, payload, redis, proc, history, faults>>

-----------------------------------------------------------------------------
(* A statement fails and the request with it, or its process stops.        *)
Abort(p) ==
    /\ ~At(p, "idle") /\ Fault
    /\ Finish(p)
    /\ UNCHANGED <<device, payload, redis, qr, history>>

Next ==
    \/ \E p \in Procs :
         \/ Register(p) \/ Index(p) \/ Renew(p) \/ Prolong(p) \/ Members(p) \/ DeleteIndex(p)
         \/ MarkExpired(p) \/ ConfirmQr(p) \/ Push(p) \/ TakeCode(p) \/ Abort(p)
         \/ \E d \in Devices : Login(p, d) \/ Revoke(p, d)
         \/ \E t \in Tokens : Issue(p, t) \/ Refresh(p, t) \/ DeleteToken(p, t)
         \/ \E q \in Qrs : FindLate(p, q) \/ Poll(p, q) \/ \E d \in Devices : ScanQr(p, q, d)
    \/ \E t \in Tokens : TokenExpires(t)
    \/ \E d \in Devices : IndexExpires(d)
    \/ \E q \in Qrs : CreateQr(q) \/ QrTimesOut(q) \/ CancelQr(q)

Spec == Init /\ [][Next]_vars

-----------------------------------------------------------------------------
TypeOK ==
    /\ device \in [Devices -> DeviceStatus]
    /\ payload \in [Tokens -> Devices \cup {None}]
    /\ stored \subseteq Tokens /\ renewed \subseteq stored
    /\ index \in [Devices -> SUBSET Tokens]
    /\ qr \in [Qrs -> Session]
    /\ proc \in [Procs -> Request]
    /\ held \subseteq Tokens /\ strayed \subseteq Tokens
    /\ handed \in [Qrs -> SUBSET Tokens]
    /\ faults \in 0 .. MaxFaults

(* A refresh token in a client's hands that works is in the index of the   *)
(* device it renews, where a revocation finds it; only an index that       *)
(* expired, or that a revocation deleted with tokens in it, has lost any.  *)
HeldIsIndexed ==
    \A t \in held \cap stored : t \in strayed \/ t \in index[payload[t]]

(* However many phones confirm a QR session, and whoever cancels it: the   *)
(* login codes it gives out, by push and by polls, are one, and it is the  *)
(* one of a session that was confirmed.                                    *)
QrYieldsOne ==
    \A q \in Qrs : /\ \A t, u \in handed[q] : t = u
                   /\ handed[q] # {} => qr[q].status = "confirmed"
                   /\ qr[q].code # None => handed[q] \subseteq {qr[q].code}

(* "撤销设备后，该设备的 refresh token 立即失效": once a revocation is done,  *)
(* and nothing else is under way, no token of the device works.            *)
RevokedIsOut ==
    (\A p \in Procs : At(p, "idle"))
        => \A t \in held \cap stored : device[payload[t]] # "revoked"
=============================================================================
