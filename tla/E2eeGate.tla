------------------------------ MODULE E2eeGate ------------------------------
(***************************************************************************)
(* The gate that switches the message service to end-to-end encryption:    *)
(* the row e2ee_runtime_gate, the setting message_content_audit_mode the   *)
(* senders obey, and the readiness of the devices.                         *)
(*                                                                         *)
(* Preparing and activating read the gate, evaluate the readiness in three *)
(* more statements and write at last, without a lock between the reads and *)
(* the write; rollback and the settings endpoint are single transactions.  *)
(***************************************************************************)
EXTENDS Naturals, FiniteSets

CONSTANTS
    Admins,       \* concurrent requests of administrators
    Devices,
    Compliant,    \* the devices registered with a sufficient client version
    Required,     \* required_coverage_percent
    MaxRevision   \* bound: readiness_revision at which requests still start

ASSUME CompliantAssumption == Compliant \subseteq Devices
ASSUME LimitsAssumption    == Required \in 1 .. 100 /\ MaxRevision \in Nat

VARIABLES
    gate,       \* e2ee_runtime_gate: state and readiness_revision
    review,     \* security_review_approved
    storage,    \* message_server_storage_mode
    audit,      \* message_content_audit_mode
    pending,    \* devices waiting for approval
    active,     \* active devices
    stocked,    \* devices whose KeyPackages reach the low watermark
    req,        \* req[a]: the request of administrator a
    lasting     \* history: the reasons that have blocked the activation
                \* request of a ever since it began

devices == <<pending, active, stocked>>
vars == <<gate, review, storage, audit, devices, req, lasting>>

-----------------------------------------------------------------------------
GateState == {"plaintext", "prepare", "active"}
Reason == {"devices", "coverage", "inventory", "pending", "review"}

(* A request: the revision it has read and the reasons found so far. *)
Request == [pc : {"idle", "prepare", "capabilities", "inventory", "approvals", "decide"},
            revision : Nat, blocked : SUBSET Reason]

Idle == [pc |-> "idle", revision |-> 0, blocked |-> {}]

Init ==
    /\ gate = [state |-> "plaintext", revision |-> 0]
    /\ review = "open"
    /\ storage \in {"persist", "relay_only"}
    /\ audit = "plaintext"
    /\ pending = {} /\ active = {} /\ stocked = {}
    /\ req = [a \in Admins |-> Idle]
    /\ lasting = [a \in Admins |-> {}]

(* coverage_percent, an integer division *)
Coverage == (Cardinality(active \cap Compliant) * 100) \div Cardinality(active)

(* compute_readiness reads the capabilities, the inventory and the pending *)
(* approvals one after the other.                                          *)
CapabilityReasons == IF active = {} THEN {"devices"}
                     ELSE IF Coverage < Required THEN {"coverage"} ELSE {}

(* Variant: one stocked device is enough. *)
InventoryReasonsAny == IF active # {} /\ active \cap stocked = {} THEN {"inventory"} ELSE {}

InventoryReasons == IF active \subseteq stocked THEN {} ELSE {"inventory"}

PendingReasons == IF pending = {} THEN {} ELSE {"pending"}

ReviewReasons == IF review = "approved" THEN {} ELSE {"review"}

(* What should block the activation at this moment: every active device    *)
(* has KeyPackages, and so on.                                             *)
Blockers == CapabilityReasons \cup PendingReasons \cup ReviewReasons
                \cup (IF active \subseteq stocked THEN {} ELSE {"inventory"})

Observe == lasting' = [a \in Admins |-> lasting[a] \cap Blockers']

Forget(a) == lasting' = [lasting EXCEPT ![a] = {}]

-----------------------------------------------------------------------------
(* prepare_e2ee_runtime; the readiness it computes is only shown. *)
PrepareBegin(a) ==
    /\ req[a].pc = "idle" /\ gate.revision < MaxRevision
    /\ req' = [req EXCEPT ![a] = [pc |-> "prepare", revision |-> gate.revision,
                                  blocked |-> {}]]
    /\ UNCHANGED <<gate, review, storage, audit, devices, lasting>>

PrepareFinish(a) ==
    /\ req[a].pc = "prepare"
    /\ gate' = [state |-> "prepare", revision |-> req[a].revision + 1]
    /\ req' = [req EXCEPT ![a] = Idle]
    /\ UNCHANGED <<review, storage, audit, devices, lasting>>

-----------------------------------------------------------------------------
(* active_e2ee_runtime: read_gate, which includes the review. *)
ActivateBegin(a) ==
    /\ req[a].pc = "idle" /\ gate.revision < MaxRevision
    /\ gate.state = "prepare"
    /\ req' = [req EXCEPT ![a] = [pc |-> "capabilities", revision |-> gate.revision,
                                  blocked |-> ReviewReasons]]
    /\ lasting' = [lasting EXCEPT ![a] = Blockers]
    /\ UNCHANGED <<gate, review, storage, audit, devices>>

Evaluate(a, from, to, reasons) ==
    /\ req[a].pc = from
    /\ LET t == req[a]
       IN  req' = [req EXCEPT ![a] = [t EXCEPT !.pc = to, !.blocked = t.blocked \cup reasons]]
    /\ UNCHANGED <<gate, review, storage, audit, devices, lasting>>

ReadCapabilities(a) == Evaluate(a, "capabilities", "inventory", CapabilityReasons)
ReadInventory(a)    == Evaluate(a, "inventory", "approvals", InventoryReasons)
ReadApprovals(a)    == Evaluate(a, "approvals", "decide", PendingReasons)

(* Variants: the state is left to the preparation, or takes the name of    *)
(* the audit mode.                                                         *)
ActiveGateRevised(a) == [state |-> gate.state, revision |-> req[a].revision + 1]
ActiveGateNamed(a)   == [state |-> "e2ee", revision |-> req[a].revision + 1]

(* activate_gate_transaction writes what was computed from the first read. *)
ActiveGate(a) == [state |-> "active", revision |-> req[a].revision + 1]

ActivateFinish(a) ==
    /\ req[a].pc = "decide" /\ req[a].blocked = {}
    /\ gate' = ActiveGate(a)
    /\ audit' = "e2ee"
    /\ req' = [req EXCEPT ![a] = Idle]
    /\ Forget(a)
    /\ UNCHANGED <<review, storage, devices>>

(* A blocking reason is answered with a conflict, or a statement fails     *)
(* before the write.                                                       *)
RequestEnds(a) ==
    /\ req[a].pc # "idle"
    /\ req' = [req EXCEPT ![a] = Idle]
    /\ Forget(a)
    /\ UNCHANGED <<gate, review, storage, audit, devices>>

-----------------------------------------------------------------------------
(* rollback_gate_transaction *)
Rollback ==
    /\ gate' = [gate EXCEPT !.state = "plaintext"]
    /\ audit' = "plaintext"
    /\ UNCHANGED <<review, storage, devices, req, lasting>>

(* update_message_runtime_settings: e2ee is refused, both keys are written.*)
UpdateRuntime(mode) ==
    /\ storage' = mode
    /\ audit' = "plaintext"
    /\ UNCHANGED <<gate, review, devices, req, lasting>>

(* mark_security_review *)
MarkReview(value) ==
    /\ review' = value
    /\ UNCHANGED <<gate, storage, audit, devices, req>>
    /\ Observe

(* register_device, approve_device and revoke_device, publishing and       *)
(* claiming KeyPackages, as far as the readiness sees them.                *)
Register(d) ==
    /\ d \notin pending \cup active
    /\ \/ pending' = pending \cup {d} /\ UNCHANGED active
       \/ active' = active \cup {d} /\ UNCHANGED pending
    /\ stocked' = stocked \ {d}
    /\ UNCHANGED <<gate, review, storage, audit, req>>
    /\ Observe

Approve(d) ==
    /\ d \in pending
    /\ pending' = pending \ {d} /\ active' = active \cup {d}
    /\ UNCHANGED <<stocked, gate, review, storage, audit, req>>
    /\ Observe

Revoke(d) ==
    /\ d \in active
    /\ active' = active \ {d}
    /\ UNCHANGED <<pending, stocked, gate, review, storage, audit, req>>
    /\ Observe

Stock(d) ==
    /\ d \in active
    /\ stocked' = IF d \in stocked THEN stocked \ {d} ELSE stocked \cup {d}
    /\ UNCHANGED <<pending, active, gate, review, storage, audit, req>>
    /\ Observe

-----------------------------------------------------------------------------
Administer(a) ==
    \/ PrepareBegin(a)
    \/ PrepareFinish(a)
    \/ ActivateBegin(a)
    \/ ReadCapabilities(a)
    \/ ReadInventory(a)
    \/ ReadApprovals(a)
    \/ ActivateFinish(a)
    \/ RequestEnds(a)

Next ==
    \/ \E a \in Admins : Administer(a)
    \/ Rollback
    \/ \E mode \in {"persist", "relay_only"} : UpdateRuntime(mode)
    \/ \E value \in {"open", "approved"} : MarkReview(value)
    \/ \E d \in Devices : Register(d) \/ Approve(d) \/ Revoke(d) \/ Stock(d)

Spec == Init /\ [][Next]_vars

-----------------------------------------------------------------------------
(* Properties *)

(* The gate, the settings and the requests have their shapes. *)
TypeOK ==
    /\ gate \in [state : GateState, revision : Nat]
    /\ review \in {"open", "approved"}
    /\ storage \in {"persist", "relay_only"}
    /\ audit \in {"plaintext", "e2ee"}
    /\ pending \subseteq Devices /\ active \subseteq Devices /\ stocked \subseteq Devices
    /\ req \in [Admins -> Request]
    /\ lasting \in [Admins -> SUBSET Reason]

(* Senders are told to encrypt only while the gate is not plaintext: no    *)
(* order of rollbacks, activations and settings leaves encryption on with  *)
(* the gate rolled back.                                                   *)
EncryptedOnlyGated == audit = "e2ee" => gate.state # "plaintext"

(* A reason to refuse that lasts from the first read of the gate to the    *)
(* activation stops it, whatever else changes between the reads.           *)
SteadyBlockerStops ==
    [][\A a \in Admins : ActivateFinish(a) => lasting[a] = {}]_vars
=============================================================================
