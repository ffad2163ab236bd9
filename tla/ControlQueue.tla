---------------------------- MODULE ControlQueue ----------------------------
(***************************************************************************)
(* What the control plane promises about the queues of control messages:   *)
(* every accepted message is decided and appended in one instant, against  *)
(* the epoch row and the queues of that instant.  Requests, row locks,     *)
(* roll-backs and retries are not seen.  E2eeControl implements it.        *)
(***************************************************************************)
EXTENDS Naturals

CONSTANT Rooms

VARIABLES
    epoch,   \* the epoch row of every room
    log      \* the queue of every room, a set ordered by seq

queues == <<epoch, log>>

Init ==
    /\ epoch = [r \in Rooms |-> [revision |-> 1, active |-> 0, status |-> "preparing"]]
    /\ log = [r \in Rooms |-> {}]

(* Neither the id nor, in its room, the key or a later place is taken.     *)
New(r, m) ==
    /\ \A q \in Rooms : \A x \in log[q] : x.id # m.id
    /\ \A x \in log[r] : x.key # m.key /\ x.seq < m.seq

Append(r, m) ==
    /\ New(r, m)
    /\ m.revision = epoch[r].revision
    /\ log' = [log EXCEPT ![r] = @ \cup {m}]

(* A Commit opens the next epoch and makes the room active. *)
Commit(r, m) ==
    /\ m.kind = "commit" /\ m.epoch = epoch[r].active + 1
    /\ Append(r, m)
    /\ epoch' = [epoch EXCEPT ![r].active = m.epoch, ![r].status = "active"]

(* A Welcome is for the epoch that is active. *)
Welcome(r, m) ==
    /\ m.kind = "welcome" /\ m.epoch = epoch[r].active /\ m.epoch > 0
    /\ Append(r, m)
    /\ UNCHANGED epoch

(* The members of the room change: an active room has to rekey.            *)
Change(r) ==
    /\ epoch'[r].revision > epoch[r].revision
    /\ epoch' = [epoch EXCEPT ![r] =
                    [revision |-> epoch'[r].revision, active |-> @.active,
                     status |-> IF @.status = "active" THEN "rekey_required" ELSE @.status]]
    /\ UNCHANGED log

(* A device changes: some rooms have to rekey. *)
Rekey ==
    /\ \E S \in SUBSET Rooms :
          epoch' = [r \in Rooms |-> IF r \in S THEN [epoch[r] EXCEPT !.status = "rekey_required"]
                                    ELSE epoch[r]]
    /\ UNCHANGED log

(* A message is looked for where it has been appended: ids, keys and       *)
(* devices are of no concern here.                                         *)
Next ==
    \/ \E r \in Rooms : \E m \in log'[r] : Commit(r, m) \/ Welcome(r, m)
    \/ \E r \in Rooms : Change(r)
    \/ Rekey

Spec == Init /\ [][Next]_queues
=============================================================================
