------------------------------ MODULE PushQueue ------------------------------
(***************************************************************************)
(* The queue of push notifications: the table push_job_queue, the worker   *)
(* loop every API node runs over it, and the registrations of push devices *)
(* a job is sent to.                                                       *)
(*                                                                         *)
(* A claim pushes next_run_at into the future, which is the only thing     *)
(* that keeps other nodes away: it is a lease that nobody renews and no    *)
(* mark_* statement checks.  Time is abstract: a job is due or not, and    *)
(* becomes due again at any moment after a claim or a retry.               *)
(***************************************************************************)
EXTENDS Naturals, FiniteSets

CONSTANTS
    Jobs,
    Malformed,    \* the jobs whose payload or type cannot be parsed
    Nodes,        \* API processes
    Devices,      \* push devices the jobs are for
    MaxAttempts,  \* PUSH_DB_QUEUE_MAX_ATTEMPTS
    BatchSize,    \* PUSH_DB_QUEUE_BATCH_SIZE
    Concurrency,  \* PUSH_DB_QUEUE_CONCURRENCY
    MaxTokens,    \* bound: tokens a device registers
    MaxFaults     \* bound: node crashes and failed mark_* statements

ASSUME MalformedAssumption == Malformed \subseteq Jobs
ASSUME NodesAssumption     == IsFiniteSet(Nodes)
ASSUME LimitsAssumption    ==
    /\ MaxAttempts \in Nat \ {0} /\ BatchSize \in Nat \ {0} /\ Concurrency \in Nat \ {0}
    /\ MaxTokens \in Nat /\ MaxFaults \in Nat

VARIABLES
    queue,    \* push_job_queue
    due,      \* the jobs whose next_run_at has passed
    token,    \* push_devices.device_token, numbered
    active,   \* push_devices with is_active
    run,      \* run[n][j]: what node n does with job j of its batch
    faults    \* number of crashes and failed statements so far

vars == <<queue, due, token, active, run, faults>>

-----------------------------------------------------------------------------
JobStatus == {"absent", "pending", "done", "failed", "retry", "deleted"}

JobRow == [status : JobStatus, attempts : Nat]

(* A job of a batch: its attempts as claimed, the devices still to be sent *)
(* to with the token they had, those whose token the provider refused.     *)
Run == [pc : {"free", "claimed", "sending", "done", "retry", "failed"}, attempts : Nat,
        todo : SUBSET (Devices \X Nat), refused : SUBSET (Devices \X Nat)]

Free == [pc |-> "free", attempts |-> 0, todo |-> {}, refused |-> {}]

Claimable(j) == queue[j].status \in {"pending", "retry"} /\ j \in due

Init ==
    /\ queue = [j \in Jobs |-> [status |-> "absent", attempts |-> 0]]
    /\ due = {}
    /\ token = [d \in Devices |-> 1]
    /\ active = Devices
    /\ run = [n \in Nodes |-> [j \in Jobs |-> Free]]
    /\ faults = 0

-----------------------------------------------------------------------------
(* enqueue_push_job_to_db, when pushing is enabled and configured. *)
Enqueue(j) ==
    /\ queue[j].status = "absent"
    /\ queue' = [queue EXCEPT ![j] = [status |-> "pending", attempts |-> 0]]
    /\ due' = due \cup {j}
    /\ UNCHANGED <<token, active, run, faults>>

(* NOW() passes next_run_at. *)
BecomeDue(j) ==
    /\ queue[j].status \in {"pending", "retry"} /\ j \notin due
    /\ due' = due \cup {j}
    /\ UNCHANGED <<queue, token, active, run, faults>>

(* claim_due_jobs, called once the previous batch of the node is finished. *)
(* SKIP LOCKED may pass over any row another statement is working on.      *)
Claim(n, batch) ==
    /\ \A j \in Jobs : run[n][j] = Free
    /\ batch # {} /\ Cardinality(batch) <= BatchSize
    /\ \A j \in batch : Claimable(j)
    /\ due' = due \ batch
    /\ run' = [run EXCEPT ![n] = [j \in Jobs |->
                  IF j \in batch
                  THEN [Free EXCEPT !.pc = "claimed", !.attempts = queue[j].attempts]
                  ELSE Free]]
    /\ UNCHANGED <<queue, token, active, faults>>

-----------------------------------------------------------------------------
(* One job of the batch *)

(* Variant: the job is given up before its last attempt. *)
ExhaustedEarly(attempts) == attempts + 1 >= MaxAttempts

(* Variant: the job gets one attempt more than allowed. *)
ExhaustedLate(attempts) == attempts > MaxAttempts

Exhausted(attempts) == attempts >= MaxAttempts

(* for_each_concurrent starts the jobs of the batch, a few at a time. *)
Start(n, j) ==
    /\ run[n][j].pc = "claimed"
    /\ Cardinality({k \in Jobs : run[n][k].pc \notin {"free", "claimed"}}) < Concurrency

GiveUp(n, j) ==
    /\ Start(n, j)
    /\ Exhausted(run[n][j].attempts) \/ j \in Malformed
    /\ run' = [run EXCEPT ![n][j] = [@ EXCEPT !.pc = "failed"]]
    /\ UNCHANGED <<queue, due, token, active, faults>>

(* notify_*: a read of the database fails, or pushing is disabled by now,  *)
(* the room is gone or everybody is online, or there are devices to send   *)
(* to.                                                                     *)
Notify(n, j, outcome) ==
    /\ Start(n, j)
    /\ ~Exhausted(run[n][j].attempts) /\ j \notin Malformed
    /\ outcome = "sending" => active # {}
    /\ LET targets == {<<d, token[d]>> : d \in active}
       IN  run' = [run EXCEPT ![n][j] =
                      [@ EXCEPT !.pc = outcome,
                                !.todo = IF outcome = "sending" THEN targets ELSE {}]]
    /\ UNCHANGED <<queue, due, token, active, faults>>

(* send_*_to_token_with_retry: up to three tries of one device; *)
(* it is over when one is accepted, and when all have failed.              *)
Sent(w, t, outcome) ==
    [w EXCEPT !.todo = w.todo \ {t},
              !.refused = w.refused \cup (IF outcome = "refused" THEN {t} ELSE {})]

SendToDevice(n, j, t, outcome) ==
    /\ run[n][j].pc = "sending"
    /\ t \in run[n][j].todo
    /\ run' = [run EXCEPT ![n][j] = Sent(@, t, outcome)]
    /\ UNCHANGED <<queue, due, token, active, faults>>

(* deactivate_device, by the id of the device; its failure is only logged. *)
DeactivateDevice(n, j, t) ==
    /\ run[n][j].pc = "sending"
    /\ t \in run[n][j].refused
    /\ active' \in {active, active \ {t[1]}}
    /\ LET w == run[n][j]
       IN  run' = [run EXCEPT ![n][j] = [w EXCEPT !.refused = w.refused \ {t}]]
    /\ UNCHANGED <<queue, due, token, faults>>

FinishSending(n, j) ==
    /\ run[n][j].pc = "sending" /\ run[n][j].todo = {} /\ run[n][j].refused = {}
    /\ run' = [run EXCEPT ![n][j] = [@ EXCEPT !.pc = "done"]]
    /\ UNCHANGED <<queue, due, token, active, faults>>

(* Variant: a successful run gives its attempt back. *)
MarkedRefund(row, outcome) ==
    [status |-> outcome,
     attempts |-> IF outcome = "done" THEN row.attempts - 1 ELSE row.attempts + 1]

(* Variant: a retry is not counted. *)
MarkedUncounted(row, outcome) ==
    IF row.status \in {"absent", "deleted"} THEN row
    ELSE [status |-> outcome, attempts |-> row.attempts]

(* mark_done, mark_retry and mark_failed: UPDATE ... WHERE id = $1, so they *)
(* overwrite whatever another node has written; a deleted row stays gone.  *)
Marked(row, outcome) ==
    IF row.status \in {"absent", "deleted"} THEN row
    ELSE [status |-> outcome,
          attempts |-> IF outcome = "done" THEN row.attempts ELSE row.attempts + 1]

Mark(n, j) ==
    /\ run[n][j].pc \in {"done", "retry", "failed"}
    /\ queue' = [queue EXCEPT ![j] = Marked(@, run[n][j].pc)]
    /\ due' = IF run[n][j].pc = "retry" THEN due \ {j} ELSE due
    /\ run' = [run EXCEPT ![n][j] = Free]
    /\ UNCHANGED <<token, active, faults>>

(* The result of the mark_* statement is ignored, also when it is an error. *)
MarkFails(n, j) ==
    /\ run[n][j].pc \in {"done", "retry", "failed"}
    /\ faults < MaxFaults
    /\ run' = [run EXCEPT ![n][j] = Free]
    /\ faults' = faults + 1
    /\ UNCHANGED <<queue, due, token, active>>

Crash(n) ==
    /\ \E j \in Jobs : run[n][j] # Free
    /\ faults < MaxFaults
    /\ run' = [run EXCEPT ![n] = [j \in Jobs |-> Free]]
    /\ faults' = faults + 1
    /\ UNCHANGED <<queue, due, token, active>>

-----------------------------------------------------------------------------
(* cleanup_done_failed_batch, after the retention time. *)
Cleanup(j) ==
    /\ queue[j].status \in {"done", "failed"}
    /\ queue' = [queue EXCEPT ![j] = [@ EXCEPT !.status = "deleted"]]
    /\ UNCHANGED <<due, token, active, run, faults>>

(* upsert_device with a token the app has just got, and deactivate_device *)
(* on behalf of the app.                                                   *)
RegisterDevice(d) ==
    /\ token[d] < MaxTokens
    /\ token' = [token EXCEPT ![d] = @ + 1]
    /\ active' = active \cup {d}
    /\ UNCHANGED <<queue, due, run, faults>>

UnregisterDevice(d) ==
    /\ d \in active
    /\ active' = active \ {d}
    /\ UNCHANGED <<queue, due, token, run, faults>>

-----------------------------------------------------------------------------
Work(n, j) ==
    \/ GiveUp(n, j)
    \/ \E outcome \in {"done", "retry", "sending"} : Notify(n, j, outcome)
    \/ \E t \in run[n][j].todo, outcome \in {"over", "refused"} :
          SendToDevice(n, j, t, outcome)
    \/ \E t \in run[n][j].refused : DeactivateDevice(n, j, t)
    \/ FinishSending(n, j)
    \/ Mark(n, j)

Next ==
    \/ \E j \in Jobs : Enqueue(j) \/ BecomeDue(j) \/ Cleanup(j)
    \/ \E n \in Nodes, batch \in SUBSET Jobs : Claim(n, batch)
    \/ \E n \in Nodes, j \in Jobs : Work(n, j) \/ MarkFails(n, j)
    \/ \E n \in Nodes : Crash(n)
    \/ \E d \in Devices : RegisterDevice(d) \/ UnregisterDevice(d)

Spec == Init /\ [][Next]_vars

(* Fairness.  A node goes on with the jobs of its batch, next_run_at is    *)
(* reached some day, and a claim takes the jobs that are due for longest   *)
(* first, so a job that is due again and again is claimed in the end.      *)
Fairness ==
    /\ \A n \in Nodes, j \in Jobs : WF_vars(Work(n, j))
    /\ \A j \in Jobs : WF_vars(BecomeDue(j))
    /\ \A j \in Jobs : SF_vars(\E n \in Nodes, batch \in SUBSET Jobs :
                                 j \in batch /\ Claim(n, batch))

FairSpec == Spec /\ Fairness

-----------------------------------------------------------------------------
(* Properties *)

(* Rows, registrations and the work of the nodes have their shapes. *)
TypeOK ==
    /\ queue \in [Jobs -> JobRow]
    /\ due \subseteq Jobs
    /\ token \in [Devices -> Nat]
    /\ active \subseteq Devices
    /\ run \in [Nodes -> [Jobs -> Run]]
    /\ faults \in Nat

(* A job that can be processed is failed only after more than MaxAttempts  *)
(* counted attempts, although the node that gives up decides by the number *)
(* it read when it claimed the job, and other nodes count meanwhile.       *)
GivenUpExhausted ==
    \A j \in Jobs \ Malformed :
        queue[j].status = "failed" => queue[j].attempts > MaxAttempts

(* The attempts of a job are bounded although leases run out while nodes   *)
(* still work, and a late mark_retry brings a failed job back: each of the *)
(* W nodes counts once when the limit is passed, and once more for every   *)
(* late retry that lets the idle nodes claim and give up again.            *)
AttemptsBounded ==
    LET W == Cardinality(Nodes)
    IN  \A j \in Jobs : queue[j].attempts < MaxAttempts + (W * (W + 3)) \div 2

(* Every job that is queued is settled for good: after finitely many       *)
(* crashes and failed statements no late retry brings it back any more.    *)
Settles ==
    \A j \in Jobs : (queue[j].status # "absent")
                        ~> [](queue[j].status \in {"done", "failed", "deleted"})
=============================================================================
