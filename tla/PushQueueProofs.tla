-------------------------- MODULE PushQueueProofs --------------------------
(***************************************************************************)
(* Proofs about PushQueue, for any number of jobs, nodes and devices and   *)
(* any limits.                                                             *)
(***************************************************************************)
EXTENDS PushQueue, FiniteSetTheorems, TLAPS

(* What mark_done, mark_retry and mark_failed leave behind is a row. *)
LEMMA MarkedType ==
    ASSUME NEW row \in JobRow, NEW outcome \in {"done", "retry", "failed"}
    PROVE  /\ Marked(row, outcome) \in JobRow
           /\ Marked(row, outcome).attempts >= row.attempts
           /\ row.status # "absent" => Marked(row, outcome).status # "absent"
  BY DEF Marked, JobRow, JobStatus

(* What a node does with one job leaves its other jobs and nodes alone. *)
LEMMA RunStep ==
    ASSUME TypeOK, NEW n \in Nodes, NEW j \in Jobs, NEW w \in Run,
           run' = [run EXCEPT ![n][j] = w]
    PROVE  /\ run' \in [Nodes -> [Jobs -> Run]]
           /\ run'[n][j] = w
           /\ \A m \in Nodes, k \in Jobs : m # n \/ k # j => run'[m][k] = run[m][k]
  BY DEF TypeOK

(* The first state has the types of the tables. *)
LEMMA TypeInit == Init => TypeOK
  BY DEF Init, TypeOK, JobRow, JobStatus, Run, Free

(* Every step keeps the rows and the work of the nodes well formed. *)
LEMMA TypeNext == TypeOK /\ [Next]_vars => TypeOK'
  <1> SUFFICES ASSUME TypeOK, [Next]_vars PROVE TypeOK'
    OBVIOUS
  <1> USE DEF TypeOK
  <1>1. ASSUME NEW j \in Jobs, Enqueue(j) \/ BecomeDue(j) \/ Cleanup(j) PROVE TypeOK'
    BY <1>1 DEF Enqueue, BecomeDue, Cleanup, JobRow, JobStatus
  <1>2. ASSUME NEW n \in Nodes, NEW batch \in SUBSET Jobs, Claim(n, batch) PROVE TypeOK'
    <2>2. \A j \in Jobs : [Free EXCEPT !.pc = "claimed", !.attempts = queue[j].attempts] \in Run
      BY DEF Free, Run, JobRow
    <2>3. Free \in Run
      BY DEF Free, Run
    <2>4. run' \in [Nodes -> [Jobs -> Run]]
      BY <1>2, <2>2, <2>3 DEF Claim
    <2> QED
      BY <1>2, <2>4 DEF Claim
  <1>3. ASSUME NEW n \in Nodes, NEW j \in Jobs, Work(n, j) \/ MarkFails(n, j) PROVE TypeOK'
    <2>0. run[n][j] \in Run
      OBVIOUS
    <2>1. CASE GiveUp(n, j)
      <3>1. [run[n][j] EXCEPT !.pc = "failed"] \in Run
        BY <2>0 DEF Run
      <3>2. run' = [run EXCEPT ![n][j] = [run[n][j] EXCEPT !.pc = "failed"]]
        BY <2>1 DEF GiveUp
      <3> QED
        BY <2>1, <3>1, <3>2, RunStep DEF GiveUp
    <2>2. ASSUME NEW outcome \in {"done", "retry", "sending"}, Notify(n, j, outcome)
          PROVE  TypeOK'
      <3> DEFINE targets == IF outcome = "sending" THEN {<<d, token[d]>> : d \in active} ELSE {}
                 w == [run[n][j] EXCEPT !.pc = outcome, !.todo = targets]
      <3>1. targets \in SUBSET (Devices \X Nat)
        OBVIOUS
      <3>2. run' = [run EXCEPT ![n][j] = w]
        BY <2>2 DEF Notify
      <3>3. w \in Run
        <4> HIDE DEF targets
        <4> QED
          BY <2>0, <3>1 DEF Run
      <3> HIDE DEF w
      <3> QED
        BY <2>2, <3>2, <3>3, RunStep DEF Notify
    <2>3. ASSUME NEW t \in run[n][j].todo, NEW outcome \in {"over", "refused"},
                 SendToDevice(n, j, t, outcome)
          PROVE  TypeOK'
      <3> DEFINE w == Sent(run[n][j], t, outcome)
      <3>1. w \in Run
        BY <2>0 DEF Run, Sent
      <3>2. run' = [run EXCEPT ![n][j] = w]
        BY <2>3 DEF SendToDevice
      <3> HIDE DEF w
      <3> QED
        BY <2>3, <3>1, <3>2, RunStep DEF SendToDevice
    <2>4. ASSUME NEW t \in run[n][j].refused, DeactivateDevice(n, j, t) PROVE TypeOK'
      <3> DEFINE w == [run[n][j] EXCEPT !.refused = run[n][j].refused \ {t}]
      <3>1. w \in Run
        BY <2>0 DEF Run
      <3>2. run' = [run EXCEPT ![n][j] = w]
        BY <2>4 DEF DeactivateDevice
      <3>3. active' \subseteq Devices /\ UNCHANGED <<queue, due, token, faults>>
        BY <2>4 DEF DeactivateDevice
      <3>4. run' \in [Nodes -> [Jobs -> Run]]
        <4> HIDE DEF w, TypeOK
        <4> QED
          BY <3>1, <3>2, RunStep
      <3> QED
        BY <3>3, <3>4
    <2>5. CASE FinishSending(n, j)
      <3>1. [run[n][j] EXCEPT !.pc = "done"] \in Run
        BY <2>0 DEF Run
      <3>2. run' = [run EXCEPT ![n][j] = [run[n][j] EXCEPT !.pc = "done"]]
        BY <2>5 DEF FinishSending
      <3> QED
        BY <2>5, <3>1, <3>2, RunStep DEF FinishSending
    <2>6. CASE Mark(n, j)
      <3>1. Marked(queue[j], run[n][j].pc) \in JobRow
        BY <2>6, MarkedType DEF Mark
      <3>2. run' \in [Nodes -> [Jobs -> Run]]
        BY <2>6 DEF Mark, Free, Run
      <3> QED
        BY <2>6, <3>1, <3>2 DEF Mark
    <2>7. CASE MarkFails(n, j)
      BY <2>7 DEF MarkFails, Free, Run
    <2> QED
      BY <1>3, <2>1, <2>2, <2>3, <2>4, <2>5, <2>6, <2>7 DEF Work
  <1>4. ASSUME NEW n \in Nodes, Crash(n) PROVE TypeOK'
    BY <1>4 DEF Crash, Free, Run
  <1>5. ASSUME NEW d \in Devices, RegisterDevice(d) \/ UnregisterDevice(d) PROVE TypeOK'
    BY <1>5 DEF RegisterDevice, UnregisterDevice
  <1>6. CASE UNCHANGED vars
    BY <1>6 DEF vars
  <1> QED
    BY <1>1, <1>2, <1>3, <1>4, <1>5, <1>6 DEF Next

(* The tables and the work of the nodes keep their shapes. *)
THEOREM TypeCorrect == Spec => []TypeOK
  BY TypeInit, TypeNext, PTL DEF Spec

-----------------------------------------------------------------------------
(* What a node knows of a job it has claimed never runs ahead of the row:  *)
(* the row exists, it counts at least the attempts the node has read, and  *)
(* a node that is about to fail the job has read enough of them.           *)
ClaimedBehind ==
    \A n \in Nodes, j \in Jobs : run[n][j].pc # "free" =>
        /\ queue[j].status # "absent"
        /\ run[n][j].attempts <= queue[j].attempts
        /\ run[n][j].pc = "failed" /\ j \notin Malformed => run[n][j].attempts >= MaxAttempts

(* GivenUpExhausted is not inductive alone: mark_failed adds one to the    *)
(* attempts of the row whatever the node has based its decision on.        *)
GiveUpInv == TypeOK /\ ClaimedBehind /\ GivenUpExhausted

(* Nobody has claimed or given up a job in the first state. *)
LEMMA GiveUpInit == Init => GiveUpInv
  <1> SUFFICES ASSUME Init PROVE ClaimedBehind /\ GivenUpExhausted
    BY TypeInit DEF GiveUpInv
  <1> QED
    BY DEF Init, ClaimedBehind, GivenUpExhausted, Free

(* Every step keeps nodes behind their rows. *)
LEMMA GiveUpNext == GiveUpInv /\ [Next]_vars => GiveUpInv'
  <1> SUFFICES ASSUME TypeOK, ClaimedBehind, GivenUpExhausted, [Next]_vars, TypeOK'
               PROVE  ClaimedBehind' /\ GivenUpExhausted'
    BY TypeNext DEF GiveUpInv
  <1>1. ASSUME NEW j \in Jobs, Enqueue(j) \/ BecomeDue(j) \/ Cleanup(j)
        PROVE  ClaimedBehind' /\ GivenUpExhausted'
    <2>1. CASE Enqueue(j)
      BY <2>1 DEF Enqueue, ClaimedBehind, GivenUpExhausted, TypeOK
    <2>2. CASE BecomeDue(j)
      BY <2>2 DEF BecomeDue, ClaimedBehind, GivenUpExhausted
    <2>3. CASE Cleanup(j)
      <3>1. /\ queue'[j].status = "deleted" /\ queue'[j].attempts = queue[j].attempts
            /\ \A k \in Jobs \ {j} : queue'[k] = queue[k]
            /\ run' = run
        BY <2>3 DEF Cleanup, TypeOK, JobRow
      <3> QED
        BY <3>1 DEF ClaimedBehind, GivenUpExhausted
    <2> QED
      BY <1>1, <2>1, <2>2, <2>3
  <1>2. ASSUME NEW n \in Nodes, NEW batch \in SUBSET Jobs, Claim(n, batch)
        PROVE  ClaimedBehind' /\ GivenUpExhausted'
    <2>1. \A j \in Jobs : /\ queue'[j].status = queue[j].status
                          /\ queue'[j].attempts = queue[j].attempts
      BY <1>2 DEF Claim, TypeOK, JobRow
    <2>2. \A j \in Jobs : run'[n][j].pc # "free" =>
             /\ run'[n][j].pc = "claimed" /\ queue[j].status # "absent"
             /\ run'[n][j].attempts = queue[j].attempts
      BY <1>2 DEF Claim, Claimable, TypeOK, Free
    <2>3. \A m \in Nodes \ {n} : run'[m] = run[m]
      BY <1>2 DEF Claim, TypeOK
    <2>4. \A j \in Jobs : queue[j].attempts \in Nat
      BY DEF TypeOK, JobRow
    <2> QED
      BY <2>1, <2>2, <2>3, <2>4 DEF ClaimedBehind, GivenUpExhausted
  <1>3. ASSUME NEW n \in Nodes, NEW j \in Jobs, Work(n, j) \/ MarkFails(n, j)
        PROVE  ClaimedBehind' /\ GivenUpExhausted'
    <2>1. CASE GiveUp(n, j)
      BY <2>1, LimitsAssumption
      DEF GiveUp, Start, Exhausted, ClaimedBehind, GivenUpExhausted, TypeOK, Run
    <2>2. ASSUME NEW outcome \in {"done", "retry", "sending"}, Notify(n, j, outcome)
          PROVE  ClaimedBehind' /\ GivenUpExhausted'
      <3> DEFINE targets == IF outcome = "sending" THEN {<<d, token[d]>> : d \in active} ELSE {}
      <3>0. /\ run' = [run EXCEPT ![n][j] =
                          [run[n][j] EXCEPT !.pc = outcome, !.todo = targets]]
            /\ run[n][j].pc = "claimed" /\ queue' = queue
        BY <2>2 DEF Notify, Start
      <3> HIDE DEF targets
      <3>1. /\ run'[n][j].pc = outcome /\ run'[n][j].attempts = run[n][j].attempts
            /\ \A m \in Nodes, k \in Jobs : m # n \/ k # j => run'[m][k] = run[m][k]
            /\ run[n][j].pc = "claimed" /\ queue' = queue
        BY <3>0 DEF TypeOK, Run
      <3> QED
        BY <3>1 DEF ClaimedBehind, GivenUpExhausted
    <2>3. ASSUME NEW t \in run[n][j].todo, NEW outcome \in {"over", "refused"},
                 SendToDevice(n, j, t, outcome)
          PROVE  ClaimedBehind' /\ GivenUpExhausted'
      <3>1. /\ run'[n][j].pc = run[n][j].pc /\ run'[n][j].attempts = run[n][j].attempts
            /\ \A m \in Nodes, k \in Jobs : m # n \/ k # j => run'[m][k] = run[m][k]
            /\ queue' = queue
        BY <2>3 DEF SendToDevice, Sent, TypeOK, Run
      <3> QED
        BY <3>1 DEF ClaimedBehind, GivenUpExhausted
    <2>4. ASSUME NEW t \in run[n][j].refused, DeactivateDevice(n, j, t)
          PROVE  ClaimedBehind' /\ GivenUpExhausted'
      <3>1. /\ run'[n][j].pc = run[n][j].pc /\ run'[n][j].attempts = run[n][j].attempts
            /\ \A m \in Nodes, k \in Jobs : m # n \/ k # j => run'[m][k] = run[m][k]
            /\ queue' = queue
        BY <2>4 DEF DeactivateDevice, TypeOK, Run
      <3> QED
        BY <3>1 DEF ClaimedBehind, GivenUpExhausted
    <2>5. CASE FinishSending(n, j)
      BY <2>5 DEF FinishSending, ClaimedBehind, GivenUpExhausted, TypeOK, Run
    <2>6. CASE Mark(n, j)
      <3> DEFINE row == Marked(queue[j], run[n][j].pc)
      <3>1. /\ queue[j] \in JobRow /\ run[n][j].attempts \in Nat
            /\ run[n][j].pc \in {"done", "retry", "failed"}
        BY <2>6 DEF Mark, TypeOK, Run
      <3>2. /\ queue'[j] = row
            /\ \A k \in Jobs \ {j} : queue'[k] = queue[k]
            /\ run'[n][j] = Free
            /\ \A m \in Nodes, k \in Jobs : m # n \/ k # j => run'[m][k] = run[m][k]
        BY <2>6 DEF Mark, TypeOK
      <3>3. /\ row.attempts >= queue[j].attempts /\ row.attempts \in Nat
            /\ queue[j].attempts \in Nat
            /\ queue[j].status # "absent" => row.status # "absent"
        BY <3>1, MarkedType DEF JobRow
      <3>4. ASSUME j \notin Malformed, row.status = "failed"
            PROVE  row.attempts > MaxAttempts
        <4>1. queue[j].status \notin {"absent", "deleted"} /\ run[n][j].pc = "failed"
          BY <3>1, <3>4 DEF Marked, JobRow
        <4>2. row.attempts = queue[j].attempts + 1
          BY <3>1, <4>1 DEF Marked, JobRow
        <4>3. MaxAttempts <= run[n][j].attempts /\ run[n][j].attempts <= queue[j].attempts
          BY <3>4, <4>1 DEF ClaimedBehind
        <4> QED
          BY <3>1, <3>3, <4>2, <4>3, LimitsAssumption
      <3>5. ClaimedBehind'
        <4> SUFFICES ASSUME NEW m \in Nodes, NEW k \in Jobs, run'[m][k].pc # "free"
                     PROVE  /\ queue'[k].status # "absent"
                            /\ run'[m][k].attempts <= queue'[k].attempts
                            /\ run'[m][k].pc = "failed" /\ k \notin Malformed
                                  => run'[m][k].attempts >= MaxAttempts
          BY DEF ClaimedBehind
        <4>1. run'[m][k] = run[m][k]
          BY <3>2 DEF Free
        <4>2. run[m][k].attempts \in Nat
          BY DEF TypeOK, Run
        <4> HIDE DEF row
        <4> QED
          BY <3>2, <3>3, <4>1, <4>2 DEF ClaimedBehind
      <3>6. GivenUpExhausted'
        <4> HIDE DEF row
        <4> QED
          BY <3>2, <3>4 DEF GivenUpExhausted
      <3> QED
        BY <3>5, <3>6
    <2>7. CASE MarkFails(n, j)
      BY <2>7 DEF MarkFails, ClaimedBehind, GivenUpExhausted, TypeOK, Free
    <2> QED
      BY <1>3, <2>1, <2>2, <2>3, <2>4, <2>5, <2>6, <2>7 DEF Work
  <1>4. ASSUME NEW n \in Nodes, Crash(n) PROVE ClaimedBehind' /\ GivenUpExhausted'
    BY <1>4 DEF Crash, ClaimedBehind, GivenUpExhausted, TypeOK, Free
  <1>5. ASSUME NEW d \in Devices, RegisterDevice(d) \/ UnregisterDevice(d)
        PROVE  ClaimedBehind' /\ GivenUpExhausted'
    BY <1>5 DEF RegisterDevice, UnregisterDevice, ClaimedBehind, GivenUpExhausted
  <1>6. CASE UNCHANGED vars
    BY <1>6 DEF vars, ClaimedBehind, GivenUpExhausted
  <1> QED
    BY <1>1, <1>2, <1>3, <1>4, <1>5, <1>6 DEF Next

(* A job that can be processed is failed only after more than MaxAttempts  *)
(* counted attempts, however many nodes share it and whichever of them     *)
(* crash, run past their lease or mark late.                               *)
THEOREM JobsGivenUpExhausted == Spec => []GivenUpExhausted
  <1>1. Spec => []GiveUpInv
    BY GiveUpInit, GiveUpNext, PTL DEF Spec
  <1>2. GiveUpInv => GivenUpExhausted
    BY DEF GiveUpInv
  <1> QED
    BY <1>1, <1>2, PTL

-----------------------------------------------------------------------------
(* The bound on the attempts.  Once a job has MaxAttempts of them, the     *)
(* nodes that work on it are of two kinds: those that claimed it before    *)
(* may still mark a retry, the others can only give up.  A potential of    *)
(* both, twice the attempts still possible, falls with every count.        *)
W == Cardinality(Nodes)

Busy(j)   == {n \in Nodes : run[n][j].pc # "free"}
Racing(j) == {n \in Busy(j) : run[n][j].attempts < MaxAttempts}
Giving(j) == {n \in Busy(j) : run[n][j].attempts >= MaxAttempts}

Pending(j) == queue[j].status \in {"pending", "retry"}

(* The nodes that may still give up: an idle node joins them while the job *)
(* is pending.                                                             *)
Quitters(j) == IF Pending(j) THEN W - Cardinality(Racing(j)) ELSE Cardinality(Giving(j))

Potential(q, r) == 2 * q + r * (2 * W + 3 - r)

Spent(j) ==
    queue[j].attempts >= MaxAttempts =>
        2 * queue[j].attempts + Potential(Quitters(j), Cardinality(Racing(j)))
          <= 2 * MaxAttempts + W * (W + 3) - 2

(* Who has read enough attempts does not send. *)
StaleOnly ==
    \A n \in Nodes, j \in Jobs :
        run[n][j].pc \in {"sending", "done", "retry"} => run[n][j].attempts < MaxAttempts

AttemptsInv == GiveUpInv /\ StaleOnly /\ \A j \in Jobs : Spent(j)

(* The size of two sets with nothing in common. *)
LEMMA CardinalityDisjoint ==
    ASSUME NEW S, NEW T, IsFiniteSet(S), IsFiniteSet(T), S \cap T = {}
    PROVE  Cardinality(S \cup T) = Cardinality(S) + Cardinality(T)
<1>1. Cardinality(S \cup T) = Cardinality(S) + Cardinality(T) - Cardinality(S \cap T)
  BY FS_Union
<1>2. Cardinality(S \cap T) = 0
  BY FS_EmptySet
<1>3. Cardinality(S) \in Nat /\ Cardinality(T) \in Nat
  BY FS_CardinalityType
<1>. QED
  BY <1>1, <1>2, <1>3

(* The numbers of nodes at work on a job are numbers. *)
LEMMA Sizes ==
    ASSUME TypeOK, NEW j \in Jobs
    PROVE  /\ W \in Nat /\ Cardinality(Racing(j)) \in Nat /\ Cardinality(Giving(j)) \in Nat
           /\ IsFiniteSet(Racing(j)) /\ IsFiniteSet(Giving(j))
           /\ Cardinality(Racing(j)) + Cardinality(Giving(j)) <= W
<1>1. Racing(j) \in SUBSET Nodes /\ Giving(j) \in SUBSET Nodes
  BY DEF Racing, Giving, Busy
<1>2. IsFiniteSet(Racing(j)) /\ IsFiniteSet(Giving(j))
  BY <1>1, FS_Subset, NodesAssumption
<1>3. \A n \in Nodes : run[n][j].attempts \in Nat
  BY DEF TypeOK, Run
<1>4. Racing(j) \cap Giving(j) = {}
  BY <1>3, LimitsAssumption DEF Racing, Giving, Busy
<1>5. Cardinality(Racing(j) \cup Giving(j)) = Cardinality(Racing(j)) + Cardinality(Giving(j))
  BY <1>2, <1>4, CardinalityDisjoint
<1>6. Cardinality(Racing(j) \cup Giving(j)) <= W
  BY <1>1, FS_Subset, NodesAssumption DEF W
<1>. QED
  BY <1>2, <1>5, <1>6, FS_CardinalityType, NodesAssumption DEF W

(* A node that goes on with a job leaves the count as it is. *)
LEMMA SpentSame ==
    ASSUME NEW j \in Jobs, Spent(j),
           \A n \in Nodes : /\ run'[n][j].pc # "free" <=> run[n][j].pc # "free"
                            /\ run[n][j].pc # "free" => run'[n][j].attempts = run[n][j].attempts,
           queue'[j].attempts = queue[j].attempts, Pending(j)' <=> Pending(j)
    PROVE  Spent(j)'
<1>1. Racing(j)' = Racing(j) /\ Giving(j)' = Giving(j)
  BY DEF Racing, Giving, Busy
<1>. QED
  BY <1>1 DEF Spent, Quitters

(* A node lets go of a job. *)
LEMMA Released ==
    ASSUME TypeOK, NEW n \in Nodes, NEW j \in Jobs,
           run[n][j].pc # "free", run'[n][j].pc = "free",
           \A m \in Nodes \ {n} : run'[m][j] = run[m][j]
    PROVE  \/ /\ n \in Racing(j) /\ Giving(j)' = Giving(j)
              /\ Cardinality(Racing(j)') = Cardinality(Racing(j)) - 1
              /\ Cardinality(Racing(j)') \in Nat
           \/ /\ n \in Giving(j) /\ Racing(j)' = Racing(j)
              /\ Cardinality(Giving(j)') = Cardinality(Giving(j)) - 1
              /\ Cardinality(Giving(j)') \in Nat
<1>1. run[n][j].attempts \in Nat
  BY DEF TypeOK, Run
<1>2. Racing(j)' = Racing(j) \ {n} /\ Giving(j)' = Giving(j) \ {n}
  BY DEF Racing, Giving, Busy
<1>3. \/ n \in Racing(j) /\ n \notin Giving(j)
      \/ n \in Giving(j) /\ n \notin Racing(j)
  BY <1>1, LimitsAssumption DEF Racing, Giving, Busy
<1>4. IsFiniteSet(Racing(j)) /\ IsFiniteSet(Giving(j))
  BY Sizes
<1>5. /\ n \in Racing(j) => Cardinality(Racing(j) \ {n}) = Cardinality(Racing(j)) - 1
      /\ Cardinality(Racing(j) \ {n}) \in Nat
  BY <1>4, FS_RemoveElement, FS_CardinalityType
<1>6. /\ n \in Giving(j) => Cardinality(Giving(j) \ {n}) = Cardinality(Giving(j)) - 1
      /\ Cardinality(Giving(j) \ {n}) \in Nat
  BY <1>4, FS_RemoveElement, FS_CardinalityType
<1>7. /\ n \notin Racing(j) => Racing(j)' = Racing(j)
      /\ n \notin Giving(j) => Giving(j)' = Giving(j)
  BY <1>2
<1>. QED
  BY <1>2, <1>3, <1>5, <1>6, <1>7, Zenon

(* One node racing less: what the potential loses. *)
LEMMA OneRacingLess ==
    ASSUME NEW r \in Nat, NEW w \in Nat
    PROVE  (r - 1) * (2 * w + 3 - (r - 1)) = r * (2 * w + 3 - r) - 2 * (w - r) - 4
  OBVIOUS

(* The potential when the job reaches MaxAttempts. *)
LEMMA AtTheLimit ==
    ASSUME NEW r \in Nat, NEW w \in Nat, r < w
    PROVE  2 * (w - r) + r * (2 * w + 3 - r) <= w * (w + 3) - 2
<1>. DEFINE d == w - r
<1>1. d \in Nat /\ d >= 1 /\ r = w - d
  OBVIOUS
<1>. HIDE DEF d
<1>2. 2 * d + (w - d) * (2 * w + 3 - (w - d)) = w * (w + 3) - d - d * d
  BY <1>1
<1>3. d * d >= 1
  BY <1>1
<1>4. w - r = d
  BY <1>1
<1>. QED
  BY <1>1, <1>2, <1>3, <1>4

(* A node that lets go of the job, counting (x = 1) or not, lowers the     *)
(* potential by what it counts; only a racing node may count and leave the *)
(* job pending.                                                            *)
LEMMA PotentialFalls ==
    ASSUME NEW r \in Nat, NEW f \in Nat, NEW r2 \in Nat, NEW f2 \in Nat, W \in Nat, r + f <= W,
           NEW q \in {f, W - r}, NEW q2, NEW x \in {0, 1},
           (r2 = r - 1 /\ f2 = f) \/ (r2 = r /\ f2 = f - 1),
           \/ q2 = f2
           \/ q2 = W - r2 /\ x = 0 /\ q = W - r
           \/ q2 = W - r2 /\ x = 1 /\ r2 = r - 1
    PROVE  2 * x + Potential(q2, r2) <= Potential(q, r)
<1>1. (r - 1) * (2 * W + 3 - (r - 1)) = r * (2 * W + 3 - r) - 2 * (W - r) - 4
  BY OneRacingLess
<1>. DEFINE p == r * (2 * W + 3 - r)
            p2 == r2 * (2 * W + 3 - r2)
<1>2. p \in Int /\ p2 \in Int /\ (r2 = r - 1 => p2 = p - 2 * (W - r) - 4) /\ (r2 = r => p2 = p)
  BY <1>1
<1>3. Potential(q, r) = 2 * q + p /\ Potential(q2, r2) = 2 * q2 + p2
  BY DEF Potential
<1>. HIDE DEF p, p2
<1>. QED
  BY <1>2, <1>3

(* What the nodes may still add to the attempts is a number. *)
LEMMA PotentialType ==
    ASSUME NEW r \in Nat, W \in Nat, r <= W, NEW q \in Nat
    PROVE  Potential(q, r) \in Nat
<1>1. r * (2 * W + 3 - r) \in Nat
  <2>. DEFINE b == 2 * W + 3 - r
  <2>1. b \in Nat
    OBVIOUS
  <2>. HIDE DEF b
  <2>. QED
    BY <2>1 DEF b
<1>. QED
  BY <1>1 DEF Potential

(* A node lets go of a job, and counts an attempt or not. *)
LEMMA SpentReleased ==
    ASSUME GiveUpInv, StaleOnly, NEW n \in Nodes, NEW j \in Jobs, Spent(j),
           run[n][j].pc # "free", run'[n][j].pc = "free",
           \A m \in Nodes \ {n} : run'[m][j] = run[m][j],
           \/ queue'[j] = queue[j]
           \/ /\ run[n][j].pc \in {"done", "retry", "failed"}
              /\ queue'[j] = Marked(queue[j], run[n][j].pc)
    PROVE  Spent(j)'
<1>. DEFINE a == queue[j].attempts         a2 == queue'[j].attempts
            r == Cardinality(Racing(j))    r2 == Cardinality(Racing(j)')
            f == Cardinality(Giving(j))    f2 == Cardinality(Giving(j)')
            q == Quitters(j)               q2 == Quitters(j)'
            limit == 2 * MaxAttempts + W * (W + 3) - 2
<1>0. W \in Nat /\ r \in Nat /\ f \in Nat /\ r + f <= W
  BY Sizes DEF GiveUpInv
<1>2. \/ r2 = r - 1 /\ f2 = f /\ n \in Racing(j)
      \/ r2 = r /\ f2 = f - 1 /\ n \in Giving(j)
  BY Released DEF GiveUpInv
<1>1. W \in Nat /\ r \in Nat /\ f \in Nat /\ r + f <= W /\ r2 \in Nat /\ f2 \in Nat
  BY <1>0, <1>2, Released DEF GiveUpInv
<1>3. queue[j] \in JobRow /\ a \in Nat /\ run[n][j].attempts \in Nat /\ MaxAttempts \in Nat
  BY LimitsAssumption DEF GiveUpInv, TypeOK, JobRow, Run
<1>4. /\ q = IF Pending(j) THEN W - r ELSE f
      /\ q2 = IF Pending(j)' THEN W - r2 ELSE f2
  BY DEF Quitters
<1>5. PICK x \in {0, 1} : /\ a2 = a + x /\ (Pending(j)' => Pending(j) \/ x = 1)
                          /\ x = 1 => ~Pending(j)' \/ n \in Racing(j)
  <2>1. CASE queue'[j] = queue[j]
    BY <1>3, <2>1 DEF Pending
  <2>2. CASE queue'[j] = Marked(queue[j], run[n][j].pc) /\ queue'[j] # queue[j]
    <3>1. /\ run[n][j].pc = "done" => a2 = a /\ ~Pending(j)'
          /\ run[n][j].pc = "failed" => a2 = a + 1 /\ ~Pending(j)'
          /\ run[n][j].pc = "retry" => a2 = a + 1
      BY <1>3, <2>2 DEF Marked, Pending, JobRow
    <3>2. run[n][j].pc = "retry" => n \in Racing(j)
      BY DEF StaleOnly, Racing, Busy
    <3>. QED
      BY <1>3, <2>2, <3>1, <3>2
  <2>. QED
    BY <2>1, <2>2
<1>6. n \in Giving(j) => n \notin Racing(j)
  BY <1>3, LimitsAssumption DEF Giving, Racing, Busy
<1>7. Spent(j) <=> (a >= MaxAttempts => 2 * a + Potential(q, r) <= limit)
  BY DEF Spent
<1>8. Spent(j)' <=> (a2 >= MaxAttempts => 2 * a2 + Potential(q2, r2) <= limit)
  BY DEF Spent, Potential
<1>9. a < MaxAttempts => f = 0
  <2>. SUFFICES ASSUME a < MaxAttempts PROVE Giving(j) = {}
    BY FS_EmptySet
  <2>. SUFFICES ASSUME NEW m \in Nodes, run[m][j].pc # "free", run[m][j].attempts >= MaxAttempts
                PROVE  FALSE
    BY DEF Giving, Busy
  <2>1. run[m][j].attempts <= a /\ run[m][j].attempts \in Nat
    BY DEF GiveUpInv, ClaimedBehind, TypeOK, Run
  <2>. QED
    BY <1>3, <2>1
<1>10. Spent(j)
  OBVIOUS
<1>. HIDE DEF a, a2, r, r2, f, f2, q, q2
<1>11. q \in Nat /\ q2 \in Nat /\ r <= W /\ r2 <= W
  BY <1>1, <1>2, <1>4 DEF Pending
<1>12. Potential(q, r) \in Nat /\ Potential(q2, r2) \in Nat
  BY <1>1, <1>11, PotentialType
<1>13. CASE a >= MaxAttempts
  <2>1. \/ q2 = f2
        \/ q2 = W - r2 /\ x = 0 /\ q = W - r
        \/ q2 = W - r2 /\ x = 1 /\ r2 = r - 1
    BY <1>2, <1>4, <1>5, <1>6 DEF Pending
  <2>2. q \in {f, W - r}
    BY <1>4 DEF Pending
  <2>3. 2 * x + Potential(q2, r2) <= Potential(q, r)
    BY <1>1, <1>2, <2>1, <2>2, PotentialFalls
  <2>4. 2 * a + Potential(q, r) <= limit
    BY <1>7, <1>10, <1>13
  <2>5. limit \in Int
    BY <1>1, <1>3
  <2>. HIDE DEF limit
  <2>6. 2 * a2 + Potential(q2, r2) <= limit
    BY <1>3, <1>5, <1>12, <2>3, <2>4, <2>5
  <2>. QED
    BY <1>8, <2>6
<1>14. CASE a < MaxAttempts /\ a2 >= MaxAttempts
  <2>1. a2 = MaxAttempts
    BY <1>3, <1>5, <1>14
  <2>2. r2 = r - 1 /\ f2 = 0 /\ r2 < W
    BY <1>1, <1>2, <1>9, <1>14
  <2>3. 2 * (W - r2) + r2 * (2 * W + 3 - r2) <= W * (W + 3) - 2
    BY <1>1, <2>2, AtTheLimit
  <2>. DEFINE p == r2 * (2 * W + 3 - r2)    b == W * (W + 3)
  <2>4. p \in Int /\ b \in Int
    BY <1>1
  <2>5. Potential(q2, r2) = 2 * q2 + p
    BY DEF Potential
  <2>6. limit = 2 * MaxAttempts + b - 2
    OBVIOUS
  <2>7. 2 * (W - r2) + p <= b - 2
    BY <2>3
  <2>8. q2 <= W - r2
    BY <1>1, <1>4, <2>2 DEF Pending
  <2>. HIDE DEF p, b, limit
  <2>9. 2 * a2 + Potential(q2, r2) <= limit
    BY <1>1, <1>3, <1>11, <2>1, <2>4, <2>5, <2>6, <2>7, <2>8
  <2>. QED
    BY <1>8, <2>9
<1>15. CASE ~(a2 >= MaxAttempts)
  BY <1>8, <1>15
<1>16. a \in Nat /\ a2 \in Nat /\ MaxAttempts \in Nat
  BY <1>3, <1>5
<1>. QED
  BY <1>13, <1>14, <1>15, <1>16

(* A claim of an exhausted job adds a node to those that give up. *)
LEMMA SpentClaim ==
    ASSUME TypeOK, NEW n \in Nodes, NEW batch \in SUBSET Jobs, Claim(n, batch),
           NEW j \in Jobs, Spent(j)
    PROVE  Spent(j)'
<1>1. /\ \A m \in Nodes \ {n} : run'[m] = run[m]
      /\ queue' = queue /\ (Pending(j)' <=> Pending(j))
  BY DEF Claim, TypeOK, Pending
<1>2. run[n][j].pc = "free" /\ queue[j].attempts \in Nat
  <2>1. run[n][j] = Free /\ queue[j] \in JobRow
    BY DEF Claim, TypeOK
  <2>. QED
    BY <2>1 DEF Free, JobRow
<1>3. CASE j \notin batch
  <2>1. run'[n][j].pc = "free"
    BY <1>3 DEF Claim, Free, TypeOK
  <2>. QED
    BY <1>1, <1>2, <2>1, SpentSame
<1>4. CASE j \in batch /\ queue[j].attempts >= MaxAttempts
  <2>1. run'[n][j].attempts = queue[j].attempts /\ Pending(j)
    BY <1>4 DEF Claim, Claimable, Pending, Free, TypeOK
  <2>2. Racing(j)' = Racing(j)
    BY <1>1, <1>2, <1>4, <2>1, LimitsAssumption DEF Racing, Busy
  <2>3. Quitters(j)' = Quitters(j)
    BY <1>1, <2>1, <2>2 DEF Quitters
  <2>. QED
    BY <1>1, <2>2, <2>3 DEF Spent
<1>. QED
  BY <1>1, <1>3, <1>4 DEF Spent

(* No attempt is counted in the first state. *)
LEMMA AttemptsInit == Init => AttemptsInv
<1>. SUFFICES ASSUME Init PROVE AttemptsInv
  OBVIOUS
<1>1. GiveUpInv
  BY GiveUpInit
<1>2. StaleOnly
  BY DEF Init, StaleOnly, Free
<1>3. \A j \in Jobs : queue[j].attempts = 0
  BY DEF Init
<1>. QED
  BY <1>1, <1>2, <1>3, LimitsAssumption DEF AttemptsInv, Spent

(* Every step keeps the count within the potential. *)
LEMMA AttemptsNext == AttemptsInv /\ [Next]_vars => AttemptsInv'
<1>. SUFFICES ASSUME AttemptsInv, [Next]_vars PROVE StaleOnly' /\ \A j \in Jobs : Spent(j)'
  BY GiveUpNext DEF AttemptsInv
<1>0. TypeOK /\ GiveUpInv /\ StaleOnly /\ (\A j \in Jobs : Spent(j))
  BY DEF AttemptsInv, GiveUpInv
<1>1. ASSUME NEW j \in Jobs, Enqueue(j) \/ BecomeDue(j) \/ Cleanup(j)
      PROVE  StaleOnly' /\ \A k \in Jobs : Spent(k)'
  <2>1. run' = run /\ \A k \in Jobs \ {j} : queue'[k] = queue[k]
    BY <1>0, <1>1 DEF Enqueue, BecomeDue, Cleanup, TypeOK
  <2>2. \A k \in Jobs \ {j} : Spent(k)'
    BY <1>0, <2>1, SpentSame DEF Pending
  <2>3. \/ queue'[j].attempts = 0
        \/ queue'[j].attempts = queue[j].attempts /\ (Pending(j)' <=> Pending(j))
    BY <1>0, <1>1 DEF Enqueue, BecomeDue, Cleanup, TypeOK, JobRow, Pending
  <2>4. ASSUME queue'[j].attempts = 0 PROVE Spent(j)'
    BY <2>4, LimitsAssumption DEF Spent
  <2>5. ASSUME queue'[j].attempts = queue[j].attempts, Pending(j)' <=> Pending(j) PROVE Spent(j)'
    BY <1>0, <2>1, <2>5, SpentSame
  <2>6. StaleOnly'
    BY <1>0, <2>1 DEF StaleOnly
  <2>. QED
    BY <2>2, <2>3, <2>4, <2>5, <2>6
<1>2. ASSUME NEW n \in Nodes, NEW batch \in SUBSET Jobs, Claim(n, batch)
      PROVE  StaleOnly' /\ \A j \in Jobs : Spent(j)'
  <2>1. StaleOnly'
    BY <1>0, <1>2 DEF Claim, StaleOnly, Free, TypeOK
  <2>. QED
    BY <1>0, <1>2, <2>1, SpentClaim
<1>3. ASSUME NEW n \in Nodes, NEW j \in Jobs, Mark(n, j) \/ MarkFails(n, j)
      PROVE  StaleOnly' /\ \A k \in Jobs : Spent(k)'
  <2>1. /\ run[n][j].pc \in {"done", "retry", "failed"} /\ run'[n][j].pc = "free"
        /\ \A m \in Nodes, k \in Jobs : m # n \/ k # j => run'[m][k] = run[m][k]
    BY <1>0, <1>3 DEF Mark, MarkFails, TypeOK, Free
  <2>2. /\ \A k \in Jobs \ {j} : queue'[k] = queue[k]
        /\ queue'[j] = queue[j] \/ queue'[j] = Marked(queue[j], run[n][j].pc)
    BY <1>0, <1>3 DEF Mark, MarkFails, TypeOK
  <2>3. \A k \in Jobs \ {j} : Spent(k)'
    BY <1>0, <2>1, <2>2, SpentSame DEF Pending
  <2>4. Spent(j)'
    BY <1>0, <2>1, <2>2, SpentReleased
  <2>5. StaleOnly'
    BY <1>0, <2>1 DEF StaleOnly
  <2>. QED
    BY <2>3, <2>4, <2>5
<1>4. ASSUME NEW n \in Nodes, NEW j \in Jobs, Work(n, j), ~Mark(n, j)
      PROVE  StaleOnly' /\ \A k \in Jobs : Spent(k)'
  <2>. DEFINE GoesOn ==
          /\ queue' = queue
          /\ \A m \in Nodes, k \in Jobs : m # n \/ k # j => run'[m][k] = run[m][k]
          /\ run[n][j].pc # "free" /\ run'[n][j].pc # "free"
          /\ run'[n][j].attempts = run[n][j].attempts
          /\ \/ run'[n][j].pc = "failed"
             \/ run[n][j].pc = "claimed" /\ ~Exhausted(run[n][j].attempts)
             \/ run[n][j].pc = "sending"
  <2>1. GoesOn
    <3>0. run[n][j] \in Run
      BY <1>0 DEF TypeOK
    <3>1. CASE GiveUp(n, j)
      <4>1. run' = [run EXCEPT ![n][j] = [run[n][j] EXCEPT !.pc = "failed"]]
        BY <3>1 DEF GiveUp
      <4>. QED
        BY <1>0, <3>0, <3>1, <4>1 DEF GiveUp, Start, TypeOK, Run
    <3>2. ASSUME NEW outcome \in {"done", "retry", "sending"}, Notify(n, j, outcome)
          PROVE  GoesOn
      <4>. DEFINE targets == IF outcome = "sending" THEN {<<d, token[d]>> : d \in active} ELSE {}
      <4>. DEFINE w == [run[n][j] EXCEPT !.pc = outcome, !.todo = targets]
      <4>1. /\ run' = [run EXCEPT ![n][j] = w] /\ queue' = queue
            /\ run[n][j].pc = "claimed" /\ ~Exhausted(run[n][j].attempts)
        BY <3>2 DEF Notify, Start
      <4>. HIDE DEF targets
      <4>2. w.pc = outcome /\ w.attempts = run[n][j].attempts
        BY <3>0 DEF Run
      <4>. HIDE DEF w
      <4>. QED
        BY <1>0, <3>2, <4>1, <4>2 DEF TypeOK
    <3>3. ASSUME NEW t \in run[n][j].todo, NEW outcome \in {"over", "refused"},
                 SendToDevice(n, j, t, outcome)
          PROVE  GoesOn
      <4>. DEFINE w == Sent(run[n][j], t, outcome)
      <4>1. run' = [run EXCEPT ![n][j] = w] /\ queue' = queue /\ run[n][j].pc = "sending"
        BY <3>3 DEF SendToDevice
      <4>2. w.pc = run[n][j].pc /\ w.attempts = run[n][j].attempts
        BY <3>0 DEF Run, Sent
      <4>. HIDE DEF w
      <4>. QED
        BY <1>0, <4>1, <4>2 DEF TypeOK
    <3>5. ASSUME NEW t \in run[n][j].refused, DeactivateDevice(n, j, t) PROVE GoesOn
      BY <1>0, <3>0, <3>5 DEF DeactivateDevice, TypeOK, Run
    <3>4. CASE FinishSending(n, j)
      BY <1>0, <3>0, <3>4 DEF FinishSending, TypeOK, Run
    <3>. QED
      BY <1>4, <3>1, <3>2, <3>3, <3>4, <3>5 DEF Work
  <2>2. \A k \in Jobs : Pending(k)' <=> Pending(k)
    BY <2>1 DEF Pending
  <2>3. \A k \in Jobs : Spent(k)'
    BY <1>0, <2>1, <2>2, SpentSame
  <2>4. run[n][j].attempts \in Nat
    BY <1>0 DEF TypeOK, Run
  <2>5. StaleOnly'
    BY <1>0, <2>1, <2>4, LimitsAssumption DEF StaleOnly, Exhausted
  <2>. QED
    BY <2>3, <2>5
<1>5. ASSUME NEW n \in Nodes, Crash(n) PROVE StaleOnly' /\ \A j \in Jobs : Spent(j)'
  <2>1. /\ queue' = queue /\ \A j \in Jobs : run'[n][j].pc = "free"
        /\ \A m \in Nodes \ {n}, j \in Jobs : run'[m][j] = run[m][j]
    BY <1>0, <1>5 DEF Crash, TypeOK, Free
  <2>2. ASSUME NEW j \in Jobs PROVE Spent(j)'
    <3>1. CASE run[n][j].pc = "free"
      BY <1>0, <2>1, <3>1, SpentSame DEF Pending
    <3>2. CASE run[n][j].pc # "free"
      BY <1>0, <2>1, <3>2, SpentReleased
    <3>. QED
      BY <3>1, <3>2
  <2>. QED
    BY <1>0, <2>1, <2>2 DEF StaleOnly
<1>6. CASE (\E d \in Devices : RegisterDevice(d) \/ UnregisterDevice(d)) \/ UNCHANGED vars
  <2>1. queue' = queue /\ run' = run
    BY <1>6 DEF RegisterDevice, UnregisterDevice, vars
  <2>. QED
    BY <1>0, <2>1, SpentSame DEF StaleOnly, Pending
<1>. QED
  BY <1>1, <1>2, <1>3, <1>4, <1>5, <1>6 DEF Next

(* mark_retry and mark_failed count without a look at who else works on    *)
(* the job, and a late retry brings a failed job back, but the attempts of *)
(* a job stay below a bound in the limit and the number of nodes.          *)
THEOREM AttemptsStayBounded == Spec => []AttemptsBounded
<1>1. ASSUME AttemptsInv, NEW j \in Jobs
      PROVE  queue[j].attempts < MaxAttempts + (W * (W + 3)) \div 2
  <2>. DEFINE r == Cardinality(Racing(j))    b == W * (W + 3)    a == queue[j].attempts
  <2>1. /\ W \in Nat /\ r \in Nat /\ Cardinality(Giving(j)) \in Nat
        /\ r + Cardinality(Giving(j)) <= W /\ a \in Nat /\ MaxAttempts \in Nat
    BY <1>1, Sizes, LimitsAssumption DEF AttemptsInv, GiveUpInv, TypeOK, JobRow
  <2>2. Quitters(j) \in Nat /\ r <= W
    BY <2>1 DEF Quitters
  <2>3. Potential(Quitters(j), r) \in Nat
    BY <2>1, <2>2, PotentialType
  <2>4. a >= MaxAttempts => 2 * a + Potential(Quitters(j), r) <= 2 * MaxAttempts + b - 2
    BY <1>1 DEF AttemptsInv, Spent
  <2>5. b \in Nat
    BY <2>1
  <2>. HIDE DEF a, b, r
  <2>6. a < MaxAttempts + b \div 2
    BY <2>1, <2>3, <2>4, <2>5
  <2>. QED
    BY <2>6 DEF a, b
<1>2. AttemptsInv => AttemptsBounded
  BY <1>1 DEF AttemptsBounded, W
<1>. QED
  BY <1>2, AttemptsInit, AttemptsNext, PTL DEF Spec
=============================================================================
