--------------------------- MODULE GateHubProofs ---------------------------
(***************************************************************************)
(* Proofs about two parts that share no state: E2eeGate, for any number of *)
(* administrators and devices, any set of compliant devices and any        *)
(* required coverage; and Hub, for any connections, users and rooms, any   *)
(* membership and any bound on faults.                                     *)
(***************************************************************************)
EXTENDS E2eeGate, Hub, TLAPS


(* Environment steps: everything but the requests of administrators. *)
Environment ==
    \/ \E value \in {"open", "approved"} : MarkReview(value)
    \/ \E d \in Devices : Register(d) \/ Approve(d) \/ Revoke(d) \/ Stock(d)

(* Every reason a probe may give is one of the known reasons. *)
LEMMA ReasonTypes ==
    /\ CapabilityReasons \in SUBSET Reason /\ InventoryReasons \in SUBSET Reason
    /\ PendingReasons \in SUBSET Reason /\ ReviewReasons \in SUBSET Reason
    /\ Blockers \in SUBSET Reason
  <1>1. /\ CapabilityReasons \in SUBSET Reason /\ InventoryReasons \in SUBSET Reason
        /\ PendingReasons \in SUBSET Reason /\ ReviewReasons \in SUBSET Reason
    BY DEF CapabilityReasons, InventoryReasons, PendingReasons, ReviewReasons, Reason
  <1> QED
    BY <1>1 DEF Blockers, Reason

(* The gate starts with no request and no failed probe. *)
LEMMA TypeInit == Init => TypeOK
  BY DEF Init, TypeOK, Idle, Request, GateState, Reason

(* Every step keeps the gate, the settings and the requests well formed. *)
LEMMA TypeNext == TypeOK /\ [Next]_vars => TypeOK'
  <1> SUFFICES ASSUME TypeOK, [Next]_vars PROVE TypeOK'
    OBVIOUS
  <1> USE DEF TypeOK
  <1>0. Idle \in Request
    BY DEF Idle, Request
  <1>1. ASSUME NEW a \in Admins, Administer(a) PROVE TypeOK'
    <2>0. req[a] \in Request
      OBVIOUS
    <2>1. CASE PrepareBegin(a)
      <3>1. [pc |-> "prepare", revision |-> gate.revision, blocked |-> {}] \in Request
        BY DEF Request
      <3> QED
        BY <2>1, <3>1 DEF PrepareBegin, devices
    <2>2. CASE PrepareFinish(a)
      <3>1. [state |-> "prepare", revision |-> req[a].revision + 1]
                \in [state : GateState, revision : Nat]
        BY <2>0 DEF Request, GateState
      <3> QED
        BY <1>0, <2>2, <3>1 DEF PrepareFinish, devices
    <2>3. CASE ActivateBegin(a)
      <3>1. [pc |-> "capabilities", revision |-> gate.revision, blocked |-> ReviewReasons]
                \in Request
        BY ReasonTypes DEF Request
      <3>2. lasting' \in [Admins -> SUBSET Reason]
        BY <2>3, ReasonTypes DEF ActivateBegin
      <3> QED
        BY <2>3, <3>1, <3>2 DEF ActivateBegin, devices
    <2>4. ASSUME NEW from, NEW to \in {"inventory", "approvals", "decide"},
                 NEW reasons \in SUBSET Reason, Evaluate(a, from, to, reasons)
          PROVE  TypeOK'
      <3>1. [req[a] EXCEPT !.pc = to, !.blocked = req[a].blocked \cup reasons] \in Request
        BY <2>0 DEF Request
      <3> QED
        BY <2>4, <3>1 DEF Evaluate, devices
    <2>5. CASE ActivateFinish(a)
      <3>1. ActiveGate(a) \in [state : GateState, revision : Nat]
        BY <2>0 DEF ActiveGate, Request, GateState
      <3>2. lasting' \in [Admins -> SUBSET Reason]
        BY <2>5 DEF ActivateFinish, Forget
      <3> QED
        BY <1>0, <2>5, <3>1, <3>2 DEF ActivateFinish, devices
    <2>6. CASE RequestEnds(a)
      <3>1. lasting' \in [Admins -> SUBSET Reason]
        BY <2>6 DEF RequestEnds, Forget
      <3> QED
        BY <1>0, <2>6, <3>1 DEF RequestEnds, devices
    <2> QED
      BY <1>1, <2>1, <2>2, <2>3, <2>4, <2>5, <2>6, ReasonTypes
      DEF Administer, ReadCapabilities, ReadInventory, ReadApprovals
  <1>2. CASE Environment
    <2>1. lasting' \in [Admins -> SUBSET Reason]
      BY <1>2 DEF Environment, MarkReview, Register, Approve, Revoke, Stock, Observe
    <2> QED
      BY <1>2, <2>1 DEF Environment, MarkReview, Register, Approve, Revoke, Stock, devices
  <1>3. CASE Rollback
    BY <1>3 DEF Rollback, devices, GateState
  <1>4. ASSUME NEW mode \in {"persist", "relay_only"}, UpdateRuntime(mode) PROVE TypeOK'
    BY <1>4 DEF UpdateRuntime, devices
  <1>5. CASE UNCHANGED vars
    BY <1>5 DEF vars, devices
  <1> QED
    BY <1>1, <1>2, <1>3, <1>4, <1>5 DEF Next, Environment

(* The gate, the settings and the requests have their shapes. *)
THEOREM TypeCorrect == Spec => []TypeOK
  BY TypeInit, TypeNext, PTL DEF Spec

-----------------------------------------------------------------------------
(* An activation writes both rows, a preparation never writes plaintext,   *)
(* and whatever resets the gate resets the mode of the senders as well.    *)
LEMMA GatedNext == TypeOK /\ EncryptedOnlyGated /\ [Next]_vars => EncryptedOnlyGated'
  <1> SUFFICES ASSUME TypeOK, EncryptedOnlyGated, [Next]_vars PROVE EncryptedOnlyGated'
    OBVIOUS
  <1> USE DEF EncryptedOnlyGated
  <1>1. ASSUME NEW a \in Admins, Administer(a) PROVE EncryptedOnlyGated'
    BY <1>1 DEF Administer, PrepareBegin, PrepareFinish, ActivateBegin, ReadCapabilities,
                ReadInventory, ReadApprovals, Evaluate, ActivateFinish, ActiveGate, RequestEnds
  <1>2. CASE Environment
    BY <1>2 DEF Environment, MarkReview, Register, Approve, Revoke, Stock
  <1>3. CASE Rollback \/ (\E mode \in {"persist", "relay_only"} : UpdateRuntime(mode))
    BY <1>3 DEF Rollback, UpdateRuntime
  <1>4. CASE UNCHANGED vars
    BY <1>4 DEF vars
  <1> QED
    BY <1>1, <1>2, <1>3, <1>4 DEF Next, Environment

(* Senders encrypt only while the gate is not rolled back. *)
THEOREM EncryptionGated == Spec => []EncryptedOnlyGated
  <1>1. Init => EncryptedOnlyGated
    BY DEF Init, EncryptedOnlyGated
  <1> QED
    BY <1>1, GatedNext, TypeCorrect, PTL DEF Spec

-----------------------------------------------------------------------------
(***************************************************************************)
(* A reason that lasts holds now, and the request has found it once it has *)
(* passed the statement that looks for it.                                 *)
(***************************************************************************)
Examined(pc) ==
    IF pc = "capabilities" THEN {"review"}
    ELSE IF pc = "inventory" THEN {"review", "devices", "coverage"}
    ELSE IF pc = "approvals" THEN {"review", "devices", "coverage", "inventory"}
    ELSE Reason

LastingNow == \A a \in Admins : lasting[a] \subseteq Blockers

Activating(a) == req[a].pc \in {"capabilities", "inventory", "approvals", "decide"}

LastingFound ==
    \A a \in Admins : Activating(a) => lasting[a] \cap Examined(req[a].pc) \subseteq req[a].blocked

(* What each statement looks for is what blocks at that moment. *)
LEMMA Finds ==
    /\ Blockers \cap {"review"} = ReviewReasons
    /\ Blockers \cap {"devices", "coverage"} = CapabilityReasons
    /\ Blockers \cap {"inventory"} = InventoryReasons
    /\ Blockers \cap {"pending"} = PendingReasons
  BY DEF Blockers, CapabilityReasons, InventoryReasons, PendingReasons, ReviewReasons

(* Only reviews and devices decide what stands in the way. *)
LEMMA BlockersUnchanged == UNCHANGED <<review, devices>> => Blockers' = Blockers
  BY DEF Blockers, CapabilityReasons, Coverage, InventoryReasons, PendingReasons,
         ReviewReasons, devices

(* What stood in the way ever since a request began does so still, and the *)
(* request that looks for it finds it.                                     *)
LEMMA LastingNext ==
    TypeOK /\ LastingNow /\ LastingFound /\ [Next]_vars => LastingNow' /\ LastingFound'
  <1> SUFFICES ASSUME TypeOK, LastingNow, LastingFound, [Next]_vars
               PROVE  LastingNow' /\ LastingFound'
    OBVIOUS
  <1>1. CASE UNCHANGED <<review, devices, req, lasting>>
    BY <1>1, BlockersUnchanged DEF LastingNow, LastingFound, Activating
  <1>2. CASE Environment
    <2>1. UNCHANGED req /\ Observe
      BY <1>2 DEF Environment, MarkReview, Register, Approve, Revoke, Stock
    <2>2. \A a \in Admins : lasting'[a] = lasting[a] \cap Blockers'
      BY <2>1 DEF Observe
    <2>3. LastingNow'
      BY <2>2 DEF LastingNow
    <2>4. LastingFound'
      BY <2>1, <2>2 DEF LastingFound, Activating
    <2> QED
      BY <2>3, <2>4
  <1>3. ASSUME NEW a \in Admins, Administer(a) PROVE LastingNow' /\ LastingFound'
    <2> DEFINE Others == \A b \in Admins \ {a} : req'[b] = req[b] /\ lasting'[b] = lasting[b]
    <2>0. Blockers' = Blockers
      BY <1>3, BlockersUnchanged
      DEF Administer, PrepareBegin, PrepareFinish, ActivateBegin, ReadCapabilities,
          ReadInventory, ReadApprovals, Evaluate, ActivateFinish, RequestEnds
    <2>1. ASSUME Others, lasting'[a] \subseteq Blockers,
                 Activating(a)' => lasting'[a] \cap Examined(req'[a].pc) \subseteq req'[a].blocked
          PROVE  LastingNow' /\ LastingFound'
      <3>1. LastingNow'
        BY <2>0, <2>1 DEF LastingNow
      <3>2. LastingFound'
        BY <2>1 DEF LastingFound, Activating
      <3> QED
        BY <3>1, <3>2
    <2> HIDE DEF Others
    <2>2. CASE PrepareBegin(a) \/ PrepareFinish(a)
      <3>1. Others /\ lasting'[a] = lasting[a]
        BY <2>2 DEF Others, PrepareBegin, PrepareFinish, TypeOK
      <3>2. req'[a].pc \in {"prepare", "idle"}
        BY <2>2 DEF PrepareBegin, PrepareFinish, Idle, TypeOK
      <3> QED
        BY <2>1, <3>1, <3>2 DEF LastingNow, Activating
    <2>3. CASE ActivateBegin(a)
      <3>1. Others /\ lasting'[a] = Blockers
        BY <2>3 DEF Others, ActivateBegin, TypeOK
      <3>2. req'[a].pc = "capabilities" /\ req'[a].blocked = ReviewReasons
        BY <2>3 DEF ActivateBegin, TypeOK
      <3> QED
        BY <2>1, <3>1, <3>2, Finds DEF Examined
    <2>4. ASSUME NEW from, NEW to, NEW reasons, Evaluate(a, from, to, reasons)
          PROVE  /\ Others /\ lasting'[a] = lasting[a] /\ req[a].pc = from /\ req'[a].pc = to
                 /\ req'[a].blocked = req[a].blocked \cup reasons
      <3>1. req[a] \in Request
        BY DEF TypeOK
      <3>2. [req[a] EXCEPT !.pc = to, !.blocked = req[a].blocked \cup reasons].pc = to
        BY <3>1 DEF Request
      <3>3. [req[a] EXCEPT !.pc = to, !.blocked = req[a].blocked \cup reasons].blocked
                = req[a].blocked \cup reasons
        BY <3>1 DEF Request
      <3>4. Others /\ req'[a] = [req[a] EXCEPT !.pc = to, !.blocked = req[a].blocked \cup reasons]
        BY <2>4 DEF Others, Evaluate, TypeOK
      <3> QED
        BY <2>4, <3>2, <3>3, <3>4 DEF Evaluate
    <2>5. CASE ReadCapabilities(a)
      <3>1. /\ Others /\ lasting'[a] = lasting[a] /\ req[a].pc = "capabilities"
            /\ req'[a].pc = "inventory" /\ req'[a].blocked = req[a].blocked \cup CapabilityReasons
        BY <2>4, <2>5 DEF ReadCapabilities
      <3>2. lasting[a] \cap {"review"} \subseteq req[a].blocked /\ lasting[a] \subseteq Blockers
        BY <3>1 DEF LastingFound, LastingNow, Activating, Examined
      <3> QED
        BY <2>1, <3>1, <3>2, Finds DEF Examined
    <2>6. CASE ReadInventory(a)
      <3>1. /\ Others /\ lasting'[a] = lasting[a] /\ req[a].pc = "inventory"
            /\ req'[a].pc = "approvals" /\ req'[a].blocked = req[a].blocked \cup InventoryReasons
        BY <2>4, <2>6 DEF ReadInventory
      <3>2. /\ lasting[a] \cap {"review", "devices", "coverage"} \subseteq req[a].blocked
            /\ lasting[a] \subseteq Blockers
        BY <3>1 DEF LastingFound, LastingNow, Activating, Examined
      <3> QED
        BY <2>1, <3>1, <3>2, Finds DEF Examined
    <2>7. CASE ReadApprovals(a)
      <3>1. /\ Others /\ lasting'[a] = lasting[a] /\ req[a].pc = "approvals"
            /\ req'[a].pc = "decide" /\ req'[a].blocked = req[a].blocked \cup PendingReasons
        BY <2>4, <2>7 DEF ReadApprovals
      <3>2. /\ lasting[a] \cap {"review", "devices", "coverage", "inventory"}
                   \subseteq req[a].blocked
            /\ lasting[a] \subseteq Blockers
        BY <3>1 DEF LastingFound, LastingNow, Activating, Examined
      <3> QED
        BY <2>1, <3>1, <3>2, Finds, ReasonTypes DEF Examined, Reason
    <2>8. CASE ActivateFinish(a) \/ RequestEnds(a)
      <3>1. Others /\ lasting'[a] = {}
        BY <2>8 DEF Others, ActivateFinish, RequestEnds, Forget, TypeOK
      <3> QED
        BY <2>1, <3>1
    <2> QED
      BY <1>3, <2>2, <2>3, <2>5, <2>6, <2>7, <2>8 DEF Administer
  <1>4. Rollback \/ (\E mode \in {"persist", "relay_only"} : UpdateRuntime(mode))
            \/ UNCHANGED vars => UNCHANGED <<review, devices, req, lasting>>
    BY DEF Rollback, UpdateRuntime, vars
  <1> QED
    BY <1>1, <1>2, <1>3, <1>4 DEF Next, Environment

(* A reason that lasts stops the activation. *)
THEOREM SteadyReasonsStop == Spec => SteadyBlockerStops
  <1> DEFINE Stops == \A a \in Admins : ActivateFinish(a) => lasting[a] = {}
  <1>1. Init => LastingNow /\ LastingFound
    BY DEF Init, LastingNow, LastingFound
  <1>2. LastingFound /\ TypeOK => Stops
    <2> SUFFICES ASSUME LastingFound, TypeOK, NEW a \in Admins, ActivateFinish(a)
                 PROVE  lasting[a] = {}
      OBVIOUS
    <2>1. req[a].pc = "decide" /\ req[a].blocked = {} /\ lasting[a] \subseteq Reason
      BY DEF ActivateFinish, TypeOK
    <2>2. lasting[a] \cap Reason \subseteq {}
      BY <2>1 DEF LastingFound, Activating, Examined
    <2> QED
      BY <2>1, <2>2
  <1>3. Spec => [](TypeOK /\ LastingNow /\ LastingFound)
    BY <1>1, LastingNext, TypeCorrect, PTL DEF Spec
  <1>4. LastingFound /\ TypeOK => [Stops]_vars
    BY <1>2
  <1> QED
    BY <1>3, <1>4, PTL DEF SteadyBlockerStops

-----------------------------------------------------------------------------
(* The hub *)

Working(h) == h.pc \in {"subscribing", "unsubscribing"}

(* The task of connection cmd.by waits for the answer to cmd. *)
Awaited(cmd) == cmd.by # None => At(cmd.by, "wait") /\ Asked(cmd.by, cmd.room)

Queued(cmd) == \E i \in DOMAIN queue : queue[i] = cmd

(* The hub has a command exactly while it talks to Redis; a task has rooms *)
(* to ask about exactly while it asks or waits.                            *)
Shape ==
    /\ hub.cmd # None <=> Working(hub)
    /\ \A c \in Conns : task[c].todo # {} <=> task[c].pc \in {"ask", "wait"}

(* Every command has its task, every waiting task its one command. *)
Questions ==
    /\ \A k \in Command : Queued(k) \/ (Working(hub) /\ hub.cmd = k) => Awaited(k)
    /\ \A i, j \in DOMAIN queue :
           queue[i].by = queue[j].by /\ queue[i].by # None => i = j
    /\ Working(hub) /\ hub.cmd.by # None => \A i \in DOMAIN queue : queue[i].by # hub.cmd.by
    /\ \A c \in Conns : At(c, "wait") =>
           \/ \E i \in DOMAIN queue : queue[i].by = c
           \/ Working(hub) /\ hub.cmd.by = c

Serves(r) == Working(hub) /\ hub.cmd.room = r

(* Somebody will make the hub look at room r after what it is doing now. *)
LooksAgain(r) ==
    \/ \E c \in Conns : r \in task[c].todo /\ ~(Serves(r) /\ hub.cmd.by = c)
    \/ \E i \in DOMAIN queue : queue[i].room = r

(* The hub listens to the channel of room r exactly if somebody does. *)
InStep(r) == r \in channels <=> ~Empty(r)

(* The hub goes in the direction the subscribers ask for. *)
Heading(r) == hub.pc = "subscribing" <=> ~Empty(r)

(* Whatever state room r is in: somebody will look at it again, the hub    *)
(* is on the right way, it has nothing to do, or its last synchronisation  *)
(* failed and nobody waits for another.                                    *)
Follows(r) ==
    \/ LooksAgain(r)
    \/ Serves(r) /\ Heading(r)
    \/ ~Serves(r) /\ InStep(r)
    \/ r \in troubled /\ (Serves(r) => hub.cmd.by = None)

HubInv ==
    /\ HubTypeOK /\ MapsAgree /\ Shape /\ Questions
    /\ \A r \in Rooms : Follows(r)

-----------------------------------------------------------------------------
(* What the steps of the hub and its tasks have in common. *)

(* The room a task asks about is one of those it has to ask about. *)
LEMMA AskedIsToDo == \A c \in Conns, r \in Rooms : Asked(c, r) => r \in task[c].todo
  BY DEF Asked

(* A task that keeps its rooms keeps asking about the same one. *)
LEMMA AskedStays ==
    ASSUME NEW c \in Conns, NEW r, Asked(c, r), task'[c].todo = task[c].todo
    PROVE  Asked(c, r)'
  BY Zenon DEF Asked

(* The queue without its head, and with one more command. *)
LEMMA TailOfQueue ==
    ASSUME NEW q \in Seq(Command), q # <<>>
    PROVE  /\ 1 \in DOMAIN q /\ Head(q) = q[1] /\ q[1] \in Command
           /\ Tail(q) \in Seq(Command)
           /\ \A i \in DOMAIN Tail(q) :
                  i + 1 \in DOMAIN q /\ i + 1 # 1 /\ Tail(q)[i] = q[i + 1]
           /\ \A i, j \in DOMAIN Tail(q) : i + 1 = j + 1 => i = j
           /\ \A i \in DOMAIN q : i # 1 => \E j \in DOMAIN Tail(q) : Tail(q)[j] = q[i]
  <1>1. /\ 1 \in DOMAIN q /\ Head(q) = q[1] /\ q[1] \in Command /\ Tail(q) \in Seq(Command)
        /\ Len(q) \in Nat \ {0} /\ Len(Tail(q)) = Len(q) - 1
        /\ DOMAIN q = 1..Len(q) /\ DOMAIN Tail(q) = 1..Len(q) - 1
    OBVIOUS
  <1>2. \A i \in 1..Len(q) - 1 : Tail(q)[i] = q[i + 1]
    OBVIOUS
  <1>3. ASSUME NEW i \in DOMAIN q, i # 1 PROVE \E j \in DOMAIN Tail(q) : Tail(q)[j] = q[i]
    <2>1. i - 1 \in DOMAIN Tail(q) /\ (i - 1) + 1 = i
      BY <1>1, <1>3
    <2> QED
      BY <1>1, <1>2, <2>1
  <1> QED
    BY <1>1, <1>2, <1>3

(* sync_room appends one command to the queue. *)
LEMMA QueueWithOneMore ==
    ASSUME NEW q \in Seq(Command), NEW cmd \in Command
    PROVE  /\ Append(q, cmd) \in Seq(Command)
           /\ DOMAIN q \subseteq DOMAIN Append(q, cmd)
           /\ \A i \in DOMAIN q : Append(q, cmd)[i] = q[i]
           /\ \E n \in DOMAIN Append(q, cmd) :
                  /\ n \notin DOMAIN q /\ Append(q, cmd)[n] = cmd
                  /\ DOMAIN Append(q, cmd) = DOMAIN q \cup {n}
  <1>1. /\ Append(q, cmd) \in Seq(Command) /\ Len(q) \in Nat
        /\ Len(Append(q, cmd)) = Len(q) + 1
        /\ DOMAIN q = 1..Len(q) /\ DOMAIN Append(q, cmd) = 1..Len(q) + 1
        /\ \A i \in 1..Len(q) : Append(q, cmd)[i] = q[i]
        /\ Append(q, cmd)[Len(q) + 1] = cmd
    OBVIOUS
  <1>2. Len(q) + 1 \in 1..Len(q) + 1 /\ Len(q) + 1 \notin 1..Len(q)
        /\ 1..Len(q) + 1 = 1..Len(q) \cup {Len(q) + 1}
    BY <1>1
  <1> QED
    BY <1>1, <1>2

(* A task that was answered has one room less to ask about and waits no    *)
(* more.                                                                   *)
LEMMA Resumed ==
    ASSUME HubInv, NEW c \in Conns, NEW r \in Rooms, Asked(c, r),
           task[c].pc \in {"ask", "wait"}, Resume(c, r)
    PROVE  /\ task' \in [Conns -> Task]
           /\ \A d \in Conns \ {c} : task'[d] = task[d]
           /\ task'[c].todo = task[c].todo \ {r}
           /\ task'[c].pc # "wait"
           /\ task'[c].todo # {} <=> task'[c].pc \in {"ask", "wait"}
  <1>0. /\ task \in [Conns -> Task] /\ task[c] \in Task /\ r \in task[c].todo
        /\ Closed \in Task /\ Ready \in Task
    BY AskedIsToDo DEF HubInv, HubTypeOK, Closed, Ready, Task, Pc, Event
  <1>1. CASE task[c].todo # {r}
    <2>1. [task[c] EXCEPT !.pc = "ask", !.todo = task[c].todo \ {r}] \in Task
      BY <1>0 DEF Task, Pc
    <2>2. task' = [task EXCEPT ![c] = [task[c] EXCEPT !.pc = "ask", !.todo = task[c].todo \ {r}]]
      BY <1>1 DEF Resume, Goto
    <2>3. task'[c] = [task[c] EXCEPT !.pc = "ask", !.todo = task[c].todo \ {r}]
      BY <1>0, <2>2
    <2>4. task'[c].pc = "ask" /\ task'[c].todo = task[c].todo \ {r}
      BY <1>0, <2>3 DEF Task
    <2> QED
      BY <1>0, <1>1, <2>1, <2>2, <2>4
  <1>2. CASE task[c].todo = {r}
    <2>1. PICK end \in {Closed, Ready} : task' = [task EXCEPT ![c] = end]
      BY <1>2 DEF Resume, Goto
    <2>2. task'[c] = end /\ end.todo = {} /\ end.pc \in {"closed", "idle"}
      BY <1>0, <2>1 DEF Closed, Ready
    <2> QED
      BY <1>0, <1>2, <2>1, <2>2
  <1> QED
    BY <1>1, <1>2

(* A connection leaves one room. *)
LEMMA Unsubscribed ==
    ASSUME HubInv, NEW c \in Conns, NEW r \in Rooms, Unsubscribe(c, r)
    PROVE  /\ rooms' \in [Conns -> SUBSET Rooms] /\ subscribers' \in [Rooms -> SUBSET Conns]
           /\ registered' = registered /\ MapsAgree'
           /\ \A x \in Rooms \ {r} : subscribers'[x] = subscribers[x]
           /\ subscribers'[r] = subscribers[r] \ {c}
  <1> USE DEF HubInv, HubTypeOK
  <1>1. /\ rooms' \in [Conns -> SUBSET Rooms] /\ subscribers' \in [Rooms -> SUBSET Conns]
        /\ registered' = registered
        /\ \A d \in Conns : rooms'[d] = IF d = c THEN rooms[d] \ {r} ELSE rooms[d]
        /\ \A x \in Rooms : subscribers'[x] = IF x = r THEN subscribers[x] \ {c} ELSE subscribers[x]
    BY DEF Unsubscribe
  <1>2. MapsAgree'
    BY <1>1 DEF MapsAgree
  <1> QED
    BY <1>1, <1>2

(* What the answer to a question changes in the maps. *)
LEMMA AnswerTold ==
    ASSUME HubInv, NEW c \in Conns, NEW r \in Rooms, NEW ok \in BOOLEAN, Answered(c, r, ok)
    PROVE  /\ rooms' \in [Conns -> SUBSET Rooms] /\ subscribers' \in [Rooms -> SUBSET Conns]
           /\ registered' \subseteq Conns /\ MapsAgree' /\ troubled' \subseteq Rooms
           /\ \A x \in Rooms \ {r} :
                  /\ subscribers'[x] = subscribers[x]
                  /\ x \in troubled => x \in troubled'
           /\ ok => subscribers'[r] = subscribers[r]
           /\ ~ok => r \in troubled'
  <1> USE DEF HubInv, HubTypeOK
  <1>1. /\ troubled' \subseteq Rooms
        /\ ~ok => r \in troubled'
        /\ \A x \in Rooms \ {r} : x \in troubled => x \in troubled'
    BY DEF Answered
  <1>2. CASE UNCHANGED maps
    <2>1. rooms' = rooms /\ subscribers' = subscribers /\ registered' = registered
      BY <1>2 DEF maps
    <2>2. MapsAgree'
      BY <2>1 DEF MapsAgree
    <2> QED
      BY <1>1, <2>1, <2>2
  <1>3. CASE ~ok /\ Unsubscribe(c, r)
    BY <1>1, <1>3, Unsubscribed
  <1> QED
    BY <1>2, <1>3 DEF Answered

(* What the end of a command changes for tasks, maps and history. *)
LEMMA Replied ==
    ASSUME HubInv, NEW cmd \in Command, Awaited(cmd), NEW ok \in BOOLEAN, Reply(cmd, ok)
    PROVE  /\ rooms' \in [Conns -> SUBSET Rooms] /\ subscribers' \in [Rooms -> SUBSET Conns]
           /\ registered' \subseteq Conns /\ MapsAgree' /\ troubled' \subseteq Rooms
           /\ task' \in [Conns -> Task]
           /\ \A c \in Conns : task'[c].todo # {} <=> task'[c].pc \in {"ask", "wait"}
           /\ \A c \in Conns : c # cmd.by => task'[c] = task[c]
           /\ cmd.by # None => task'[cmd.by].pc # "wait"
           /\ \A c \in Conns, x \in Rooms :
                  x \in task[c].todo /\ ~(c = cmd.by /\ x = cmd.room) => x \in task'[c].todo
           /\ \A x \in Rooms : x # cmd.room =>
                  /\ subscribers'[x] = subscribers[x]
                  /\ x \in troubled => x \in troubled'
           /\ ok => subscribers'[cmd.room] = subscribers[cmd.room]
           /\ ok /\ cmd.by = None => troubled' = troubled
           /\ ~ok => cmd.room \in troubled'
  <1>0. cmd.room \in Rooms /\ cmd.by \in Conns \cup {None}
    BY DEF Command
  <1>1. CASE cmd.by = None
    <2>1. /\ rooms' = rooms /\ subscribers' = subscribers /\ registered' = registered
          /\ task' = task
      BY <1>1 DEF Reply, maps
    <2>2. troubled' = IF ok THEN troubled ELSE troubled \cup {cmd.room}
      BY <1>1 DEF Reply
    <2>3. MapsAgree'
      BY <2>1 DEF MapsAgree, HubInv
    <2> QED
      BY <1>0, <1>1, <2>1, <2>2, <2>3 DEF HubInv, HubTypeOK, Shape
  <1>2. CASE cmd.by # None
    <2>1. cmd.by \in Conns /\ Resume(cmd.by, cmd.room) /\ Answered(cmd.by, cmd.room, ok)
      BY <1>0, <1>2 DEF Reply
    <2>2. task[cmd.by].pc \in {"ask", "wait"} /\ Asked(cmd.by, cmd.room)
      BY <1>2 DEF Awaited, At
    <2>3. /\ task' \in [Conns -> Task]
          /\ \A d \in Conns \ {cmd.by} : task'[d] = task[d]
          /\ task'[cmd.by].todo = task[cmd.by].todo \ {cmd.room}
          /\ task'[cmd.by].pc # "wait"
          /\ task'[cmd.by].todo # {} <=> task'[cmd.by].pc \in {"ask", "wait"}
      BY <1>0, <2>1, <2>2, Resumed
    <2>4. \A c \in Conns : task'[c].todo # {} <=> task'[c].pc \in {"ask", "wait"}
      BY <2>3 DEF HubInv, Shape
    <2>5. \A c \in Conns, x \in Rooms :
              x \in task[c].todo /\ ~(c = cmd.by /\ x = cmd.room) => x \in task'[c].todo
      BY <2>3
    <2>6. /\ rooms' \in [Conns -> SUBSET Rooms] /\ subscribers' \in [Rooms -> SUBSET Conns]
          /\ registered' \subseteq Conns /\ MapsAgree' /\ troubled' \subseteq Rooms
          /\ \A x \in Rooms \ {cmd.room} :
                 /\ subscribers'[x] = subscribers[x]
                 /\ x \in troubled => x \in troubled'
          /\ ok => subscribers'[cmd.room] = subscribers[cmd.room]
          /\ ~ok => cmd.room \in troubled'
      BY <1>0, <2>1, AnswerTold
    <2> QED
      BY <1>2, <2>3, <2>4, <2>5, <2>6
  <1> QED
    BY <1>1, <1>2

-----------------------------------------------------------------------------
(* Steps of a connection *)

(* A step that leaves the tasks, the hub and the queue alone and changes   *)
(* no subscription disturbs nothing.                                       *)
LEMMA NothingAsked ==
    ASSUME HubInv, UNCHANGED <<task, queue, hub, channels, troubled, subscribers>>
    PROVE  Shape' /\ Questions' /\ \A r \in Rooms : Follows(r)'
  <1>1. Shape'
    BY DEF HubInv, Shape, Working
  <1>2. Questions'
    <2>1. \A cmd \in Command : Awaited(cmd) => Awaited(cmd)'
      BY Zenon DEF Awaited, At, Asked
    <2> QED
      BY <2>1 DEF HubInv, Questions, Queued, At, Working
  <1>3. \A r \in Rooms : Follows(r)'
    BY DEF HubInv, Follows, LooksAgain, Serves, Working, Heading, InStep, Empty
  <1> QED
    BY <1>1, <1>2, <1>3

(* A task that was idle or asking gets something to ask about, or nothing: *)
(* the commands under way are those of other tasks.                        *)
LEMMA OtherQuestions ==
    ASSUME HubInv, NEW c \in Conns, ~At(c, "wait"), task' \in [Conns -> Task],
           \A d \in Conns \ {c} : task'[d] = task[d], task'[c].pc # "wait",
           queue' = queue, hub' = hub
    PROVE  Questions'
  <1> USE DEF HubInv, HubTypeOK, Questions
  <1>1. ASSUME NEW cmd \in Command, Awaited(cmd) PROVE Awaited(cmd)' /\ cmd.by # c
    <2>1. CASE cmd.by = None
      BY <2>1, NoneAssumption DEF Awaited
    <2>2. CASE cmd.by # None
      <3>1. cmd.by \in Conns /\ cmd.room \in Rooms /\ At(cmd.by, "wait") /\ Asked(cmd.by, cmd.room)
        BY <1>1, <2>2 DEF Awaited, Command
      <3>2. cmd.by # c /\ task'[cmd.by] = task[cmd.by]
        BY <3>1
      <3>3. Asked(cmd.by, cmd.room)'
        BY <3>1, <3>2, AskedStays
      <3> QED
        BY <3>1, <3>2, <3>3 DEF Awaited, At
    <2> QED
      BY <2>1, <2>2
  <1>2. \A k \in Command :
            /\ Queued(k)' = Queued(k)
            /\ (Working(hub) /\ hub.cmd = k)' = (Working(hub) /\ hub.cmd = k)
    BY DEF Queued, Working
  <1>3. \A d \in Conns : At(d, "wait")' => At(d, "wait")
    BY DEF At
  <1> QED
    BY <1>1, <1>2, <1>3 DEF Working

(* An idle task that serves an event: the rooms whose last or first        *)
(* subscriber the event changes are among those it asks about.             *)
LEMMA EventServed ==
    ASSUME HubInv, NEW c \in Conns, task[c].pc \in {"idle", "closed"}, NEW w \in Task,
           task' = [task EXCEPT ![c] = w], w.pc # "wait", w.todo # {} <=> w.pc = "ask",
           UNCHANGED <<queue, hub, channels, troubled>>,
           \A x \in Rooms : x \in w.todo \/ Empty(x)' = Empty(x)
    PROVE  /\ task' \in [Conns -> Task]
           /\ Shape' /\ Questions' /\ \A r \in Rooms : Follows(r)'
  <1> USE DEF HubInv, HubTypeOK
  <1>1. /\ task' \in [Conns -> Task]
        /\ \A d \in Conns : task'[d] = IF d = c THEN w ELSE task[d]
        /\ queue' = queue /\ hub' = hub /\ channels' = channels /\ troubled' = troubled
        /\ w.pc \in Pc
    BY DEF Task
  <1>2. task[c].todo = {}
    BY DEF Shape
  <1>3. Shape'
    BY <1>1 DEF Shape, Working, Pc
  <1>4. Questions'
    BY <1>1, OtherQuestions DEF At
  <1>5. Working(hub) => hub.cmd.by # c
    BY NoneAssumption DEF Questions, Awaited, At, HubRun, Shape
  <1>6. ASSUME NEW r \in Rooms PROVE Follows(r)'
    <2>1. Follows(r)
      OBVIOUS
    <2>2. CASE r \in w.todo
      BY <1>1, <1>5, <2>2 DEF Follows, LooksAgain, Serves, Working
    <2>3. CASE Empty(r)' = Empty(r)
      <3>1. InStep(r)' = InStep(r) /\ Heading(r)' = Heading(r) /\ Serves(r)' = Serves(r)
        BY <1>1, <2>3 DEF InStep, Heading, Serves, Working
      <3>2. LooksAgain(r) => LooksAgain(r)'
        BY <1>1, <1>2, <3>1 DEF LooksAgain
      <3> QED
        BY <1>1, <2>1, <3>1, <3>2 DEF Follows
    <2> QED
      BY <2>2, <2>3
  <1> QED
    BY <1>1, <1>3, <1>4, <1>6

(* subscribe_room: the task that was idle asks about the room if its       *)
(* connection is the first subscriber.                                     *)
LEMMA JoinStep ==
    ASSUME HubInv, NEW c \in Conns, NEW r \in Rooms, Join(c, r) PROVE HubInv'
  <1> USE DEF HubInv, HubTypeOK
  <1> DEFINE w == IF First(c, r) THEN [pc |-> "ask", event |-> "join", todo |-> {r}] ELSE task[c]
  <1>1. /\ task[c].pc = "idle" /\ task' = [task EXCEPT ![c] = w] /\ shutdown' = shutdown
        /\ c \in registered /\ Subscribe(c, r)
        /\ UNCHANGED <<queue, hub, channels, troubled>>
        /\ redis' = redis /\ link' = link /\ faults' = faults
    BY DEF Join, Goto, line, At
  <1>2. /\ rooms' \in [Conns -> SUBSET Rooms] /\ subscribers' \in [Rooms -> SUBSET Conns]
        /\ registered' = registered
        /\ \A d \in Conns : rooms'[d] = IF d = c THEN rooms[d] \cup {r} ELSE rooms[d]
        /\ \A x \in Rooms :
               subscribers'[x] = IF x = r THEN subscribers[x] \cup {c} ELSE subscribers[x]
    BY <1>1 DEF Subscribe
  <1>3. MapsAgree'
    <2>1. \A d \in Conns, x \in Rooms : x \in rooms'[d] <=> d \in subscribers'[x]
      BY <1>2 DEF MapsAgree
    <2>2. \A d \in Conns : rooms'[d] # {} => d \in registered'
      BY <1>1, <1>2 DEF MapsAgree
    <2> QED
      BY <2>1, <2>2 DEF MapsAgree
  <1>4. w \in Task /\ w.pc # "wait" /\ (w.todo # {} <=> w.pc = "ask")
    <2>1. [pc |-> "ask", event |-> "join", todo |-> {r}] \in Task
      BY DEF Task, Pc, Event
    <2>2. task[c] \in Task /\ task[c].todo = {}
      BY <1>1 DEF Shape
    <2> QED
      BY <1>1, <2>1, <2>2
  <1>5. \A x \in Rooms : x \in w.todo \/ Empty(x)' = Empty(x)
    BY <1>2 DEF First, Empty, MapsAgree
  <1>6. task' \in [Conns -> Task] /\ Shape' /\ Questions' /\ \A x \in Rooms : Follows(x)'
    BY <1>1, <1>4, <1>5, EventServed
  <1> QED
    BY <1>1, <1>2, <1>3, <1>6

(* unsubscribe_room: the task asks about the room if nobody is left in     *)
(* it.                                                                     *)
LEMMA LeaveStep ==
    ASSUME HubInv, NEW c \in Conns, NEW r \in Rooms, Leave(c, r) PROVE HubInv'
  <1> USE DEF HubInv, HubTypeOK
  <1> DEFINE w == IF subscribers[r] = {c} THEN [pc |-> "ask", event |-> "leave", todo |-> {r}]
                  ELSE task[c]
  <1>1. /\ task[c].pc = "idle" /\ task' = [task EXCEPT ![c] = w] /\ shutdown' = shutdown
        /\ r \in rooms[c] /\ Unsubscribe(c, r)
        /\ UNCHANGED <<queue, hub, channels, troubled>>
        /\ redis' = redis /\ link' = link /\ faults' = faults
    BY DEF Leave, Goto, line, At
  <1>2. /\ rooms' \in [Conns -> SUBSET Rooms] /\ subscribers' \in [Rooms -> SUBSET Conns]
        /\ registered' = registered /\ MapsAgree'
        /\ \A x \in Rooms \ {r} : subscribers'[x] = subscribers[x]
        /\ subscribers'[r] = subscribers[r] \ {c}
    BY <1>1, Unsubscribed
  <1>3. w \in Task /\ w.pc # "wait" /\ (w.todo # {} <=> w.pc = "ask")
    <2>1. [pc |-> "ask", event |-> "leave", todo |-> {r}] \in Task
      BY DEF Task, Pc, Event
    <2>2. task[c] \in Task /\ task[c].todo = {}
      BY <1>1 DEF Shape
    <2> QED
      BY <1>1, <2>1, <2>2
  <1>4. c \in subscribers[r]
    BY <1>1 DEF MapsAgree
  <1>5. \A x \in Rooms : x \in w.todo \/ Empty(x)' = Empty(x)
    BY <1>2, <1>4 DEF Empty
  <1>6. task' \in [Conns -> Task] /\ Shape' /\ Questions' /\ \A x \in Rooms : Follows(x)'
    BY <1>1, <1>3, <1>5, EventServed
  <1> QED
    BY <1>1, <1>2, <1>6

(* unregister_connection: the task asks about every room its connection    *)
(* was the last subscriber of.                                             *)
LEMMA CloseStep ==
    ASSUME HubInv, NEW c \in Conns, Close(c) PROVE HubInv'
  <1> USE DEF HubInv, HubTypeOK
  <1> DEFINE w == IF LeftEmpty(c) = {} THEN Closed
                  ELSE [pc |-> "ask", event |-> "close", todo |-> LeftEmpty(c)]
  <1>1. /\ task[c].pc = "idle" /\ task' = [task EXCEPT ![c] = w] /\ shutdown' = shutdown \ {c}
        /\ Unregister(c)
        /\ UNCHANGED <<queue, hub, channels, troubled>>
        /\ redis' = redis /\ link' = link /\ faults' = faults
    BY DEF Close, Goto, line, At
  <1>2. /\ rooms' \in [Conns -> SUBSET Rooms] /\ subscribers' \in [Rooms -> SUBSET Conns]
        /\ registered' = registered \ {c}
        /\ \A d \in Conns : rooms'[d] = IF d = c THEN {} ELSE rooms[d]
        /\ \A x \in Rooms : subscribers'[x] = subscribers[x] \ {c}
    BY <1>1 DEF Unregister
  <1>3. MapsAgree'
    BY <1>2 DEF MapsAgree
  <1>4. LeftEmpty(c) \subseteq Rooms
    BY DEF LeftEmpty
  <1>5. w \in Task /\ w.pc # "wait" /\ (w.todo # {} <=> w.pc = "ask")
    BY <1>4 DEF Task, Pc, Event, Closed
  <1>6. ASSUME NEW x \in Rooms PROVE x \in w.todo \/ Empty(x)' = Empty(x)
    <2>1. CASE c \in subscribers[x]
      <3>1. x \in rooms[c]
        BY <2>1 DEF MapsAgree
      <3>2. subscribers[x] = {c} => x \in w.todo
        BY <3>1 DEF LeftEmpty
      <3> QED
        BY <1>2, <2>1, <3>2 DEF Empty
    <2>2. CASE c \notin subscribers[x]
      BY <1>2, <2>2 DEF Empty
    <2> QED
      BY <2>1, <2>2
  <1>7. task' \in [Conns -> Task] /\ Shape' /\ Questions' /\ \A x \in Rooms : Follows(x)'
    BY <1>1, <1>5, <1>6, EventServed
  <1> QED
    BY <1>1, <1>2, <1>3, <1>7

(* A connection opens. *)
LEMMA OpenStep ==
    ASSUME HubInv, NEW c \in Conns, Open(c) PROVE HubInv'
  <1> USE DEF HubInv, HubTypeOK
  <1>1. /\ task[c].pc = "closed" /\ task' = [task EXCEPT ![c] = Ready] /\ shutdown' = shutdown
        /\ registered' = registered /\ rooms' = rooms /\ subscribers' = subscribers
        /\ UNCHANGED <<queue, hub, channels, troubled>>
        /\ redis' = redis /\ link' = link /\ faults' = faults
    BY DEF Open, Goto, maps, line, At
  <1>2. Ready \in Task /\ Ready.pc = "idle" /\ Ready.todo = {}
    BY DEF Ready, Task, Pc, Event
  <1>3. MapsAgree' /\ \A x \in Rooms : Empty(x)' = Empty(x)
    BY <1>1 DEF MapsAgree, Empty
  <1>4. task' \in [Conns -> Task] /\ Shape' /\ Questions' /\ \A x \in Rooms : Follows(x)'
    BY <1>1, <1>2, <1>3, EventServed
  <1> QED
    BY <1>1, <1>3, <1>4

(* Steps that only register, tell a connection to close, or happen to the  *)
(* link with Redis.                                                        *)
LEMMA QuietStep ==
    ASSUME HubInv,
           \/ \E c \in Conns : Auth(c) \/ DisconnectDevice(c)
           \/ LinkLost \/ Rebuild \/ UNCHANGED hubVars
    PROVE  HubInv'
  <1> USE DEF HubInv, HubTypeOK
  <1>1. /\ rooms' = rooms /\ subscribers' = subscribers /\ task' = task
        /\ queue' = queue /\ hub' = hub /\ channels' = channels /\ troubled' = troubled
        /\ registered' \subseteq Conns /\ registered \subseteq registered'
        /\ shutdown' \subseteq Conns /\ redis' \subseteq channels /\ link' \in {"up", "down"}
        /\ faults' \in 0..MaxFaults
    <2>1. CASE \E c \in Conns : Auth(c)
      BY <2>1 DEF Auth, line
    <2>2. CASE \E c \in Conns : DisconnectDevice(c)
      BY <2>2 DEF DisconnectDevice, line, maps
    <2>3. CASE LinkLost
      BY <2>3, FaultAssumption DEF LinkLost, Fault, maps
    <2>4. CASE Rebuild
      BY <2>4, FaultAssumption DEF Rebuild, Rebuilt, Fault, maps
    <2>5. CASE UNCHANGED hubVars
      BY <2>5 DEF hubVars, maps, line
    <2> QED
      BY <2>1, <2>2, <2>3, <2>4, <2>5
  <1>2. Shape' /\ Questions' /\ \A r \in Rooms : Follows(r)'
    BY <1>1, NothingAsked
  <1>3. MapsAgree'
    BY <1>1 DEF MapsAgree
  <1> QED
    BY <1>1, <1>2, <1>3

-----------------------------------------------------------------------------
(* A task asks, and gives up waiting *)

(* Without a hub the question is answered at once. *)
LEMMA AskInVain ==
    ASSUME HubInv, NEW c \in Conns, Ask(c), hub.pc = "stopped" PROVE HubInv'
  <1> USE DEF HubInv, HubTypeOK
  <1>1. PICK r \in Rooms :
            /\ task[c].pc = "ask" /\ Asked(c, r) /\ Resume(c, r) /\ Answered(c, r, FALSE)
            /\ UNCHANGED <<queue, shutdown, hub, channels, redis, link, faults>>
    BY DEF Ask, At
  <1>2. /\ task' \in [Conns -> Task]
        /\ \A d \in Conns \ {c} : task'[d] = task[d]
        /\ task'[c].todo = task[c].todo \ {r}
        /\ task'[c].pc # "wait"
        /\ task'[c].todo # {} <=> task'[c].pc \in {"ask", "wait"}
    BY <1>1, Resumed
  <1>3. /\ rooms' \in [Conns -> SUBSET Rooms] /\ subscribers' \in [Rooms -> SUBSET Conns]
        /\ registered' \subseteq Conns /\ MapsAgree' /\ troubled' \subseteq Rooms
        /\ \A x \in Rooms \ {r} :
               /\ subscribers'[x] = subscribers[x]
               /\ x \in troubled => x \in troubled'
        /\ r \in troubled'
    BY <1>1, AnswerTold
  <1>4. Shape'
    BY <1>1, <1>2 DEF Shape, Working
  <1>5. Questions'
    BY <1>1, <1>2, OtherQuestions DEF At
  <1>6. ~Working(hub) /\ ~Working(hub)'
    BY <1>1 DEF Working
  <1>7. ASSUME NEW x \in Rooms PROVE Follows(x)'
    <2>1. CASE x = r
      BY <1>3, <1>6, <2>1 DEF Follows, Serves
    <2>2. CASE x # r
      <3>1. Follows(x) /\ InStep(x)' = InStep(x)
        BY <1>1, <1>3, <2>2 DEF InStep, Empty
      <3>2. LooksAgain(x) => LooksAgain(x)'
        BY <1>1, <1>2, <1>6, <2>2 DEF LooksAgain, Serves
      <3> QED
        BY <1>3, <1>6, <2>2, <3>1, <3>2 DEF Follows, Serves
    <2> QED
      BY <2>1, <2>2
  <1> QED
    BY <1>1, <1>2, <1>3, <1>4, <1>5, <1>7

(* Otherwise the task's command is queued, the only one of its own. *)
LEMMA AskStep ==
    ASSUME HubInv, NEW c \in Conns, Ask(c), hub.pc # "stopped" PROVE HubInv'
  <1> USE DEF HubInv, HubTypeOK
  <1>1. PICK r \in Rooms :
            /\ task[c].pc = "ask" /\ Asked(c, r)
            /\ task' = [task EXCEPT ![c] = [task[c] EXCEPT !.pc = "wait"]]
            /\ queue' = Append(queue, [room |-> r, by |-> c])
            /\ rooms' = rooms /\ subscribers' = subscribers /\ registered' = registered
            /\ troubled' = troubled
            /\ UNCHANGED <<shutdown, hub, channels, redis, link, faults>>
    BY DEF Ask, At, Goto, maps
  <1> DEFINE cmd == [room |-> r, by |-> c]
  <1>2. cmd \in Command /\ cmd.room = r /\ cmd.by = c
    BY DEF Command
  <1>3. PICK n \in DOMAIN queue' :
            /\ queue' \in Seq(Command) /\ DOMAIN queue' = DOMAIN queue \cup {n}
            /\ n \notin DOMAIN queue /\ queue'[n] = cmd
            /\ \A i \in DOMAIN queue : queue'[i] = queue[i]
    BY <1>1, <1>2, QueueWithOneMore
  <1>4. /\ task[c] \in Task /\ [task[c] EXCEPT !.pc = "wait"] \in Task
        /\ task' \in [Conns -> Task]
        /\ \A d \in Conns \ {c} : task'[d] = task[d]
        /\ task'[c].pc = "wait" /\ task'[c].todo = task[c].todo
    BY <1>1 DEF Task, Pc
  <1>5. c # None
    BY NoneAssumption
  <1>6. MapsAgree'
    BY <1>1 DEF MapsAgree
  <1>7. Shape'
    BY <1>1, <1>4 DEF Shape, Working
  <1>8. Asked(c, r)'
    BY <1>1, <1>4, AskedStays
  <1>9. ASSUME NEW k \in Command, Awaited(k) PROVE Awaited(k)' /\ (k.by # c)
    <2>1. CASE k.by = None
      BY <1>5, <2>1 DEF Awaited
    <2>2. CASE k.by # None
      <3>1. k.by \in Conns /\ k.room \in Rooms /\ At(k.by, "wait") /\ Asked(k.by, k.room)
        BY <1>9, <2>2 DEF Awaited, Command
      <3>2. k.by # c /\ task'[k.by] = task[k.by]
        BY <1>1, <1>4, <3>1 DEF At
      <3>3. Asked(k.by, k.room)'
        BY <3>1, <3>2, AskedStays
      <3> QED
        BY <3>1, <3>2, <3>3 DEF Awaited, At
    <2> QED
      BY <2>1, <2>2
  <1>10. ASSUME NEW k \in Command, k = cmd PROVE Awaited(k)'
    <2>1. k.by = c /\ k.room = r
      BY <1>2, <1>10
    <2> QED
      BY <1>4, <1>8, <2>1 DEF Awaited, At
  <1>11. ASSUME NEW i \in DOMAIN queue PROVE queue[i] \in Command /\ queue[i].by # c
    <2>1. PICK k \in Command : k = queue[i]
      OBVIOUS
    <2>2. Queued(k)
      BY <2>1 DEF Queued
    <2> QED
      BY <1>9, <2>1, <2>2 DEF Questions
  <1>12. Working(hub) => hub.cmd \in Command /\ hub.cmd.by # c
    BY <1>9 DEF HubRun, Shape, Questions
  <1>13. Questions'
    <2>1. ASSUME NEW k \in Command, Queued(k)' PROVE Awaited(k)'
      <3>1. Queued(k) \/ k = cmd
        BY <1>3, <2>1 DEF Queued
      <3> QED
        BY <1>9, <1>10, <3>1 DEF Questions
    <2>2. ASSUME NEW k \in Command, Working(hub)', hub'.cmd = k PROVE Awaited(k)'
      BY <1>1, <1>9, <2>2 DEF Working, Questions
    <2>3. \A i, j \in DOMAIN queue' :
              queue'[i].by = queue'[j].by /\ queue'[i].by # None => i = j
      BY <1>2, <1>3, <1>9, <1>11 DEF Questions
    <2>4. Working(hub)' /\ hub'.cmd.by # None =>
              \A i \in DOMAIN queue' : queue'[i].by # hub'.cmd.by
      BY <1>1, <1>2, <1>3, <1>9, <1>12 DEF Questions, Working
    <2>5. ASSUME NEW d \in Conns, At(d, "wait")'
          PROVE  \/ \E i \in DOMAIN queue' : queue'[i].by = d
                 \/ Working(hub)' /\ hub'.cmd.by = d
      <3>1. CASE d = c
        BY <1>2, <1>3, <3>1
      <3>2. CASE d # c
        <4>1. At(d, "wait")
          BY <1>4, <2>5, <3>2 DEF At
        <4> QED
          BY <1>1, <1>3, <4>1 DEF Questions, Working
      <3> QED
        BY <3>1, <3>2
    <2> QED
      BY <2>1, <2>2, <2>3, <2>4, <2>5 DEF Questions
  <1>14. ASSUME NEW x \in Rooms PROVE Follows(x)'
    <2>1. \A d \in Conns : task'[d].todo = task[d].todo
      BY <1>4
    <2>2. LooksAgain(x) => LooksAgain(x)'
      BY <1>1, <1>3, <2>1 DEF LooksAgain, Serves, Working
    <2>3. /\ Serves(x)' = Serves(x) /\ Heading(x)' = Heading(x) /\ InStep(x)' = InStep(x)
          /\ hub' = hub /\ troubled' = troubled
      BY <1>1 DEF Serves, Working, Heading, InStep, Empty
    <2> QED
      BY <2>2, <2>3 DEF Follows
  <1> QED
    BY <1>1, <1>3, <1>4, <1>6, <1>7, <1>13, <1>14

(* A command whose task no longer waits keeps its room.                    *)
LEMMA UnawaitedCommand ==
    ASSUME NEW cmd \in Command, NEW c \in Conns
    PROVE  /\ Unawaited(cmd, c) \in Command
           /\ Unawaited(cmd, c).room = cmd.room
           /\ Unawaited(cmd, c).by = IF cmd.by = c THEN None ELSE cmd.by
           /\ cmd.by # c => Unawaited(cmd, c) = cmd
  BY CommandAssumption DEF Unawaited, Command

(* The answer comes too late: the command stays, on nobody's account.      *)
LEMMA TimeoutStep ==
    ASSUME HubInv, NEW c \in Conns, Timeout(c) PROVE HubInv'
  <1> USE DEF HubInv, HubTypeOK
  <1>1. PICK r \in Rooms :
            /\ task[c].pc = "wait" /\ Asked(c, r) /\ Resume(c, r) /\ Answered(c, r, FALSE)
            /\ queue' = [i \in DOMAIN queue |-> Unawaited(queue[i], c)]
            /\ hub' = [hub EXCEPT !.cmd = Unawaited(hub.cmd, c)]
            /\ UNCHANGED <<shutdown, channels, redis, link>> /\ Fault
    BY DEF Timeout, At
  <1>2. /\ task' \in [Conns -> Task]
        /\ \A d \in Conns \ {c} : task'[d] = task[d]
        /\ task'[c].todo = task[c].todo \ {r}
        /\ task'[c].pc # "wait"
        /\ task'[c].todo # {} <=> task'[c].pc \in {"ask", "wait"}
    BY <1>1, Resumed
  <1>3. /\ rooms' \in [Conns -> SUBSET Rooms] /\ subscribers' \in [Rooms -> SUBSET Conns]
        /\ registered' \subseteq Conns /\ MapsAgree' /\ troubled' \subseteq Rooms
        /\ \A x \in Rooms \ {r} :
               /\ subscribers'[x] = subscribers[x]
               /\ x \in troubled => x \in troubled'
        /\ r \in troubled'
    BY <1>1, AnswerTold
  <1>4. c # None
    BY NoneAssumption
  <1>5. /\ queue' \in Seq(Command) /\ DOMAIN queue' = DOMAIN queue
        /\ \A i \in DOMAIN queue :
               /\ queue[i] \in Command /\ queue'[i].room = queue[i].room
               /\ queue'[i].by = IF queue[i].by = c THEN None ELSE queue[i].by
               /\ queue[i].by # c => queue'[i] = queue[i]
    <2>1. \A i \in DOMAIN queue : queue[i] \in Command
      OBVIOUS
    <2>2. \A i \in DOMAIN queue :
              /\ Unawaited(queue[i], c) \in Command
              /\ Unawaited(queue[i], c).room = queue[i].room
              /\ Unawaited(queue[i], c).by = IF queue[i].by = c THEN None ELSE queue[i].by
              /\ queue[i].by # c => Unawaited(queue[i], c) = queue[i]
      BY <2>1, UnawaitedCommand
    <2>3. DOMAIN queue = 1..Len(queue) /\ Len(queue) \in Nat
      OBVIOUS
    <2>4. [i \in 1..Len(queue) |-> Unawaited(queue[i], c)] \in Seq(Command)
      BY <2>2, <2>3
    <2> QED
      BY <1>1, <2>1, <2>2, <2>3, <2>4
  <1>6. /\ hub' \in HubRun /\ hub'.pc = hub.pc /\ Working(hub)' = Working(hub)
        /\ ~Working(hub) => hub.cmd = None /\ hub'.cmd = None
        /\ Working(hub) =>
               /\ hub.cmd \in Command /\ hub'.cmd \in Command /\ hub'.cmd.room = hub.cmd.room
               /\ hub'.cmd.by = IF hub.cmd.by = c THEN None ELSE hub.cmd.by
               /\ hub.cmd.by # c => hub'.cmd = hub.cmd
    <2>1. hub'.pc = hub.pc /\ hub'.cmd = Unawaited(hub.cmd, c)
      BY <1>1 DEF HubRun
    <2>2. Working(hub)' = Working(hub)
      BY <2>1 DEF Working
    <2>3. CASE ~Working(hub)
      <3>1. hub.cmd = None /\ hub'.cmd = None
        BY <2>1, <2>3 DEF Shape, Unawaited
      <3> QED
        BY <1>1, <2>1, <2>2, <2>3, <3>1 DEF HubRun
    <2>4. CASE Working(hub)
      <3>1. hub.cmd \in Command
        BY <2>4 DEF Shape, HubRun
      <3> QED
        BY <1>1, <2>1, <2>2, <2>4, <3>1, UnawaitedCommand DEF HubRun
    <2> QED
      BY <2>3, <2>4
  <1>7. Shape'
    BY <1>2, <1>6, CommandAssumption DEF Shape
  <1>8. Questions'
    <2>1. ASSUME NEW k \in Command, Awaited(k), k.by # c PROVE Awaited(k)'
      <3>1. CASE k.by = None
        BY <3>1 DEF Awaited
      <3>2. CASE k.by # None
        <4>1. k.by \in Conns /\ k.room \in Rooms /\ At(k.by, "wait") /\ Asked(k.by, k.room)
          BY <2>1, <3>2 DEF Awaited, Command
        <4>2. task'[k.by] = task[k.by]
          BY <1>2, <2>1, <4>1
        <4>3. Asked(k.by, k.room)'
          BY <4>1, <4>2, AskedStays
        <4> QED
          BY <4>1, <4>2, <4>3 DEF Awaited, At
      <3> QED
        BY <3>1, <3>2
    <2>2. ASSUME NEW k \in Command, Queued(k)' PROVE Awaited(k)'
      <3>1. PICK i \in DOMAIN queue : queue'[i] = k
        BY <1>5, <2>2 DEF Queued
      <3>2. CASE queue[i].by = c
        BY <1>5, <3>1, <3>2 DEF Awaited
      <3>3. CASE queue[i].by # c
        BY <1>5, <2>1, <3>1, <3>3 DEF Questions, Queued
      <3> QED
        BY <3>2, <3>3
    <2>3. ASSUME NEW k \in Command, Working(hub)', hub'.cmd = k PROVE Awaited(k)'
      <3>1. CASE hub.cmd.by = c
        BY <1>6, <2>3, <3>1 DEF Awaited
      <3>2. CASE hub.cmd.by # c
        BY <1>6, <2>1, <2>3, <3>2 DEF Questions
      <3> QED
        BY <3>1, <3>2
    <2>4. \A i, j \in DOMAIN queue' :
              queue'[i].by = queue'[j].by /\ queue'[i].by # None => i = j
      BY <1>5 DEF Questions
    <2>5. Working(hub)' /\ hub'.cmd.by # None =>
              \A i \in DOMAIN queue' : queue'[i].by # hub'.cmd.by
      BY <1>5, <1>6 DEF Questions
    <2>6. ASSUME NEW d \in Conns, At(d, "wait")'
          PROVE  \/ \E i \in DOMAIN queue' : queue'[i].by = d
                 \/ Working(hub)' /\ hub'.cmd.by = d
      <3>1. d # c /\ At(d, "wait")
        BY <1>2, <2>6 DEF At
      <3> QED
        BY <1>5, <1>6, <3>1 DEF Questions
    <2> QED
      BY <2>2, <2>3, <2>4, <2>5, <2>6 DEF Questions
  <1>9. ASSUME NEW x \in Rooms PROVE Follows(x)'
    <2>1. Serves(x)' = Serves(x)
      BY <1>6 DEF Serves
    <2>2. CASE x = r
      <3>1. CASE \E i \in DOMAIN queue : queue[i].by = c
        <4>1. PICK i \in DOMAIN queue, k \in Command : queue[i] = k /\ k.by = c
          BY <1>5, <3>1
        <4>2. Asked(c, k.room)
          BY <1>4, <4>1 DEF Questions, Queued, Awaited
        <4>3. k.room = r
          BY <1>1, <4>2 DEF Asked
        <4> QED
          BY <1>5, <2>2, <4>1, <4>3 DEF Follows, LooksAgain
      <3>2. CASE Working(hub) /\ hub.cmd.by = c
        BY <1>3, <1>6, <2>2, <3>2 DEF Follows
      <3> QED
        BY <1>1, <3>1, <3>2 DEF Questions, At
    <2>3. CASE x # r
      <3>1. InStep(x)' = InStep(x) /\ Heading(x)' = Heading(x)
        BY <1>1, <1>3, <1>6, <2>3 DEF InStep, Heading, Empty
      <3>2. LooksAgain(x) => LooksAgain(x)'
        <4>1. CASE \E i \in DOMAIN queue : queue[i].room = x
          BY <1>5, <4>1 DEF LooksAgain
        <4>2. CASE \E d \in Conns : x \in task[d].todo /\ ~(Serves(x) /\ hub.cmd.by = d)
          BY <1>2, <1>6, <2>1, <2>3, <4>2, NoneAssumption DEF LooksAgain, Serves
        <4> QED
          BY <4>1, <4>2 DEF LooksAgain
      <3>3. Serves(x) /\ hub.cmd.by = None => hub'.cmd.by = None
        BY <1>4, <1>6 DEF Serves
      <3>4. x \in troubled => x \in troubled'
        BY <1>3, <2>3
      <3> QED
        BY <2>1, <3>1, <3>2, <3>3, <3>4 DEF Follows
    <2> QED
      BY <2>2, <2>3
  <1>10. /\ faults' \in 0..MaxFaults /\ shutdown' = shutdown /\ channels' = channels
         /\ redis' = redis /\ link' = link
    BY <1>1, FaultAssumption DEF Fault
  <1> QED
    BY <1>2, <1>3, <1>5, <1>6, <1>7, <1>8, <1>9, <1>10

-----------------------------------------------------------------------------
(* Steps of the hub *)

(* The hub goes idle after it has replied to a command that is in nobody's *)
(* hands any more; left is the part of the queue it has not taken.         *)
LEMMA RepliedQuestions ==
    ASSUME HubInv, NEW cmd \in Command, Awaited(cmd), NEW ok \in BOOLEAN, Reply(cmd, ok),
           hub' = HubIdle,
           \A k \in Command : Queued(k)' => Queued(k) /\ (k.by = cmd.by => k.by = None),
           \A i, j \in DOMAIN queue' :
               queue'[i].by = queue'[j].by /\ queue'[i].by # None => i = j,
           \A d \in Conns : At(d, "wait") /\ d # cmd.by =>
               \E i \in DOMAIN queue' : queue'[i].by = d
    PROVE  Shape' /\ Questions'
  <1>1. /\ \A c \in Conns : task'[c].todo # {} <=> task'[c].pc \in {"ask", "wait"}
        /\ \A c \in Conns : c # cmd.by => task'[c] = task[c]
        /\ cmd.by # None => task'[cmd.by].pc # "wait"
    BY Replied
  <1>2. ~Working(hub)' /\ hub'.cmd = None
    BY DEF Working, HubIdle
  <1>3. Shape'
    BY <1>1, <1>2 DEF Shape
  <1>4. ASSUME NEW k \in Command, Queued(k)' PROVE Awaited(k)'
    <2>1. CASE k.by = None
      BY <2>1 DEF Awaited
    <2>2. CASE k.by # None
      <3>1. k.by \in Conns /\ k.room \in Rooms /\ At(k.by, "wait") /\ Asked(k.by, k.room)
        BY <1>4, <2>2 DEF Awaited, Command, HubInv, Questions
      <3>2. k.by # cmd.by /\ task'[k.by] = task[k.by]
        BY <1>1, <1>4, <2>2, <3>1
      <3>3. Asked(k.by, k.room)'
        BY <3>1, <3>2, AskedStays
      <3> QED
        BY <3>1, <3>2, <3>3 DEF Awaited, At
    <2> QED
      BY <2>1, <2>2
  <1>5. ASSUME NEW d \in Conns, At(d, "wait")' PROVE At(d, "wait") /\ d # cmd.by
    <2>1. d # cmd.by
      BY <1>1, <1>5, NoneAssumption DEF At
    <2> QED
      BY <1>1, <1>5, <2>1 DEF At
  <1> QED
    BY <1>2, <1>3, <1>4, <1>5 DEF Questions

(* What is left of the queue keeps its places apart, and nobody is left    *)
(* out but the command that is taken.                                      *)
LEMMA TakenFromQueue ==
    ASSUME HubInv, hub.pc = "idle", queue # <<>>, queue' = Tail(queue)
    PROVE  \E cmd \in Command :
             /\ cmd = Head(queue) /\ Awaited(cmd) /\ queue' \in Seq(Command)
             /\ hub = HubIdle /\ ~Working(hub)
             /\ \A k \in Command : Queued(k)' => Queued(k) /\ (k.by = cmd.by => k.by = None)
             /\ \A i, j \in DOMAIN queue' :
                    queue'[i].by = queue'[j].by /\ queue'[i].by # None => i = j
             /\ \A i \in DOMAIN queue' : queue'[i].by = cmd.by => cmd.by = None
             /\ \A d \in Conns : At(d, "wait") /\ d # cmd.by =>
                    \E i \in DOMAIN queue' : queue'[i].by = d
             /\ \A x \in Rooms : x # cmd.room /\ (\E i \in DOMAIN queue : queue[i].room = x) =>
                    \E i \in DOMAIN queue' : queue'[i].room = x
  <1> USE DEF HubInv, HubTypeOK
  <1>1. /\ 1 \in DOMAIN queue /\ Head(queue) = queue[1] /\ queue[1] \in Command
        /\ queue' \in Seq(Command)
        /\ \A i \in DOMAIN queue' :
               i + 1 \in DOMAIN queue /\ i + 1 # 1 /\ queue'[i] = queue[i + 1]
        /\ \A i, j \in DOMAIN queue' : i + 1 = j + 1 => i = j
        /\ \A i \in DOMAIN queue : i # 1 => \E j \in DOMAIN queue' : queue'[j] = queue[i]
    BY TailOfQueue
  <1>2. PICK cmd \in Command : cmd = Head(queue) /\ cmd = queue[1]
    BY <1>1
  <1>3. Awaited(cmd)
    BY <1>1, <1>2 DEF Questions, Queued
  <1>4. hub = HubIdle /\ ~Working(hub)
    <2>1. hub.cmd = None /\ ~Working(hub)
      BY DEF Shape, Working
    <2> QED
      BY <2>1 DEF HubIdle, HubRun
  <1>5. ASSUME NEW i \in DOMAIN queue', queue'[i].by = cmd.by PROVE cmd.by = None
    <2>1. i + 1 \in DOMAIN queue /\ i + 1 # 1 /\ queue[i + 1].by = queue[1].by
      BY <1>1, <1>2, <1>5
    <2> QED
      BY <1>1, <1>2, <2>1 DEF Questions
  <1>6. ASSUME NEW k \in Command, Queued(k)' PROVE Queued(k) /\ (k.by = cmd.by => k.by = None)
    <2>1. PICK i \in DOMAIN queue' : queue'[i] = k
      BY <1>6 DEF Queued
    <2>2. Queued(k)
      BY <1>1, <2>1 DEF Queued
    <2> QED
      BY <1>5, <2>1, <2>2
  <1>7. ASSUME NEW i \in DOMAIN queue', NEW j \in DOMAIN queue',
               queue'[i].by = queue'[j].by, queue'[i].by # None
        PROVE  i = j
    <2>1. /\ i + 1 \in DOMAIN queue /\ j + 1 \in DOMAIN queue
          /\ queue[i + 1].by = queue[j + 1].by /\ queue[i + 1].by # None
      BY <1>1, <1>7
    <2>2. i + 1 = j + 1
      BY <2>1 DEF Questions
    <2> QED
      BY <1>1, <2>2
  <1>8. ASSUME NEW d \in Conns, At(d, "wait"), d # cmd.by
        PROVE  \E i \in DOMAIN queue' : queue'[i].by = d
    <2>1. PICK i \in DOMAIN queue : queue[i].by = d
      BY <1>4, <1>8 DEF Questions
    <2> QED
      BY <1>1, <1>2, <1>8, <2>1
  <1>9. ASSUME NEW x \in Rooms, x # cmd.room, \E i \in DOMAIN queue : queue[i].room = x
        PROVE  \E i \in DOMAIN queue' : queue'[i].room = x
    <2>1. PICK i \in DOMAIN queue : queue[i].room = x
      BY <1>9
    <2> QED
      BY <1>1, <1>2, <1>9, <2>1
  <1> QED
    BY <1>1, <1>2, <1>3, <1>4, <1>5, <1>6, <1>7, <1>8, <1>9

(* A command the channels already agree with is answered when it is taken. *)
LEMMA TakeAgreed ==
    ASSUME HubInv, Take, Empty(Head(queue).room) = (Head(queue).room \notin channels)
    PROVE  HubInv'
  <1> USE DEF HubInv, HubTypeOK
  <1>1. /\ hub.pc = "idle" /\ queue # <<>> /\ queue' = Tail(queue)
        /\ Reply(Head(queue), TRUE)
        /\ UNCHANGED <<hub, shutdown, channels, redis, link, faults>>
    BY DEF Take
  <1>2. PICK cmd \in Command :
            /\ cmd = Head(queue) /\ Awaited(cmd) /\ queue' \in Seq(Command)
            /\ hub = HubIdle /\ ~Working(hub)
            /\ \A k \in Command : Queued(k)' => Queued(k) /\ (k.by = cmd.by => k.by = None)
            /\ \A i, j \in DOMAIN queue' :
                   queue'[i].by = queue'[j].by /\ queue'[i].by # None => i = j
            /\ \A d \in Conns : At(d, "wait") /\ d # cmd.by =>
                   \E i \in DOMAIN queue' : queue'[i].by = d
            /\ \A x \in Rooms : x # cmd.room /\ (\E i \in DOMAIN queue : queue[i].room = x) =>
                   \E i \in DOMAIN queue' : queue'[i].room = x
    BY <1>1, TakenFromQueue
  <1>3. Reply(cmd, TRUE) /\ Empty(cmd.room) = (cmd.room \notin channels)
    BY <1>1, <1>2
  <1>4. /\ rooms' \in [Conns -> SUBSET Rooms] /\ subscribers' \in [Rooms -> SUBSET Conns]
        /\ registered' \subseteq Conns /\ MapsAgree' /\ troubled' \subseteq Rooms
        /\ task' \in [Conns -> Task]
        /\ \A c \in Conns, x \in Rooms :
               x \in task[c].todo /\ ~(c = cmd.by /\ x = cmd.room) => x \in task'[c].todo
        /\ \A x \in Rooms : x # cmd.room =>
               /\ subscribers'[x] = subscribers[x]
               /\ x \in troubled => x \in troubled'
        /\ subscribers'[cmd.room] = subscribers[cmd.room]
    BY <1>2, <1>3, Replied
  <1>5. Shape' /\ Questions'
    BY <1>1, <1>2, <1>3, RepliedQuestions
  <1>6. ASSUME NEW x \in Rooms PROVE Follows(x)'
    <2>1. ~Serves(x) /\ ~Serves(x)'
      BY <1>1, <1>2 DEF Serves, Working
    <2>2. InStep(x)' = InStep(x)
      BY <1>1, <1>4 DEF InStep, Empty
    <2>3. CASE x = cmd.room
      <3>1. InStep(x)
        BY <1>3, <2>3 DEF InStep
      <3> QED
        BY <2>1, <2>2, <3>1 DEF Follows
    <2>4. CASE x # cmd.room
      <3>1. LooksAgain(x) => LooksAgain(x)'
        BY <1>2, <1>4, <2>1, <2>4 DEF LooksAgain
      <3> QED
        BY <1>4, <2>1, <2>2, <2>4, <3>1 DEF Follows
    <2> QED
      BY <2>3, <2>4
  <1> QED
    BY <1>1, <1>2, <1>4, <1>5, <1>6

(* Otherwise the hub sets out in the direction the room has at that moment. *)
LEMMA TakeAnew ==
    ASSUME HubInv, Take, Empty(Head(queue).room) # (Head(queue).room \notin channels)
    PROVE  HubInv'
  <1> USE DEF HubInv, HubTypeOK
  <1>1. /\ hub.pc = "idle" /\ queue # <<>> /\ queue' = Tail(queue)
        /\ hub' = [pc |-> IF Empty(Head(queue).room) THEN "unsubscribing" ELSE "subscribing",
                   cmd |-> Head(queue)]
        /\ UNCHANGED <<maps, task, troubled, shutdown, channels, redis, link, faults>>
    BY DEF Take
  <1>2. PICK cmd \in Command :
            /\ cmd = Head(queue) /\ Awaited(cmd) /\ queue' \in Seq(Command)
            /\ hub = HubIdle /\ ~Working(hub)
            /\ \A k \in Command : Queued(k)' => Queued(k) /\ (k.by = cmd.by => k.by = None)
            /\ \A i, j \in DOMAIN queue' :
                   queue'[i].by = queue'[j].by /\ queue'[i].by # None => i = j
            /\ \A i \in DOMAIN queue' : queue'[i].by = cmd.by => cmd.by = None
            /\ \A d \in Conns : At(d, "wait") /\ d # cmd.by =>
                   \E i \in DOMAIN queue' : queue'[i].by = d
            /\ \A x \in Rooms : x # cmd.room /\ (\E i \in DOMAIN queue : queue[i].room = x) =>
                   \E i \in DOMAIN queue' : queue'[i].room = x
    BY <1>1, TakenFromQueue
  <1>3. /\ rooms' = rooms /\ subscribers' = subscribers /\ registered' = registered
        /\ task' = task /\ troubled' = troubled /\ ~Working(hub) /\ Working(hub)'
        /\ hub' \in HubRun /\ hub'.cmd = cmd
        /\ hub'.pc = "subscribing" <=> ~Empty(cmd.room)
    BY <1>1, <1>2 DEF maps, Working, HubRun, HubPc
  <1>4. MapsAgree'
    BY <1>3 DEF MapsAgree
  <1>5. Shape'
    BY <1>3, CommandAssumption DEF Shape
  <1>6. Questions'
    <2>1. ASSUME NEW k \in Command, Queued(k) \/ k = cmd PROVE Awaited(k)'
      <3>1. Awaited(k)
        BY <1>2, <2>1 DEF Questions
      <3>2. CASE k.by = None
        BY <3>2 DEF Awaited
      <3>3. CASE k.by # None
        <4>1. k.by \in Conns /\ k.room \in Rooms /\ At(k.by, "wait") /\ Asked(k.by, k.room)
          BY <3>1, <3>3 DEF Awaited, Command
        <4>2. Asked(k.by, k.room)'
          BY <1>3, <4>1, AskedStays
        <4> QED
          BY <1>3, <4>1, <4>2 DEF Awaited, At
      <3> QED
        BY <3>2, <3>3
    <2>2. ASSUME NEW d \in Conns, At(d, "wait")'
          PROVE  \/ \E i \in DOMAIN queue' : queue'[i].by = d
                 \/ Working(hub)' /\ hub'.cmd.by = d
      BY <1>2, <1>3, <2>2 DEF At
    <2> QED
      BY <1>2, <1>3, <2>1, <2>2 DEF Questions
  <1>7. ASSUME NEW x \in Rooms PROVE Follows(x)'
    <2>1. Serves(x)' <=> x = cmd.room
      BY <1>3 DEF Serves
    <2>2. CASE x = cmd.room
      BY <1>3, <2>1, <2>2 DEF Follows, Heading, Empty
    <2>3. CASE x # cmd.room
      <3>1. ~Serves(x) /\ InStep(x)' = InStep(x)
        BY <1>1, <1>3 DEF Serves, InStep, Empty
      <3>2. LooksAgain(x) => LooksAgain(x)'
        BY <1>2, <1>3, <2>1, <2>3 DEF LooksAgain, Serves
      <3> QED
        BY <1>3, <2>1, <2>3, <3>1, <3>2 DEF Follows
    <2> QED
      BY <2>2, <2>3
  <1> QED
    BY <1>1, <1>2, <1>3, <1>4, <1>5, <1>6, <1>7

(* The command under way ends, one way or the other. *)
LEMMA EndOfCommand ==
    ASSUME HubInv, NEW ok \in BOOLEAN, Working(hub), Reply(hub.cmd, ok), hub' = HubIdle,
           queue' = queue, channels' \subseteq Rooms,
           \A x \in Rooms : x # hub.cmd.room => (x \in channels' <=> x \in channels),
           ok => (hub.cmd.room \in channels' <=> hub.pc = "subscribing")
    PROVE  /\ rooms' \in [Conns -> SUBSET Rooms] /\ subscribers' \in [Rooms -> SUBSET Conns]
           /\ registered' \subseteq Conns /\ MapsAgree' /\ troubled' \subseteq Rooms
           /\ task' \in [Conns -> Task] /\ hub' \in HubRun
           /\ Shape' /\ Questions' /\ \A x \in Rooms : Follows(x)'
  <1> USE DEF HubInv, HubTypeOK
  <1>1. PICK cmd \in Command : cmd = hub.cmd
    BY DEF Shape, HubRun
  <1>2. Awaited(cmd) /\ Reply(cmd, ok)
    BY <1>1 DEF Questions
  <1>3. /\ rooms' \in [Conns -> SUBSET Rooms] /\ subscribers' \in [Rooms -> SUBSET Conns]
        /\ registered' \subseteq Conns /\ MapsAgree' /\ troubled' \subseteq Rooms
        /\ task' \in [Conns -> Task]
        /\ \A c \in Conns, x \in Rooms :
               x \in task[c].todo /\ ~(c = cmd.by /\ x = cmd.room) => x \in task'[c].todo
        /\ \A x \in Rooms : x # cmd.room =>
               /\ subscribers'[x] = subscribers[x]
               /\ x \in troubled => x \in troubled'
        /\ ok => subscribers'[cmd.room] = subscribers[cmd.room]
        /\ ok /\ cmd.by = None => troubled' = troubled
        /\ ~ok => cmd.room \in troubled'
    BY <1>2, Replied
  <1>4. Shape' /\ Questions'
    <2>1. \A k \in Command : Queued(k)' => Queued(k) /\ (k.by = cmd.by => k.by = None)
      BY <1>1 DEF Queued, Questions
    <2>2. \A i, j \in DOMAIN queue' :
              queue'[i].by = queue'[j].by /\ queue'[i].by # None => i = j
      BY DEF Questions
    <2>3. \A d \in Conns : At(d, "wait") /\ d # cmd.by =>
              \E i \in DOMAIN queue' : queue'[i].by = d
      BY <1>1 DEF Questions
    <2> QED
      BY <1>2, <2>1, <2>2, <2>3, RepliedQuestions
  <1>5. hub' \in HubRun /\ ~Working(hub)'
    BY DEF HubIdle, HubRun, HubPc, Working
  <1>6. ASSUME NEW x \in Rooms PROVE Follows(x)'
    <2>1. ~Serves(x)' /\ (Serves(x) <=> x = cmd.room)
      BY <1>1, <1>5 DEF Serves
    <2>2. LooksAgain(x) => LooksAgain(x)'
      BY <1>1, <1>3, <2>1 DEF LooksAgain
    <2>3. CASE x # cmd.room
      <3>1. InStep(x)' = InStep(x)
        BY <1>1, <1>3, <2>3 DEF InStep, Empty
      <3> QED
        BY <1>3, <2>1, <2>2, <2>3, <3>1 DEF Follows
    <2>4. CASE x = cmd.room /\ ok
      <3>1. Heading(x) => InStep(x)'
        BY <1>1, <1>3, <2>4 DEF Heading, InStep, Empty
      <3> QED
        BY <1>1, <1>3, <2>1, <2>2, <2>4, <3>1 DEF Follows
    <2>5. CASE x = cmd.room /\ ~ok
      BY <1>3, <2>1, <2>5 DEF Follows
    <2> QED
      BY <2>3, <2>4, <2>5
  <1> QED
    BY <1>3, <1>4, <1>5, <1>6

(* Redis carries the command out, or does not: the hub replies and is      *)
(* idle again.                                                             *)
LEMMA TalkStep == ASSUME HubInv, Talk \/ TalkFails PROVE HubInv'
  <1> USE DEF HubInv, HubTypeOK
  <1>1. CASE Talk
    <2>1. /\ Working(hub) /\ Reply(hub.cmd, TRUE) /\ hub' = HubIdle /\ queue' = queue
          /\ shutdown' = shutdown /\ link' = link /\ faults' = faults
          /\ \/ hub.pc = "subscribing" /\ AddChannel(hub.cmd.room)
             \/ hub.pc = "unsubscribing" /\ DropChannel(hub.cmd.room)
      BY <1>1 DEF Talk, Working
    <2>2. hub.cmd.room \in Rooms
      BY <2>1 DEF Shape, HubRun, Command
    <2>3. /\ channels' \subseteq Rooms /\ redis' \subseteq channels'
          /\ \A x \in Rooms : x # hub.cmd.room => (x \in channels' <=> x \in channels)
          /\ hub.cmd.room \in channels' <=> hub.pc = "subscribing"
      BY <2>1, <2>2 DEF AddChannel, DropChannel
    <2> QED
      BY <2>1, <2>3, EndOfCommand
  <1>2. CASE TalkFails
    <2>1. /\ Working(hub) /\ Reply(hub.cmd, FALSE) /\ hub' = HubIdle /\ queue' = queue
          /\ shutdown' = shutdown /\ channels' = channels /\ redis' \subseteq channels
          /\ link' \in {"up", "down"} /\ faults' \in 0..MaxFaults
      <3>1. faults' \in 0..MaxFaults
        <4>1. CASE Fault
          BY <4>1, FaultAssumption DEF Fault
        <4>2. CASE UNCHANGED faults
          BY <4>2
        <4> QED
          BY <1>2, <4>1, <4>2 DEF TalkFails
      <3> QED
        BY <1>2, <3>1 DEF TalkFails, Working
    <2> QED
      BY <2>1, EndOfCommand
  <1> QED
    BY <1>1, <1>2

-----------------------------------------------------------------------------
(* The invariant holds                                                     *)

(* No connection, no subscription and no command at the start. *)
LEMMA HubStart == HubInit => HubInv
  <1> SUFFICES ASSUME HubInit PROVE HubInv
    OBVIOUS
  <1>1. HubTypeOK
    BY FaultAssumption
       DEF HubInit, HubTypeOK, Closed, Task, Pc, Event, HubIdle, HubRun, HubPc
  <1>2. hub.cmd = None /\ ~Working(hub) /\ queue = <<>>
    BY DEF HubInit, HubIdle, Working
  <1>3. MapsAgree /\ Shape /\ Questions
    BY <1>2 DEF HubInit, MapsAgree, Shape, Questions, Queued, Closed, At
  <1>4. \A r \in Rooms : Follows(r)
    BY <1>2 DEF HubInit, Follows, Serves, InStep, Empty
  <1> QED
    BY <1>1, <1>3, <1>4 DEF HubInv

(* Every step of a connection, of the hub and of the link with Redis       *)
(* keeps the invariant.                                                    *)
LEMMA HubKept == HubInv /\ [HubNext]_hubVars => HubInv'
  <1> SUFFICES ASSUME HubInv, [HubNext]_hubVars PROVE HubInv'
    OBVIOUS
  <1>1. ASSUME NEW c \in Conns, Open(c) \/ Close(c) PROVE HubInv'
    BY <1>1, OpenStep, CloseStep
  <1>2. ASSUME NEW c \in Conns, Auth(c) \/ DisconnectDevice(c) PROVE HubInv'
    BY <1>2, QuietStep
  <1>3. ASSUME NEW c \in Conns, Ask(c) PROVE HubInv'
    BY <1>3, AskInVain, AskStep
  <1>4. ASSUME NEW c \in Conns, Timeout(c) PROVE HubInv'
    BY <1>4, TimeoutStep
  <1>5. ASSUME NEW c \in Conns, NEW r \in Rooms, Join(c, r) \/ Leave(c, r) PROVE HubInv'
    BY <1>5, JoinStep, LeaveStep
  <1>6. CASE Take
    BY <1>6, TakeAgreed, TakeAnew
  <1>7. CASE Talk \/ TalkFails
    BY <1>7, TalkStep
  <1>8. CASE LinkLost \/ Rebuild \/ UNCHANGED hubVars
    BY <1>8, QuietStep
  <1> QED
    BY <1>1, <1>2, <1>3, <1>4, <1>5, <1>6, <1>7, <1>8 DEF HubNext, HubStep

(* The invariant of the hub, from which the theorems follow. *)
LEMMA HubInvHolds == HubSpec => []HubInv
  <1> QED
    BY HubStart, HubKept, PTL DEF HubSpec

(* The maps, the queue of room commands, the hub and its link are well     *)
(* formed, and Redis delivers only channels the hub knows.                 *)
THEOREM HubTypeCorrect == HubSpec => []HubTypeOK
  <1>1. HubInv => HubTypeOK
    BY DEF HubInv
  <1> QED
    BY <1>1, HubInvHolds, PTL

(* sync_room: however joins, leaves, closes, timeouts and the hub          *)
(* interleave, once nobody is about to look at a room again the hub        *)
(* listens to its channel exactly if somebody on the node does, unless a   *)
(* synchronisation of that room has failed.                                *)
THEOREM ChannelsFollowListeners == HubSpec => []ChannelsFollow
  <1>1. HubInv => ChannelsFollow
    <2> SUFFICES ASSUME HubInv, NEW r \in Rooms, r \notin troubled, ~Pending(r) PROVE InStep(r)
      BY DEF ChannelsFollow, InStep
    <2>1. Follows(r) /\ ~LooksAgain(r)
      BY DEF HubInv, LooksAgain, Pending
    <2>2. ~Serves(r)
      BY DEF HubInv, Shape, Serves, Pending
    <2> QED
      BY <2>1, <2>2 DEF Follows
  <1> QED
    BY <1>1, HubInvHolds, PTL

(* connection_rooms and room_subscribers of the connection manager say the *)
(* same, and only of registered connections, whatever fails.               *)
THEOREM MapsStayAgreed == HubSpec => []MapsAgree
  <1>1. HubInv => MapsAgree
    BY DEF HubInv
  <1> QED
    BY <1>1, HubInvHolds, PTL
=============================================================================
