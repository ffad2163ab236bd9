--------------------------------- MODULE Hub ---------------------------------
(***************************************************************************)
(* The WebSocket connections of one API node and its Redis Pub/Sub hub.    *)
(*                                                                         *)
(* A connection is served by a task of its own, one event after another.   *)
(* ConnectionManager keeps the registered connections and, in two maps,    *)
(* who listens to which room; its operations take the locks of all the     *)
(* maps they touch and are atomic.  The first connection of a room to      *)
(* join, and the last one to leave, ask the hub to synchronise the node's  *)
(* subscription of the room's channel, and wait for the answer for three   *)
(* seconds.  The hub is one task: it takes commands in order, looks at the *)
(* maps when it takes one, and talks to Redis, which may fail.             *)
(*                                                                         *)
(* Whether a user is a member of a room is the database's answer, and may  *)
(* be either; a refused join changes nothing.  A connection authenticates  *)
(* as one user.                                                            *)
(***************************************************************************)
EXTENDS Naturals, Sequences, FiniteSets

CONSTANTS
    Conns,
    Rooms,
    None,        \* no connection, no room
    MaxFaults    \* bound: timeouts and failures of Redis

ASSUME NoneAssumption  == None \notin Conns /\ None \notin Rooms
ASSUME FaultAssumption == MaxFaults \in Nat

VARIABLES
    registered,   \* user_connections
    rooms,        \* connection_rooms
    subscribers,  \* room_subscribers
    shutdown,     \* connections whose shutdown_tx has been used
    task,         \* what the task of every connection is doing
    queue,        \* cmd_rx of the hub
    hub,          \* what the hub is doing
    channels,     \* subscribed_channels of the hub
    redis,        \* the channels Redis sends to this node
    link,         \* the hub's connection to Redis
    troubled,     \* history: rooms whose last synchronisation failed or timed out
    faults        \* number of timeouts and failures so far

maps == <<registered, rooms, subscribers>>
line == <<queue, hub, channels, redis, link>>
hubVars == <<maps, shutdown, task, line, troubled, faults>>

-----------------------------------------------------------------------------
(* A task: "ask" before the command is sent, "wait" until it is answered,  *)
(* for a join, a leave, or the rooms a closing connection leaves empty.    *)
Pc    == {"closed", "idle", "ask", "wait"}
Event == {"join", "leave", "close", None}
Task  == [pc : Pc, event : Event, todo : SUBSET Rooms]

Closed == [pc |-> "closed", event |-> None, todo |-> {}]
Ready  == [pc |-> "idle", event |-> None, todo |-> {}]

Command == [room : Rooms, by : Conns \cup {None}]
HubPc   == {"idle", "subscribing", "unsubscribing", "stopped"}
HubRun  == [pc : HubPc, cmd : Command \cup {None}]

ASSUME CommandAssumption == None \notin Command

HubIdle == [pc |-> "idle", cmd |-> None]

At(c, pc)      == task[c].pc = pc
Goto(c, state) == task' = [task EXCEPT ![c] = state]
Empty(r)       == subscribers[r] = {}

(* The room a task is asking about. *)
Asked(c, r) == task[c].todo # {} /\ r = CHOOSE x \in task[c].todo : TRUE

HubInit ==
    /\ registered = {} /\ shutdown = {} /\ troubled = {} /\ faults = 0
    /\ rooms = [c \in Conns |-> {}]
    /\ subscribers = [r \in Rooms |-> {}]
    /\ task = [c \in Conns |-> Closed]
    /\ queue = <<>> /\ channels = {} /\ redis = {} /\ link = "up"
    /\ hub \in {HubIdle, [HubIdle EXCEPT !.pc = "stopped"]}

Fault == faults < MaxFaults /\ faults' = faults + 1

-----------------------------------------------------------------------------
(* ConnectionManager *)

Subscribe(c, r) ==
    /\ rooms' = [rooms EXCEPT ![c] = @ \cup {r}]
    /\ subscribers' = [subscribers EXCEPT ![r] = @ \cup {c}]
    /\ UNCHANGED registered

Unsubscribe(c, r) ==
    /\ rooms' = [rooms EXCEPT ![c] = @ \ {r}]
    /\ subscribers' = [subscribers EXCEPT ![r] = @ \ {c}]
    /\ UNCHANGED registered

(* Variant: a connection that listens to no room stays registered. *)
UnregisterListeners(c) ==
    /\ registered' = IF rooms[c] = {} THEN registered ELSE registered \ {c}
    /\ rooms' = [rooms EXCEPT ![c] = {}]
    /\ subscribers' = [r \in Rooms |-> subscribers[r] \ {c}]

(* unregister_connection *)
Unregister(c) ==
    /\ registered' = registered \ {c}
    /\ rooms' = [rooms EXCEPT ![c] = {}]
    /\ subscribers' = [r \in Rooms |-> subscribers[r] \ {c}]

(* The rooms unregister_connection leaves without a subscriber. *)
LeftEmpty(c) == {r \in rooms[c] : subscribers[r] = {c}}

-----------------------------------------------------------------------------
(* The task of a connection *)

Open(c) ==
    /\ At(c, "closed") /\ Goto(c, Ready)
    /\ UNCHANGED <<maps, shutdown, line, troubled, faults>>

Auth(c) ==
    /\ At(c, "idle") /\ registered' = registered \cup {c} /\ c \notin registered
    /\ UNCHANGED <<rooms, subscribers, shutdown, task, line, troubled, faults>>

(* Variant: the room is looked at after the connection has been added. *)
FirstAfterInsert(c, r) == subscribers[r] \cup {c} = {} /\ r \notin rooms[c]

(* subscribe_room asks for a synchronisation. *)
First(c, r) == Empty(r) /\ r \notin rooms[c]

Join(c, r) ==
    /\ At(c, "idle") /\ c \in registered
    /\ Subscribe(c, r)
    /\ IF First(c, r)
       THEN Goto(c, [pc |-> "ask", event |-> "join", todo |-> {r}])
       ELSE UNCHANGED task
    /\ UNCHANGED <<shutdown, line, troubled, faults>>

Leave(c, r) ==
    /\ At(c, "idle") /\ r \in rooms[c]
    /\ Unsubscribe(c, r)
    /\ IF subscribers[r] = {c}
       THEN Goto(c, [pc |-> "ask", event |-> "leave", todo |-> {r}])
       ELSE UNCHANGED task
    /\ UNCHANGED <<shutdown, line, troubled, faults>>

(* The socket is closed, or the task sees that the device was revoked. *)
Close(c) ==
    /\ At(c, "idle")
    /\ Unregister(c)
    /\ Goto(c, IF LeftEmpty(c) = {} THEN Closed
               ELSE [pc |-> "ask", event |-> "close", todo |-> LeftEmpty(c)])
    /\ shutdown' = shutdown \ {c}
    /\ UNCHANGED <<line, troubled, faults>>

(* disconnect_device *)
DisconnectDevice(c) ==
    /\ c \in registered /\ shutdown' = shutdown \cup {c}
    /\ UNCHANGED <<maps, task, line, troubled, faults>>

(* What a task does when its question about room r is answered.  A join    *)
(* that fails takes the connection out of the room again; the other        *)
(* events log the failure.                                                 *)
Answered(c, r, ok) ==
    /\ IF task[c].event = "join" /\ ~ok THEN Unsubscribe(c, r) ELSE UNCHANGED maps
    /\ troubled' = IF ok THEN troubled \ {r} ELSE troubled \cup {r}

Resume(c, r) ==
    Goto(c, IF task[c].todo # {r} THEN [task[c] EXCEPT !.pc = "ask", !.todo = @ \ {r}]
            ELSE IF task[c].event = "close" THEN Closed
            ELSE Ready)

(* sync_room: send the command; without a hub that fails at once. *)
Ask(c) ==
    \E r \in Rooms :
        /\ At(c, "ask") /\ Asked(c, r)
        /\ IF hub.pc = "stopped"
           THEN Resume(c, r) /\ Answered(c, r, FALSE) /\ UNCHANGED queue
           ELSE /\ Goto(c, [task[c] EXCEPT !.pc = "wait"])
                /\ queue' = Append(queue, [room |-> r, by |-> c])
                /\ UNCHANGED <<maps, troubled>>
        /\ UNCHANGED <<shutdown, hub, channels, redis, link, faults>>

(* Three seconds have passed; nobody waits for the answer any more. *)
Unawaited(cmd, c) == IF cmd # None /\ cmd.by = c THEN [cmd EXCEPT !.by = None] ELSE cmd

Timeout(c) ==
    \E r \in Rooms :
        /\ At(c, "wait") /\ Asked(c, r) /\ Fault
        /\ Resume(c, r) /\ Answered(c, r, FALSE)
        /\ queue' = [i \in DOMAIN queue |-> Unawaited(queue[i], c)]
        /\ hub' = [hub EXCEPT !.cmd = Unawaited(@, c)]
        /\ UNCHANGED <<shutdown, channels, redis, link>>

-----------------------------------------------------------------------------
(* The hub *)

(* The command is done; its sender, if it still waits, goes on. *)
Reply(cmd, ok) ==
    IF cmd.by = None
    THEN /\ UNCHANGED <<maps, task>>
         /\ troubled' = IF ok THEN troubled ELSE troubled \cup {cmd.room}
    ELSE Resume(cmd.by, cmd.room) /\ Answered(cmd.by, cmd.room, ok)

(* Take a command and look whether the room has subscribers. *)
Take ==
    /\ hub.pc = "idle" /\ queue # <<>>
    /\ LET cmd == Head(queue)
           r == cmd.room
       IN  IF Empty(r) = (r \notin channels)
           THEN Reply(cmd, TRUE) /\ UNCHANGED hub
           ELSE /\ hub' = [pc |-> IF Empty(r) THEN "unsubscribing" ELSE "subscribing",
                           cmd |-> cmd]
                /\ UNCHANGED <<maps, task, troubled>>
    /\ queue' = Tail(queue)
    /\ UNCHANGED <<shutdown, channels, redis, link, faults>>

(* Variant: the channel is only forgotten, never unsubscribed from. *)
ForgetChannel(r) == channels' = channels \ {r} /\ UNCHANGED redis

DropChannel(r) == channels' = channels \ {r} /\ redis' = redis \ {r}
AddChannel(r) == channels' = channels \cup {r} /\ redis' = redis \cup {r}

(* Redis carries the command out. *)
Talk ==
    /\ link = "up"
    /\ \/ hub.pc = "subscribing" /\ AddChannel(hub.cmd.room)
       \/ hub.pc = "unsubscribing" /\ DropChannel(hub.cmd.room)
    /\ Reply(hub.cmd, TRUE)
    /\ hub' = HubIdle
    /\ UNCHANGED <<shutdown, queue, link, faults>>

(* rebuild_pubsub: a new connection, with the channels the hub knows, of   *)
(* which some may fail; their failure is only logged.                      *)
Rebuilt(S) ==
    /\ link' = "up" /\ redis' = S
    /\ IF S = channels THEN UNCHANGED faults ELSE Fault

(* Redis does not carry the command out, and the hub tries to reconnect. *)
TalkFails ==
    /\ hub.pc \in {"subscribing", "unsubscribing"}
    /\ IF link = "up" THEN Fault ELSE UNCHANGED faults
    /\ \/ link' = "up" /\ redis' \in SUBSET channels
       \/ link' = "down" /\ redis' = {}
    /\ Reply(hub.cmd, FALSE)
    /\ hub' = HubIdle
    /\ UNCHANGED <<shutdown, queue, channels>>

LinkLost ==
    /\ link = "up" /\ link' = "down" /\ redis' = {} /\ Fault
    /\ UNCHANGED <<maps, shutdown, task, queue, hub, channels, troubled>>

(* The stream of messages has ended. *)
Rebuild ==
    /\ hub.pc = "idle" /\ link = "down"
    /\ \E S \in SUBSET channels : Rebuilt(S)
    /\ UNCHANGED <<maps, shutdown, task, queue, hub, channels, troubled>>

TaskStep(c) == Ask(c) \/ Timeout(c)
Shutdown(c) == c \in shutdown /\ Close(c)
HubStep     == Take \/ Talk \/ TalkFails \/ Rebuild

HubNext ==
    \/ \E c \in Conns :
         \/ Open(c) \/ Auth(c) \/ Close(c) \/ DisconnectDevice(c) \/ Ask(c) \/ Timeout(c)
         \/ \E r \in Rooms : Join(c, r) \/ Leave(c, r)
    \/ HubStep \/ LinkLost

(* Tasks are scheduled, and the hub is one.  A task that is busy reads     *)
(* neither events nor the shutdown; an idle one with both to read chooses  *)
(* at random (tokio::select!), so it does not overlook the shutdown for    *)
(* ever: strong fairness.                                                  *)
Fairness ==
    /\ \A c \in Conns : WF_hubVars(TaskStep(c)) /\ SF_hubVars(Shutdown(c))
    /\ WF_hubVars(HubStep)

HubSpec == HubInit /\ [][HubNext]_hubVars
HubFairSpec == HubSpec /\ Fairness

-----------------------------------------------------------------------------
HubTypeOK ==
    /\ registered \subseteq Conns /\ shutdown \subseteq Conns
    /\ rooms \in [Conns -> SUBSET Rooms] /\ subscribers \in [Rooms -> SUBSET Conns]
    /\ task \in [Conns -> Task]
    /\ queue \in Seq(Command) /\ hub \in HubRun
    /\ channels \subseteq Rooms /\ redis \subseteq channels
    /\ link \in {"up", "down"} /\ troubled \subseteq Rooms
    /\ faults \in 0 .. MaxFaults

(* The two maps say the same, and only of registered connections.          *)
MapsAgree ==
    /\ \A c \in Conns, r \in Rooms : r \in rooms[c] <=> c \in subscribers[r]
    /\ \A c \in Conns : rooms[c] # {} => c \in registered

(* Somebody is about to make the hub look at room r. *)
Pending(r) ==
    \/ \E c \in Conns : r \in task[c].todo
    \/ \E i \in DOMAIN queue : queue[i].room = r
    \/ hub.cmd # None /\ hub.cmd.room = r

(* As long as no synchronisation of a room has failed, the hub listens to  *)
(* its channel exactly if somebody on this node does, or is about to look  *)
(* at it again: joins and leaves of several connections, each seeing the   *)
(* room empty or not at its own moment, never cancel each other out.       *)
ChannelsFollow ==
    \A r \in Rooms : r \notin troubled /\ ~Pending(r) => (r \in channels <=> ~Empty(r))

(* A connection whose device is revoked is closed, whatever it waits for.  *)
ShutdownCloses == \A c \in Conns : c \in shutdown ~> c \notin registered
=============================================================================
