------------------------------ MODULE Messages ------------------------------
(***************************************************************************)
(* The messages of one room: sending in the two storage modes, the         *)
(* encrypted endpoint with its idempotency keys, and what may be done to   *)
(* a message afterwards.                                                   *)
(*                                                                         *)
(* A request is one HTTP call.  It reads the runtime settings first and    *)
(* acts on what it read; between two of its awaits any other request may   *)
(* run, an administrator may change the settings, and the process may      *)
(* stop.  A message is named by the request that stored it.  All requests  *)
(* are of one member of the room who owns it, so the checks of membership, *)
(* block, mute, ownership and authorship pass or refuse as they like, and  *)
(* a refused request has changed nothing but the count of the rate limit.  *)
(***************************************************************************)
EXTENDS Naturals, FiniteSets

CONSTANTS
    Requests,
    Keys,         \* idempotency keys of the encrypted endpoint
    Texts,        \* bodies, in clear or encrypted
    None,         \* no key, no message
    SendLimit,    \* messages a user may send in one window
    MaxSwitches,  \* bound: changes of the runtime settings
    MaxFaults     \* bound: crashes and failing calls of Redis

ASSUME NoneAssumption   == None \notin Requests \cup Keys
ASSUME BoundsAssumption == SendLimit \in Nat /\ MaxSwitches \in Nat /\ MaxFaults \in Nat

VARIABLES
    runtime,    \* the two settings: storage and content
    request,    \* the requests
    stored,     \* messages, by the request that inserted them
    pins,       \* room_pins
    reacted,    \* messages with a reaction
    window,     \* the Redis counter of the rate limit, and whether it expires
    reserved,   \* the Redis keys e2ee:relay-idempotency
    published,  \* requests whose message was published to the room's channel
    pushed,     \* requests whose message was handed to the push queue
    switches, faults

table == <<stored, pins, reacted>>
cache == <<window, reserved>>
sent  == <<published, pushed>>
vars  == <<runtime, request, table, cache, sent, switches, faults>>

-----------------------------------------------------------------------------
Sends == {"send", "seal", "forward"}
Edits == {"edit", "delete", "pin", "unpin", "react", "unreact", "clear"}
Pc == {"new", "mode", "check", "count", "expire", "store", "relay", "reserve", "release",
       "commit", "publish", "push", "update", "unpin", "done", "dead"}
Answer == {"none", "ok", "refused", "conflict", "unavailable", "error"}

Request == [pc : Pc, op : Sends \cup Edits \cup {None}, relay : BOOLEAN, key : Keys \cup {None},
            text : Texts \cup {None}, content : Texts \cup {None},
            target : Requests \cup {None}, answer : Answer]

(* body: the parts of a message in clear, or the ciphertext; content: the  *)
(* column messages.content.  None stands for the placeholder.              *)
Message == [key : Keys \cup {None}, body : Texts \cup {None}, content : Texts \cup {None},
            live : BOOLEAN]

ASSUME RowAssumption == None \notin Message

Settings == [storage : {"persist", "relay_only"}, content : {"plaintext", "e2ee"}]

At(r, pc) == request[r].pc = pc
Op(r)     == request[r].op
Of(r)     == request[r].target

Goto(r, pc)       == request' = [request EXCEPT ![r].pc = pc]
Finish(r, answer) == request' = [request EXCEPT ![r].pc = "done", ![r].answer = answer]

Exists(m) == stored[m] # None
Live(m)   == Exists(m) /\ stored[m].live
Sealed(m) == Exists(m) /\ stored[m].key # None
Fault     == faults < MaxFaults /\ faults' = faults + 1

Init ==
    /\ runtime \in Settings
    /\ request \in [Requests -> {[pc |-> "new", op |-> None, relay |-> FALSE, key |-> None,
                                  text |-> x, content |-> None, target |-> None,
                                  answer |-> "none"] : x \in Texts}]
    /\ stored = [r \in Requests |-> None]
    /\ pins = {} /\ reacted = {} /\ reserved = {} /\ published = {} /\ pushed = {}
    /\ window = [count |-> 0, expires |-> FALSE]
    /\ switches = 0 /\ faults = 0

-----------------------------------------------------------------------------
(* The start of a request: the runtime settings decide what it may do.  A  *)
(* forwarded message reads the content mode in a second await.             *)

Allowed(op) ==
    CASE op = "send" -> runtime.content = "plaintext"
      [] op = "seal" -> runtime.content = "e2ee"
      [] OTHER       -> runtime.storage = "persist"

(* What a request is once it has looked at the settings. *)
Begun(r, op, k, m) ==
    [request[r] EXCEPT
        !.op = op, !.key = k, !.target = m,
        !.content = IF op = "seal" THEN None ELSE request[r].text,
        !.relay   = runtime.storage = "relay_only",
        !.pc      = IF ~Allowed(op) THEN "done"
                    ELSE IF op = "forward" THEN "mode"
                    ELSE IF op \in {"send", "seal"} THEN "count" ELSE "check",
        !.answer  = IF Allowed(op) THEN "none" ELSE "refused"]

Begin(r) ==
    /\ At(r, "new")
    /\ \E op \in Sends \cup Edits, k \in Keys \cup {None}, m \in Requests \cup {None} :
         /\ op = "seal" <=> k # None
         /\ op \in {"send", "seal", "clear"} <=> m = None
         /\ m # None => Exists(m)
         /\ request' = [request EXCEPT ![r] = Begun(r, op, k, m)]
    /\ UNCHANGED <<runtime, table, cache, sent, switches, faults>>

ReadMode(r) ==
    /\ At(r, "mode")
    /\ IF runtime.content = "plaintext" THEN Goto(r, "check") ELSE Finish(r, "refused")
    /\ UNCHANGED <<runtime, table, cache, sent, switches, faults>>

(* Membership, blocks, mutes, ownership: another table refuses the request *)
(* before it has changed anything.                                         *)
Refuse(r) ==
    /\ request[r].pc \in {"check", "count"}
    /\ Finish(r, "refused")
    /\ UNCHANGED <<runtime, table, cache, sent, switches, faults>>

(* The message a request names must not be deleted; a deletion looks at    *)
(* that later, and so do the removal of a pin and of a reaction.  A        *)
(* forwarded message copies content and parts, never a ciphertext.         *)
Check(r) ==
    /\ At(r, "check")
    /\ IF Op(r) \in {"forward", "edit", "pin", "react"} /\ ~Live(Of(r))
       THEN Finish(r, "refused")
       ELSE IF Op(r) = "forward"
       THEN request' = [request EXCEPT ![r].pc = "store",
                            ![r].text    = IF Sealed(Of(r)) THEN None ELSE stored[Of(r)].body,
                            ![r].content = stored[Of(r)].content]
       ELSE Goto(r, "update")
    /\ UNCHANGED <<runtime, table, cache, sent, switches, faults>>

-----------------------------------------------------------------------------
(* The rate limit: INCR, and EXPIRE for the first message of a window.     *)

(* Variant: every message of relay_only takes a reservation. *)
OnwardReserving(r) == IF request[r].relay THEN "reserve" ELSE "store"

Onward(r) ==
    CASE ~request[r].relay                 -> "store"
      [] request[r].relay /\ Op(r) = "seal" -> "reserve"
      [] OTHER                             -> "relay"

Count(r) ==
    /\ At(r, "count")
    /\ window' = [window EXCEPT !.count = @ + 1]
    /\ \/ window.count = 0 /\ Goto(r, "expire")
       \/ window.count \in 1 .. SendLimit - 1 /\ Goto(r, Onward(r))
       \/ window.count > 0 /\ window.count >= SendLimit /\ Finish(r, "refused")
    /\ UNCHANGED <<runtime, table, reserved, sent, switches, faults>>

Expire(r) ==
    /\ At(r, "expire") /\ Goto(r, Onward(r))
    /\ window' = [window EXCEPT !.expires = TRUE]
    /\ UNCHANGED <<runtime, table, reserved, sent, switches, faults>>

WindowEnds ==
    /\ window.expires /\ window' = [count |-> 0, expires |-> FALSE]
    /\ UNCHANGED <<runtime, request, table, reserved, sent, switches, faults>>

-----------------------------------------------------------------------------
(* persist: the message is committed, then published, then pushed.         *)

Insert(r) ==
    stored' = [stored EXCEPT ![r] = [key |-> request[r].key, body |-> request[r].text,
                                     content |-> request[r].content, live |-> TRUE]]

(* create_message_with_parts, create_forward_message *)
Store(r) ==
    /\ At(r, "store") /\ Op(r) \in {"send", "forward"}
    /\ Insert(r) /\ Goto(r, "publish")
    /\ UNCHANGED <<runtime, pins, reacted, cache, sent, switches, faults>>

(* Variant: a deleted message gives its key back. *)
SameKeyLive(r) == {m \in Requests : Live(m) /\ stored[m].key = request[r].key}

(* The messages stored under the key of a sealed message. *)
SameKey(r) == {m \in Requests : Exists(m) /\ stored[m].key = request[r].key}

(* Variant: any message with the key answers for the request. *)
RepeatedKey(r) == SameKey(r) # {}

(* The request repeats what is stored: the answer is that message. *)
Repeated(r) == \E m \in SameKey(r) : stored[m].body = request[r].text

(* was_created = false: neither published nor pushed. *)
AfterRepeat(r) == Finish(r, "ok")

(* create_encrypted_message_with_parts, under the advisory lock of the key *)
(* until its commit.  The control plane may refuse a new message.          *)
Seal(r) ==
    /\ At(r, "store") /\ Op(r) = "seal"
    /\ \/ Repeated(r) /\ AfterRepeat(r) /\ UNCHANGED stored
       \/ ~Repeated(r) /\ SameKey(r) # {} /\ Finish(r, "conflict") /\ UNCHANGED stored
       \/ SameKey(r) = {} /\ Finish(r, "refused") /\ UNCHANGED stored
       \/ SameKey(r) = {} /\ Insert(r) /\ Goto(r, "publish")
    /\ UNCHANGED <<runtime, pins, reacted, cache, sent, switches, faults>>

(* A failure is logged, and the request goes on. *)
Publish(r) ==
    /\ At(r, "publish") /\ Goto(r, "push")
    /\ \/ published' = published \cup {r} /\ UNCHANGED faults
       \/ Fault /\ UNCHANGED published
    /\ UNCHANGED <<runtime, table, cache, pushed, switches>>

Push(r) ==
    /\ At(r, "push") /\ Finish(r, "ok")
    /\ \/ pushed' = pushed \cup {r} /\ UNCHANGED faults
       \/ Fault /\ UNCHANGED pushed
    /\ UNCHANGED <<runtime, table, cache, published, switches>>

-----------------------------------------------------------------------------
(* relay_only: the message is published and nothing is stored.             *)

Reserve(r) ==
    /\ At(r, "reserve")
    /\ \/ request[r].key \in reserved /\ Finish(r, "conflict") /\ UNCHANGED <<reserved, faults>>
       \/ /\ request[r].key \notin reserved /\ Goto(r, "relay") /\ UNCHANGED faults
          /\ reserved' = reserved \cup {request[r].key}
       \/ Fault /\ Finish(r, "error") /\ UNCHANGED reserved
       \/ Finish(r, "refused") /\ UNCHANGED <<reserved, faults>>
    /\ UNCHANGED <<runtime, table, window, sent, switches>>

Relay(r) ==
    /\ At(r, "relay")
    /\ \/ /\ published' = published \cup {r} /\ UNCHANGED faults
          /\ IF Op(r) = "seal" THEN Goto(r, "commit") ELSE Finish(r, "ok")
       \/ /\ Fault /\ UNCHANGED published
          /\ IF Op(r) = "seal" THEN Goto(r, "release") ELSE Finish(r, "unavailable")
    /\ UNCHANGED <<runtime, table, cache, pushed, switches>>

(* DEL, whose own failure is ignored. *)
Release(r) ==
    /\ At(r, "release") /\ Finish(r, "unavailable")
    /\ \/ reserved' = reserved \ {request[r].key} /\ UNCHANGED faults
       \/ Fault /\ UNCHANGED reserved
    /\ UNCHANGED <<runtime, table, window, sent, switches>>

(* The validating transaction writes nothing, but its COMMIT may fail.     *)
Commit(r) ==
    /\ At(r, "commit")
    /\ \/ Finish(r, "ok") /\ UNCHANGED faults
       \/ Fault /\ Finish(r, "error")
    /\ UNCHANGED <<runtime, table, cache, sent, switches>>

(* Ten minutes are longer than any request. *)
ReservationEnds(k) ==
    /\ k \in reserved /\ reserved' = reserved \ {k}
    /\ \A r \in Requests : request[r].key = k => request[r].pc \in {"new", "done", "dead"}
    /\ UNCHANGED <<runtime, request, table, window, sent, switches, faults>>

-----------------------------------------------------------------------------
(* What is done to a stored message: the statement that changes it.        *)

(* update_message_content: the parts keep the text they had. *)
Edit(r) ==
    /\ Op(r) = "edit"
    /\ IF Live(Of(r))
       THEN /\ stored' = [stored EXCEPT ![Of(r)].content = request[r].text]
            /\ Finish(r, "ok")
       ELSE Finish(r, "error") /\ UNCHANGED stored
    /\ UNCHANGED <<pins, reacted>>

(* mark_message_deleted *)
Delete(r) ==
    /\ Op(r) = "delete"
    /\ IF Live(Of(r))
       THEN stored' = [stored EXCEPT ![Of(r)].live = FALSE] /\ Goto(r, "unpin")
       ELSE Finish(r, "refused") /\ UNCHANGED stored
    /\ UNCHANGED <<pins, reacted>>

(* mark_room_messages_deleted *)
Clear(r) ==
    /\ Op(r) = "clear" /\ Goto(r, "unpin")
    /\ stored' = [m \in Requests |->
                    IF Exists(m) THEN [stored[m] EXCEPT !.live = FALSE] ELSE None]
    /\ UNCHANGED <<pins, reacted>>

Pin(r) ==
    /\ Op(r) = "pin" /\ Finish(r, "ok")
    /\ pins' = pins \cup {Of(r)}
    /\ UNCHANGED <<stored, reacted>>

Unpin(r) ==
    /\ Op(r) = "unpin" /\ Finish(r, "ok")
    /\ pins' = pins \ {Of(r)}
    /\ UNCHANGED <<stored, reacted>>

React(r) ==
    /\ Op(r) = "react" /\ Finish(r, "ok")
    /\ reacted' = reacted \cup {Of(r)}
    /\ UNCHANGED <<stored, pins>>

Unreact(r) ==
    /\ Op(r) = "unreact"
    /\ Finish(r, IF Of(r) \in reacted THEN "ok" ELSE "refused")
    /\ reacted' = reacted \ {Of(r)}
    /\ UNCHANGED <<stored, pins>>

Update(r) ==
    /\ At(r, "update")
    /\ \/ Edit(r) \/ Delete(r) \/ Clear(r) \/ Pin(r) \/ Unpin(r) \/ React(r) \/ Unreact(r)
    /\ UNCHANGED <<runtime, cache, sent, switches, faults>>

(* The second statement of a deletion removes the pins. *)
RemovePins(r) ==
    /\ At(r, "unpin") /\ Finish(r, "ok")
    /\ pins' = IF Op(r) = "clear" THEN {} ELSE pins \ {Of(r)}
    /\ UNCHANGED <<runtime, stored, reacted, cache, sent, switches, faults>>

-----------------------------------------------------------------------------
(* update_message_runtime_settings *)
Switch ==
    /\ switches < MaxSwitches /\ switches' = switches + 1
    /\ \E s \in Settings : s # runtime /\ runtime' = s
    /\ UNCHANGED <<request, table, cache, sent, faults>>

Crash(r) ==
    /\ request[r].pc \notin {"new", "done", "dead"} /\ Fault
    /\ Goto(r, "dead")
    /\ UNCHANGED <<runtime, table, cache, sent, switches>>

Step(r) ==
    \/ Begin(r) \/ ReadMode(r) \/ Refuse(r) \/ Check(r) \/ Count(r) \/ Expire(r)
    \/ Store(r) \/ Seal(r) \/ Publish(r) \/ Push(r)
    \/ Reserve(r) \/ Relay(r) \/ Release(r) \/ Commit(r)
    \/ Update(r) \/ RemovePins(r)

Next ==
    \/ \E r \in Requests : Step(r) \/ Crash(r)
    \/ WindowEnds \/ Switch
    \/ \E k \in Keys : ReservationEnds(k)

Spec == Init /\ [][Next]_vars

-----------------------------------------------------------------------------
TypeOK ==
    /\ runtime \in Settings /\ request \in [Requests -> Request]
    /\ stored \in [Requests -> Message \cup {None}]
    /\ pins \subseteq Requests /\ reacted \subseteq Requests
    /\ window \in [count : Nat, expires : BOOLEAN] /\ reserved \subseteq Keys
    /\ published \subseteq Requests /\ pushed \subseteq Requests
    /\ switches \in 0 .. MaxSwitches /\ faults \in 0 .. MaxFaults

(* However often a sealed message is retried, after whatever failure, it   *)
(* is stored once and, in persist mode, announced and pushed at most once. *)
AnnouncedOnce ==
    \A r, s \in Requests :
        /\ Op(r) = "seal" /\ Op(s) = "seal" /\ request[r].key = request[s].key
        /\ ~request[r].relay /\ ~request[s].relay
        => /\ Exists(r) /\ Exists(s) => r = s
           /\ {r, s} \subseteq published \cup pushed => r = s

(* A message answered with success is there: it was published in relay     *)
(* mode, and else it is stored with this text, by this request or, for a   *)
(* repeated key, by an earlier one.                                        *)
AcknowledgedKept ==
    \A r \in Requests :
        Op(r) \in Sends /\ request[r].answer = "ok" =>
            IF request[r].relay THEN r \in published
            ELSE \E m \in Requests :
                    /\ Exists(m) /\ stored[m].body = request[r].text
                    /\ stored[m].key = request[r].key
=============================================================================
