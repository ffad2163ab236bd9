--------------------------- MODULE MessagesProofs ---------------------------
(***************************************************************************)
(* Proofs about Messages, for any number of requests, keys and texts.      *)
(***************************************************************************)
EXTENDS Messages, TLAPS

-----------------------------------------------------------------------------
(* A request that needs a message names one. *)
Named ==
    \A r \in Requests :
        ~At(r, "new") /\ Op(r) \notin {"send", "seal", "clear"} => Of(r) \in Requests

TypeInv == TypeOK /\ Named

(* How far a request has come says what it may be: sealed requests have    *)
(* the keys, requests of relay_only never reach the table, the others      *)
(* never the reservations, and only what is stored is published.           *)
Path(r) ==
    LET q == request[r]
    IN  /\ q.pc # "new" => (q.key # None <=> q.op = "seal")
        /\ q.pc = "mode" => q.op = "forward" /\ ~q.relay
        /\ q.pc = "check" => q.op \in Edits \cup {"forward"} /\ (q.op = "forward" => ~q.relay)
        /\ q.pc \in {"count", "expire"} => q.op \in {"send", "seal"}
        /\ q.pc \in {"store", "publish", "push"} => q.op \in Sends /\ ~q.relay
        /\ q.pc = "relay" => q.op \in Sends /\ q.relay
        /\ q.pc \in {"reserve", "release", "commit"} => q.op = "seal" /\ q.relay
        /\ q.pc \in {"update", "unpin"} => q.op \in Edits
        /\ q.answer = "ok" => q.pc = "done"

Kept(r) ==
    LET q == request[r]
    IN  /\ q.pc \in {"new", "mode", "check"} => ~Exists(r)
        /\ q.pc = "new" => r \notin published \cup pushed
        /\ q.pc \in {"publish", "push"} => Exists(r)
        /\ q.pc = "commit" => r \in published
        /\ r \in published \cup pushed /\ ~q.relay => Exists(r)
        /\ Exists(r) => stored[r].body = q.text /\ stored[r].key = q.key

(* A key of the encrypted endpoint is in the table once. *)
KeysUnique ==
    \A r, s \in Requests :
        Exists(r) /\ Exists(s) /\ stored[r].key # None /\ stored[r].key = stored[s].key => r = s

Acknowledged(r) ==
    Op(r) \in Sends /\ request[r].answer = "ok" =>
        IF request[r].relay THEN r \in published
        ELSE \E m \in Requests :
                /\ Exists(m) /\ stored[m].body = request[r].text
                /\ stored[m].key = request[r].key

Inv == /\ TypeInv /\ KeysUnique
       /\ \A r \in Requests : Path(r) /\ Kept(r) /\ Acknowledged(r)

-----------------------------------------------------------------------------
(* Types *)

(* A step that changes one request keeps all of them well formed, with     *)
(* requests as their targets.                                              *)
LEMMA SetRequest ==
    ASSUME TypeInv, NEW r \in Requests, NEW w \in Request, request' = [request EXCEPT ![r] = w],
           w.pc # "new" /\ w.op \notin {"send", "seal", "clear"} => w.target \in Requests
    PROVE  request' \in [Requests -> Request] /\ Named'
<1>1. \A q \in Requests : request'[q] = IF q = r THEN w ELSE request[q]
  BY DEF TypeInv, TypeOK
<1>2. request' \in [Requests -> Request]
  BY DEF TypeInv, TypeOK
<1>. QED
  BY <1>1, <1>2 DEF TypeInv, Named, At, Op, Of

(* Going to another step of the same handler keeps the types. *)
LEMMA TypeGoto ==
    ASSUME TypeInv, NEW r \in Requests, ~At(r, "new"), NEW pc \in Pc, Goto(r, pc)
    PROVE  request' \in [Requests -> Request] /\ Named'
<1>. DEFINE w == [request[r] EXCEPT !.pc = pc]
<1>1. request[r] \in Request
  BY DEF TypeInv, TypeOK
<1>2. w \in Request /\ w.op = request[r].op /\ w.target = request[r].target
  BY <1>1 DEF Request
<1>3. request' = [request EXCEPT ![r] = w]
  BY DEF Goto
<1>. HIDE DEF w
<1>. QED
  BY <1>2, <1>3, SetRequest DEF TypeInv, Named, At, Op, Of

(* An answer keeps the types. *)
LEMMA TypeFinish ==
    ASSUME TypeInv, NEW r \in Requests, ~At(r, "new"), NEW answer \in Answer, Finish(r, answer)
    PROVE  request' \in [Requests -> Request] /\ Named'
<1>. DEFINE w == [request[r] EXCEPT !.pc = "done", !.answer = answer]
<1>1. request[r] \in Request
  BY DEF TypeInv, TypeOK
<1>2. w \in Request /\ w.op = request[r].op /\ w.target = request[r].target
  BY <1>1 DEF Request, Pc
<1>3. request' = [request EXCEPT ![r] = w]
  BY DEF Finish
<1>. HIDE DEF w
<1>. QED
  BY <1>2, <1>3, SetRequest DEF TypeInv, Named, At, Op, Of

(* The message of a request is a row. *)
LEMMA TypeInsert ==
    ASSUME TypeInv, NEW r \in Requests, Insert(r)
    PROVE  /\ stored' \in [Requests -> Message \cup {None}]
           /\ \A m \in Requests \ {r} : stored'[m] = stored[m]
           /\ stored'[r] # None /\ stored'[r].key = request[r].key
           /\ stored'[r].body = request[r].text
<1>. DEFINE row == [key |-> request[r].key, body |-> request[r].text,
                    content |-> request[r].content, live |-> TRUE]
<1>1. row \in Message /\ row.key = request[r].key /\ row.body = request[r].text
  BY DEF TypeInv, TypeOK, Request, Message
<1>2. stored' = [stored EXCEPT ![r] = row]
  BY DEF Insert
<1>. HIDE DEF row
<1>. QED
  BY <1>1, <1>2, RowAssumption DEF TypeInv, TypeOK

(* What is not there has no parts; a row has parts of its own. *)
LEMMA RowParts ==
    ASSUME TypeInv, NEW m \in Requests, Exists(m)
    PROVE  /\ stored[m] \in Message
           /\ stored[m].key \in Keys \cup {None} /\ stored[m].body \in Texts \cup {None}
           /\ stored[m].content \in Texts \cup {None}
  BY DEF TypeInv, TypeOK, Exists, Message

(* Edits and deletions change a row, never whether it is there, nor its    *)
(* key or its parts.                                                       *)
LEMMA RowsChanged ==
    ASSUME TypeInv, NEW r \in Requests, At(r, "update"), Edit(r) \/ Delete(r) \/ Clear(r)
    PROVE  /\ stored' \in [Requests -> Message \cup {None}]
           /\ \A m \in Requests : /\ Exists(m) <=> Exists(m)'
                                  /\ Exists(m) => stored'[m].key = stored[m].key
                                                  /\ stored'[m].body = stored[m].body
<1>. DEFINE edited(m) == [stored[m] EXCEPT !.content = request[r].text]
            deleted(m) == [stored[m] EXCEPT !.live = FALSE]
<1>1. ASSUME NEW m \in Requests, Exists(m)
      PROVE  /\ edited(m) \in Message /\ deleted(m) \in Message
             /\ edited(m).key = stored[m].key /\ edited(m).body = stored[m].body
             /\ deleted(m).key = stored[m].key /\ deleted(m).body = stored[m].body
  BY <1>1, RowParts DEF TypeInv, TypeOK, Message, Request
<1>2. \A m \in Requests : Exists(m) <=> stored[m] # None
  BY DEF Exists
<1>3. Op(r) # "clear" => Of(r) \in Requests
  BY DEF TypeInv, Named, At, Edit, Delete, Clear
<1>4. \/ stored' = stored
      \/ Exists(Of(r)) /\ Of(r) \in Requests /\ stored' = [stored EXCEPT ![Of(r)] = edited(Of(r))]
      \/ Exists(Of(r)) /\ Of(r) \in Requests /\ stored' = [stored EXCEPT ![Of(r)] = deleted(Of(r))]
      \/ stored' = [m \in Requests |-> IF Exists(m) THEN deleted(m) ELSE None]
  BY <1>3 DEF Edit, Delete, Clear, Live
<1>. HIDE DEF edited, deleted
<1>5. stored' \in [Requests -> Message \cup {None}]
  BY <1>1, <1>2, <1>4 DEF TypeInv, TypeOK
<1>6. \A m \in Requests : Exists(m)' <=> stored'[m] # None
  BY DEF Exists
<1>7. \A m \in Requests : \/ stored'[m] = stored[m]
                          \/ Exists(m) /\ stored'[m] \in {edited(m), deleted(m)}
  BY <1>2, <1>4 DEF TypeInv, TypeOK
<1>. QED
  BY <1>1, <1>2, <1>5, <1>6, <1>7, RowAssumption

(* What the settings make of a new request. *)
LEMMA BegunFields ==
    ASSUME TypeInv, NEW r \in Requests, NEW op \in Sends \cup Edits,
           NEW k \in Keys \cup {None}, NEW m \in Requests \cup {None}
    PROVE  LET w == Begun(r, op, k, m)
           IN  /\ w \in Request
               /\ w.op = op /\ w.key = k /\ w.target = m /\ w.text = request[r].text
               /\ w.relay <=> runtime.storage = "relay_only"
               /\ w.pc = IF ~Allowed(op) THEN "done"
                         ELSE IF op = "forward" THEN "mode"
                         ELSE IF op \in {"send", "seal"} THEN "count" ELSE "check"
               /\ w.answer \in {"none", "refused"}
<1>. DEFINE content == IF op = "seal" THEN None ELSE request[r].text
            relay == runtime.storage = "relay_only"
            pc == IF ~Allowed(op) THEN "done"
                  ELSE IF op = "forward" THEN "mode"
                         ELSE IF op \in {"send", "seal"} THEN "count" ELSE "check"
            answer == IF Allowed(op) THEN "none" ELSE "refused"
            w == [request[r] EXCEPT !.op = op, !.key = k, !.target = m, !.content = content,
                                    !.relay = relay, !.pc = pc, !.answer = answer]
<1>1. request[r] \in Request
  BY DEF TypeInv, TypeOK
<1>2. /\ content \in Texts \cup {None} /\ relay \in BOOLEAN /\ pc \in Pc
      /\ answer \in Answer /\ answer \in {"none", "refused"}
  BY <1>1 DEF Request, Pc, Answer
<1>3. Begun(r, op, k, m) = w
  BY DEF Begun
<1>. HIDE DEF content, relay, pc, answer
<1>4. /\ w \in Request /\ w.op = op /\ w.key = k /\ w.target = m /\ w.text = request[r].text
      /\ w.relay = relay /\ w.pc = pc /\ w.answer = answer
  BY <1>1, <1>2 DEF Request
<1>. HIDE DEF w
<1>5. pc = IF ~Allowed(op) THEN "done" ELSE IF op = "forward" THEN "mode"
                         ELSE IF op \in {"send", "seal"} THEN "count" ELSE "check"
  BY DEF pc
<1>6. relay <=> runtime.storage = "relay_only"
  BY DEF relay
<1>. QED
  BY <1>2, <1>3, <1>4, <1>5, <1>6

(* The first state has the types, and names no message. *)
LEMMA TypeInit == Init => TypeInv
<1>. SUFFICES ASSUME Init PROVE TypeInv
  OBVIOUS
<1>1. \A r \in Requests : request[r] \in Request /\ At(r, "new")
  <2>. DEFINE fresh(x) == [pc |-> "new", op |-> None, relay |-> FALSE, key |-> None, text |-> x,
                           content |-> None, target |-> None, answer |-> "none"]
  <2>1. \A r \in Requests : \E x \in Texts : request[r] = fresh(x)
    BY DEF Init
  <2>2. \A x \in Texts : fresh(x) \in Request /\ fresh(x).pc = "new"
    BY DEF Request, Pc, Answer
  <2>. HIDE DEF fresh
  <2>. QED
    BY <2>1, <2>2 DEF At
<1>2. request \in [Requests -> Request]
  BY <1>1 DEF Init
<1>3. window \in [count : Nat, expires : BOOLEAN]
  BY DEF Init
<1>4. switches \in 0 .. MaxSwitches /\ faults \in 0 .. MaxFaults
  BY BoundsAssumption DEF Init
<1>. QED
  BY <1>1, <1>2, <1>3, <1>4 DEF Init, TypeInv, TypeOK, Named

(* Every step of a request keeps the types. *)
LEMMA TypeStep ==
    ASSUME TypeInv, NEW r \in Requests, Path(r), Step(r) \/ Crash(r)
    PROVE  TypeInv'
<1>. USE DEF TypeInv, TypeOK
<1>1. request[r] \in Request /\ Of(r) \in Requests \cup {None}
  BY DEF Of, Request
<1>2. \A a \in {"ok", "refused", "conflict", "unavailable", "error"} : a \in Answer
  BY DEF Answer
<1>3. \A pc \in {"check", "expire", "store", "relay", "reserve", "release", "commit", "publish", "push",
                 "update", "unpin", "done", "dead"} : pc \in Pc
  BY DEF Pc
<1>4. Fault => faults' \in 0 .. MaxFaults
  BY BoundsAssumption DEF Fault
<1>5. CASE Begin(r)
  <2>1. PICK op \in Sends \cup Edits, k \in Keys \cup {None}, m \in Requests \cup {None} :
          /\ op = "seal" <=> k # None
          /\ op \in {"send", "seal", "clear"} <=> m = None
          /\ request' = [request EXCEPT ![r] = Begun(r, op, k, m)]
    BY <1>5, Zenon DEF Begin
  <2>2. /\ Begun(r, op, k, m) \in Request
        /\ Begun(r, op, k, m).op = op /\ Begun(r, op, k, m).target = m
    <3>. HIDE DEF TypeInv, TypeOK
    <3>. QED
      BY BegunFields
  <2>3. op \notin {"send", "seal", "clear"} => m \in Requests
    BY <2>1
  <2>4. request' \in [Requests -> Request] /\ Named'
    BY <2>1, <2>2, <2>3, SetRequest
  <2>. QED
    BY <1>5, <2>4 DEF Begin, table, cache, sent
<1>5a. CASE ReadMode(r)
  <2>1. request' \in [Requests -> Request] /\ Named'
    BY <1>2, <1>3, <1>5a, TypeFinish, TypeGoto DEF ReadMode, At
  <2>. QED
    BY <1>5a, <2>1 DEF ReadMode, table, cache, sent
<1>6. CASE Refuse(r)
  BY <1>2, <1>6, TypeFinish DEF Refuse, table, cache, sent, At
<1>7. CASE Check(r)
  <2>1. CASE Finish(r, "refused") \/ Goto(r, "update")
    <3>1. request' \in [Requests -> Request] /\ Named'
      BY <1>2, <1>3, <1>7, <2>1, TypeFinish, TypeGoto DEF Check, At
    <3>. QED
      BY <1>7, <3>1 DEF Check, table, cache, sent
  <2>2. CASE ~(Finish(r, "refused") \/ Goto(r, "update"))
    <3>. DEFINE text == IF Sealed(Of(r)) THEN None ELSE stored[Of(r)].body
                content == stored[Of(r)].content
                w == [request[r] EXCEPT !.pc = "store", !.text = text, !.content = content]
    <3>1. Op(r) = "forward" /\ Live(Of(r)) /\ request' = [request EXCEPT ![r] = w]
      BY <1>7, <2>2 DEF Check
    <3>2. Of(r) \in Requests /\ Exists(Of(r))
      BY <1>7, <3>1 DEF Named, Check, At, Live
    <3>3. text \in Texts \cup {None} /\ content \in Texts \cup {None}
      BY <3>2, RowParts
    <3>. HIDE DEF text, content
    <3>4. w \in Request /\ w.target = request[r].target
      BY <1>1, <1>3, <3>3 DEF Request
    <3>. HIDE DEF w
    <3>5. request' \in [Requests -> Request] /\ Named'
      BY <3>1, <3>2, <3>4, SetRequest DEF Of
    <3>. QED
      BY <1>7, <3>5 DEF Check, table, cache, sent
  <2>. QED
    BY <2>1, <2>2
<1>8. CASE Count(r)
  <2>1. Onward(r) \in Pc
    BY DEF Onward, Pc
  <2>2. request' \in [Requests -> Request] /\ Named'
    BY <1>2, <1>3, <1>8, <2>1, TypeFinish, TypeGoto DEF Count, At
  <2>3. window' \in [count : Nat, expires : BOOLEAN]
    BY <1>8 DEF Count
  <2>. QED
    BY <1>8, <2>2, <2>3 DEF Count, table, sent
<1>9. CASE Expire(r)
  <2>1. Onward(r) \in Pc
    BY DEF Onward, Pc
  <2>2. request' \in [Requests -> Request] /\ Named'
    BY <1>9, <2>1, TypeGoto DEF Expire, At
  <2>3. window' \in [count : Nat, expires : BOOLEAN]
    BY <1>9 DEF Expire
  <2>. QED
    BY <1>9, <2>2, <2>3 DEF Expire, table, sent
<1>10. CASE Store(r)
  BY <1>3, <1>10, TypeGoto, TypeInsert DEF Store, cache, sent, At
<1>11. CASE Seal(r)
  <2>1. request' \in [Requests -> Request] /\ Named'
    BY <1>2, <1>3, <1>11, TypeGoto, TypeFinish DEF Seal, AfterRepeat, At
  <2>2. stored' \in [Requests -> Message \cup {None}]
    BY <1>11, TypeInsert DEF Seal
  <2>. QED
    BY <1>11, <2>1, <2>2 DEF Seal, cache, sent
<1>12. CASE Publish(r) \/ Push(r)
  <2>1. request' \in [Requests -> Request] /\ Named'
    BY <1>2, <1>3, <1>12, TypeGoto, TypeFinish DEF Publish, Push, At
  <2>. QED
    BY <1>4, <1>12, <2>1 DEF Publish, Push, table, cache
<1>13. CASE Reserve(r)
  <2>1. request' \in [Requests -> Request] /\ Named'
    BY <1>2, <1>3, <1>13, TypeGoto, TypeFinish DEF Reserve, At
  <2>2. request[r].key \in Keys
    BY <1>1, <1>13 DEF Request, Reserve, Path, At
  <2>3. reserved' \subseteq Keys
    BY <1>13, <2>2 DEF Reserve
  <2>. QED
    BY <1>4, <1>13, <2>1, <2>3 DEF Reserve, table, sent
<1>14. CASE Relay(r)
  <2>1. request' \in [Requests -> Request] /\ Named'
    BY <1>2, <1>3, <1>14, TypeGoto, TypeFinish DEF Relay, At
  <2>. QED
    BY <1>4, <1>14, <2>1 DEF Relay, table, cache
<1>15. CASE Release(r)
  <2>1. request' \in [Requests -> Request] /\ Named'
    BY <1>2, <1>15, TypeFinish DEF Release, At
  <2>. QED
    BY <1>4, <1>15, <2>1 DEF Release, table, sent
<1>16. CASE Commit(r)
  <2>1. request' \in [Requests -> Request] /\ Named'
    BY <1>2, <1>16, TypeFinish DEF Commit, At
  <2>. QED
    BY <1>4, <1>16, <2>1 DEF Commit, table, cache, sent
<1>17. CASE Update(r)
  <2>1. request' \in [Requests -> Request] /\ Named'
    BY <1>2, <1>3, <1>17, TypeGoto, TypeFinish
    DEF Update, Edit, Delete, Clear, Pin, Unpin, React, Unreact, At
  <2>2. stored' \in [Requests -> Message \cup {None}]
    BY <1>17, RowsChanged DEF Update, Pin, Unpin, React, Unreact
  <2>3. Op(r) \notin {"send", "seal", "clear"} => Of(r) \in Requests
    BY <1>17 DEF Named, Update, At
  <2>4. pins' \subseteq Requests /\ reacted' \subseteq Requests
    BY <1>17, <2>3 DEF Update, Edit, Delete, Clear, Pin, Unpin, React, Unreact
  <2>. QED
    BY <1>17, <2>1, <2>2, <2>4 DEF Update, cache, sent
<1>18. CASE RemovePins(r)
  <2>1. request' \in [Requests -> Request] /\ Named'
    BY <1>2, <1>18, TypeFinish DEF RemovePins, At
  <2>2. pins' \subseteq Requests
    BY <1>18 DEF RemovePins
  <2>. QED
    BY <1>18, <2>1, <2>2 DEF RemovePins, cache, sent
<1>19. CASE Crash(r)
  <2>1. request' \in [Requests -> Request] /\ Named'
    BY <1>3, <1>19, TypeGoto DEF Crash, At
  <2>. QED
    BY <1>4, <1>19, <2>1 DEF Crash, table, cache, sent
<1>. QED
  BY <1>5, <1>5a, <1>6, <1>7, <1>8, <1>9, <1>10, <1>11, <1>12, <1>13, <1>14, <1>15, <1>16, <1>17, <1>18,
     <1>19 DEF Step

-----------------------------------------------------------------------------
(* What one request does to the rest: rows stay, with their keys and       *)
(* parts, only its own row and its own name may be added, and the other    *)
(* requests are left alone.                                                *)
Grows(r) ==
    /\ \A q \in Requests \ {r} : request'[q] = request[q]
    /\ \A m \in Requests : Exists(m) =>
          Exists(m)' /\ stored'[m].key = stored[m].key /\ stored'[m].body = stored[m].body
    /\ \A m \in Requests \ {r} : Exists(m)' => Exists(m)
    /\ published \subseteq published' /\ published' \subseteq published \cup {r}
    /\ pushed \subseteq pushed' /\ pushed' \subseteq pushed \cup {r}

(* A step of one request that only adds to what is stored and announced    *)
(* leaves the others as they are.                                          *)
LEMMA OthersKept ==
    ASSUME Inv, NEW r \in Requests, Grows(r), NEW q \in Requests \ {r}
    PROVE  Path(q)' /\ Kept(q)' /\ Acknowledged(q)'
<1>. USE DEF Inv, Grows
<1>1. request'[q] = request[q] /\ Path(q) /\ Kept(q) /\ Acknowledged(q)
  OBVIOUS
<1>2. Path(q)'
  BY <1>1 DEF Path
<1>3. Exists(q)' <=> Exists(q)
  OBVIOUS
<1>4. Exists(q) => stored'[q].key = stored[q].key /\ stored'[q].body = stored[q].body
  OBVIOUS
<1>5. (q \in published' <=> q \in published) /\ (q \in pushed' <=> q \in pushed)
  OBVIOUS
<1>6. Kept(q)'
  BY <1>1, <1>3, <1>4, <1>5 DEF Kept
<1>7. Acknowledged(q)'
  BY <1>1, <1>5 DEF Acknowledged, Op
<1>. QED
  BY <1>2, <1>6, <1>7

(* A request whose row does not change leaves the keys unique, and so does *)
(* one that inserts a row without a key or with a key nobody has.          *)
LEMMA KeysKept ==
    ASSUME Inv, NEW r \in Requests, Grows(r),
           \/ Exists(r)' => Exists(r)
           \/ Exists(r)' /\ (stored'[r].key # None =>
                \A m \in Requests : Exists(m) => stored[m].key # stored'[r].key)
    PROVE  KeysUnique'
<1>1. \A m \in Requests \ {r} : (Exists(m)' <=> Exists(m))
  BY DEF Grows
<1>2. \A m \in Requests : Exists(m) =>
        stored'[m].key = stored[m].key
  BY DEF Grows
<1>3. KeysUnique
  BY DEF Inv
<1>4. CASE Exists(r)' => Exists(r)
  BY <1>1, <1>2, <1>3, <1>4 DEF KeysUnique
<1>5. CASE Exists(r)' /\ (stored'[r].key # None =>
                \A m \in Requests : Exists(m) => stored[m].key # stored'[r].key)
  BY <1>1, <1>2, <1>3, <1>5 DEF KeysUnique
<1>. QED
  BY <1>4, <1>5

(* Requests that go on or end, without a change of their other fields. *)
SameRequest(r) ==
    /\ \A q \in Requests \ {r} : request'[q] = request[q]
    /\ request'[r].op = request[r].op /\ request'[r].key = request[r].key
    /\ request'[r].text = request[r].text /\ request'[r].relay = request[r].relay

(* A request that goes on keeps its message and its answer. *)
LEMMA GoneOn ==
    ASSUME Inv, NEW r \in Requests, NEW pc, Goto(r, pc)
    PROVE  SameRequest(r) /\ request'[r].pc = pc /\ request'[r].answer = request[r].answer
<1>1. request[r] \in Request /\ request \in [Requests -> Request]
  BY DEF Inv, TypeInv, TypeOK
<1>. QED
  BY <1>1 DEF Goto, Request, SameRequest

(* An answer ends a request and changes nothing else of it. *)
LEMMA Ended ==
    ASSUME Inv, NEW r \in Requests, NEW answer, Finish(r, answer)
    PROVE  SameRequest(r) /\ request'[r].pc = "done" /\ request'[r].answer = answer
<1>1. request[r] \in Request /\ request \in [Requests -> Request]
  BY DEF Inv, TypeInv, TypeOK
<1>. QED
  BY <1>1 DEF Finish, Request, SameRequest

(* A step that touches neither the rows nor what is announced. *)
LEMMA Quiet ==
    ASSUME Inv, NEW r \in Requests, UNCHANGED <<stored, published, pushed>>,
           \A q \in Requests \ {r} : request'[q] = request[q]
    PROVE  Grows(r) /\ KeysUnique'
<1>1. Grows(r)
  BY DEF Grows, Exists
<1>2. Exists(r)' => Exists(r)
  BY DEF Exists
<1>. QED
  BY <1>1, <1>2, KeysKept

(* A request ends without having done anything.                            *)
LEMMA EndedQuiet ==
    ASSUME Inv, NEW r \in Requests, ~At(r, "new"),
           NEW answer \in Answer \ {"ok"}, Finish(r, answer),
           UNCHANGED <<stored, published, pushed>>
    PROVE  Grows(r) /\ KeysUnique' /\ Path(r)' /\ Kept(r)' /\ Acknowledged(r)'
<1>1. SameRequest(r) /\ request'[r].pc = "done" /\ request'[r].answer = answer
  BY Ended
<1>2. Grows(r) /\ KeysUnique'
  BY <1>1, Quiet DEF SameRequest
<1>3. Path(r) /\ Kept(r)
  BY DEF Inv
<1>4. Path(r)' /\ Acknowledged(r)'
  BY <1>1, <1>3 DEF SameRequest, Path, Acknowledged, At
<1>5. Kept(r)'
  BY <1>1, <1>3 DEF SameRequest, Kept, Exists
<1>. QED
  BY <1>2, <1>4, <1>5

(* A request goes on to a place that asks for nothing new. *)
LEMMA WentQuiet ==
    ASSUME Inv, NEW r \in Requests, ~At(r, "new"), request[r].pc # "done",
           NEW pc \in {"check", "expire", "store", "reserve", "relay", "update", "release", "dead"},
           Goto(r, pc), UNCHANGED <<stored, published, pushed>>,
           pc = "check" => ~Exists(r) /\ Op(r) = "forward" /\ ~request[r].relay,
           pc = "store" => Op(r) \in Sends /\ ~request[r].relay,
           pc = "relay" => Op(r) \in Sends /\ request[r].relay,
           pc \in {"reserve", "release"} => Op(r) = "seal" /\ request[r].relay,
           pc = "expire" => Op(r) \in {"send", "seal"},
           pc = "update" => Op(r) \in Edits
    PROVE  Grows(r) /\ KeysUnique' /\ Path(r)' /\ Kept(r)' /\ Acknowledged(r)'
<1>1. SameRequest(r) /\ request'[r].pc = pc /\ request'[r].answer = request[r].answer
  BY GoneOn
<1>2. Grows(r) /\ KeysUnique'
  BY <1>1, Quiet DEF SameRequest
<1>3. Path(r) /\ Kept(r)
  BY DEF Inv
<1>4. Path(r)'
  BY <1>1, <1>3 DEF SameRequest, Path, At, Op
<1>5. Kept(r)'
  BY <1>1, <1>3 DEF SameRequest, Kept, Exists
<1>6. Acknowledged(r)'
  BY <1>1, <1>3 DEF SameRequest, Path, Acknowledged, Op
<1>. QED
  BY <1>2, <1>4, <1>5, <1>6

(* A message is inserted: the request had none yet, or the same. *)
LEMMA InsertKept ==
    ASSUME Inv, NEW r \in Requests, At(r, "store"), Insert(r), Goto(r, "publish"),
           UNCHANGED <<published, pushed>>, Op(r) = "seal" => SameKey(r) = {}
    PROVE  Grows(r) /\ KeysUnique' /\ Path(r)' /\ Kept(r)' /\ Acknowledged(r)'
<1>1. SameRequest(r) /\ request'[r].pc = "publish" /\ request'[r].answer = request[r].answer
  BY GoneOn
<1>2. /\ \A m \in Requests \ {r} : stored'[m] = stored[m]
      /\ stored'[r] # None /\ stored'[r].key = request[r].key
      /\ stored'[r].body = request[r].text
  BY TypeInsert DEF Inv
<1>3. Path(r) /\ Kept(r)
  BY DEF Inv
<1>4. Grows(r)
  BY <1>1, <1>2, <1>3 DEF SameRequest, Grows, Exists, Kept
<1>5. request[r].key # None => \A m \in Requests : Exists(m) => stored[m].key # request[r].key
  BY <1>3 DEF Path, Op, SameKey, At
<1>6. KeysUnique'
  BY <1>2, <1>4, <1>5, KeysKept DEF Exists
<1>7. Path(r)'
  BY <1>1, <1>3 DEF SameRequest, Path, At, Op
<1>8. Kept(r)'
  BY <1>1, <1>2 DEF SameRequest, Kept, Exists
<1>9. Acknowledged(r)'
  BY <1>1, <1>3 DEF Path, Acknowledged, At
<1>. QED
  BY <1>4, <1>6, <1>7, <1>8, <1>9

(* Every step of a request keeps the invariant. *)
LEMMA InvStep ==
    ASSUME Inv, NEW r \in Requests, Step(r) \/ Crash(r)
    PROVE  Grows(r) /\ KeysUnique' /\ Path(r)' /\ Kept(r)' /\ Acknowledged(r)'
<1>1. /\ Path(r) /\ Kept(r) /\ Acknowledged(r) /\ TypeInv
      /\ request[r] \in Request
  BY DEF Inv, TypeInv, TypeOK
<1>2. /\ \A a \in {"refused", "conflict", "unavailable", "error"} : a \in Answer \ {"ok"}
      /\ "ok" \in Answer /\ request[r].answer \in Answer
  BY <1>1 DEF Answer, Request
<1>5. CASE Begin(r)
  <2>1. PICK op \in Sends \cup Edits, k \in Keys \cup {None}, m \in Requests \cup {None} :
          /\ op = "seal" <=> k # None
          /\ request' = [request EXCEPT ![r] = Begun(r, op, k, m)]
    BY <1>5, Zenon DEF Begin
  <2>2. UNCHANGED <<stored, published, pushed>> /\ At(r, "new")
    BY <1>5 DEF Begin, table, sent
  <2>3. /\ \A q \in Requests \ {r} : request'[q] = request[q]
        /\ request'[r] = Begun(r, op, k, m)
    BY <2>1 DEF Inv, TypeInv, TypeOK
  <2>4. /\ request'[r].op = op /\ request'[r].key = k
        /\ request'[r].relay <=> runtime.storage = "relay_only"
        /\ request'[r].pc = IF ~Allowed(op) THEN "done"
                            ELSE IF op = "forward" THEN "mode"
                         ELSE IF op \in {"send", "seal"} THEN "count" ELSE "check"
        /\ request'[r].answer \in {"none", "refused"}
    BY <1>1, <2>3, BegunFields
  <2>5. Grows(r) /\ KeysUnique'
    BY <2>2, <2>3, Quiet
  <2>6. op = "forward" /\ Allowed(op) => runtime.storage = "persist"
    BY DEF Allowed
  <2>7. Path(r)'
    BY <2>1, <2>4, <2>6 DEF Path, Sends
  <2>8. Kept(r)'
    BY <1>1, <2>2, <2>4 DEF Kept, At, Exists
  <2>9. Acknowledged(r)'
    BY <2>4 DEF Acknowledged
  <2>. QED
    BY <2>5, <2>7, <2>8, <2>9
<1>5a. CASE ReadMode(r)
  <2>1. UNCHANGED <<stored, published, pushed>> /\ At(r, "mode")
    BY <1>5a DEF ReadMode, table, sent
  <2>2. ~Exists(r) /\ Op(r) = "forward" /\ ~request[r].relay
    BY <1>1, <2>1 DEF Path, Kept, At, Op
  <2>. QED
    BY <1>2, <1>5a, <2>1, <2>2, WentQuiet, EndedQuiet DEF ReadMode, At
<1>6. CASE Refuse(r)
  BY <1>2, <1>6, EndedQuiet DEF Refuse, table, sent, At
<1>7. CASE Check(r)
  <2>0. UNCHANGED <<stored, published, pushed>> /\ At(r, "check")
    BY <1>7 DEF Check, table, sent
  <2>1. CASE Finish(r, "refused")
    BY <1>2, <2>0, <2>1, EndedQuiet DEF At
  <2>2. CASE Goto(r, "update") /\ Op(r) # "forward"
    <3>1. Op(r) \in Edits
      BY <1>1, <2>0, <2>2 DEF Path, At, Op
    <3>. QED
      BY <2>0, <2>2, <3>1, WentQuiet DEF At
  <2>3. CASE ~Finish(r, "refused") /\ Op(r) = "forward"
    <3>. DEFINE text == IF Sealed(Of(r)) THEN None ELSE stored[Of(r)].body
                content == stored[Of(r)].content
                w == [request[r] EXCEPT !.pc = "store", !.text = text, !.content = content]
    <3>1. request' = [request EXCEPT ![r] = w]
      BY <1>7, <2>3 DEF Check
    <3>. HIDE DEF text, content
    <3>2. /\ w.pc = "store" /\ w.op = request[r].op /\ w.key = request[r].key
          /\ w.relay = request[r].relay /\ w.answer = request[r].answer
      BY <1>1 DEF Request
    <3>. HIDE DEF w
    <3>3. request'[r] = w /\ \A q \in Requests \ {r} : request'[q] = request[q]
      BY <3>1 DEF Inv, TypeInv, TypeOK
    <3>4. Path(r)'
      BY <1>1, <2>0, <2>3, <3>2, <3>3 DEF Path, At, Op, Sends
    <3>5. Kept(r)'
      BY <1>1, <2>0, <3>2, <3>3 DEF Kept, At, Exists
    <3>6. Acknowledged(r)'
      BY <1>1, <2>0, <3>2, <3>3 DEF Path, At, Acknowledged
    <3>. QED
      BY <2>0, <3>3, <3>4, <3>5, <3>6, Quiet
  <2>. QED
    BY <1>7, <2>1, <2>2, <2>3 DEF Check
<1>8. CASE Count(r) \/ Expire(r)
  <2>0. /\ UNCHANGED <<stored, published, pushed>> /\ request[r].pc \in {"count", "expire"}
        /\ Op(r) \in {"send", "seal"}
    BY <1>1, <1>8 DEF Count, Expire, table, sent, Path, At, Op
  <2>1. CASE Finish(r, "refused")
    BY <1>2, <2>0, <2>1, EndedQuiet DEF At
  <2>2. CASE Goto(r, "expire")
    BY <2>0, <2>2, WentQuiet DEF At
  <2>3. CASE Goto(r, Onward(r))
    <3>1. \/ Onward(r) = "store" /\ ~request[r].relay
          \/ Onward(r) = "reserve" /\ Op(r) = "seal" /\ request[r].relay
          \/ Onward(r) = "relay" /\ request[r].relay
      BY <1>1 DEF Onward, Request
    <3>. QED
      BY <2>0, <2>3, <3>1, WentQuiet DEF At, Sends
  <2>. QED
    BY <1>8, <2>1, <2>2, <2>3 DEF Count, Expire
<1>10. CASE Store(r)
  BY <1>10, InsertKept DEF Store, sent
<1>11. CASE Seal(r)
  <2>0. UNCHANGED <<published, pushed>> /\ At(r, "store") /\ Op(r) = "seal"
    BY <1>11 DEF Seal, sent
  <2>1. CASE Repeated(r) /\ AfterRepeat(r) /\ UNCHANGED stored
    <3>1. SameRequest(r) /\ request'[r].pc = "done"
      BY <2>1, Ended DEF AfterRepeat
    <3>2. Acknowledged(r)'
      BY <1>1, <2>0, <2>1, <3>1 DEF SameRequest, Acknowledged, Repeated, SameKey, Exists, Path, At
    <3>3. Path(r)' /\ Kept(r)'
      BY <1>1, <2>0, <2>1, <3>1 DEF SameRequest, Path, Kept, Exists, At
    <3>. QED
      BY <2>0, <2>1, <3>1, <3>2, <3>3, Quiet DEF SameRequest
  <2>2. CASE UNCHANGED stored /\ (Finish(r, "conflict") \/ Finish(r, "refused"))
    BY <1>2, <2>0, <2>2, EndedQuiet DEF At
  <2>3. CASE SameKey(r) = {} /\ Insert(r) /\ Goto(r, "publish")
    BY <2>0, <2>3, InsertKept
  <2>. QED
    BY <1>11, <2>1, <2>2, <2>3 DEF Seal
<1>12. CASE Publish(r) \/ Push(r)
  <2>1. SameRequest(r)
    BY <1>12, GoneOn, Ended DEF Publish, Push
  <2>2. \/ request'[r].pc = "push" /\ request'[r].answer = request[r].answer
        \/ request'[r].pc = "done"
    BY <1>12, GoneOn, Ended DEF Publish, Push
  <2>3. /\ stored' = stored /\ published \subseteq published' /\ pushed \subseteq pushed'
        /\ published' \subseteq published \cup {r} /\ pushed' \subseteq pushed \cup {r}
    BY <1>12 DEF Publish, Push, table
  <2>4. Grows(r) /\ (Exists(r)' => Exists(r))
    BY <2>1, <2>3 DEF SameRequest, Grows, Exists
  <2>5. Exists(r) /\ ~request[r].relay /\ request[r].op \in Sends /\ request[r].answer # "ok"
    BY <1>1, <1>12 DEF Publish, Push, Path, Kept, At
  <2>6. ~At(r, "new")
    BY <1>12 DEF Publish, Push, At
  <2>7. Path(r)' /\ Kept(r)'
    BY <1>1, <2>1, <2>2, <2>3, <2>5, <2>6 DEF SameRequest, Path, Kept, Exists, At
  <2>8. Acknowledged(r)'
    BY <1>1, <2>1, <2>3, <2>5 DEF SameRequest, Acknowledged, Kept, Exists
  <2>. QED
    BY <2>4, <2>7, <2>8, KeysKept
<1>13. CASE Reserve(r)
  <2>0. /\ UNCHANGED <<stored, published, pushed>> /\ At(r, "reserve")
        /\ Op(r) = "seal" /\ request[r].relay
    BY <1>1, <1>13 DEF Reserve, table, sent, Path, At, Op
  <2>1. CASE Finish(r, "conflict") \/ Finish(r, "error") \/ Finish(r, "refused")
    BY <1>2, <2>0, <2>1, EndedQuiet DEF At
  <2>2. CASE Goto(r, "relay")
    BY <2>0, <2>2, WentQuiet DEF At, Sends
  <2>. QED
    BY <1>13, <2>1, <2>2 DEF Reserve
<1>14. CASE Relay(r)
  <2>0. /\ UNCHANGED <<stored, pushed>> /\ At(r, "relay") /\ Op(r) \in Sends /\ request[r].relay
        /\ request[r].answer # "ok"
    BY <1>1, <1>14 DEF Relay, table, Path, At, Op
  <2>1. CASE published' = published /\ Goto(r, "release") /\ Op(r) = "seal"
    BY <2>0, <2>1, WentQuiet DEF At
  <2>2. CASE published' = published /\ Finish(r, "unavailable")
    BY <1>2, <2>0, <2>2, EndedQuiet DEF At
  <2>3. CASE /\ published' = published \cup {r}
             /\ (Goto(r, "commit") /\ Op(r) = "seal") \/ Finish(r, "ok")
    <3>1. SameRequest(r)
      BY <2>3, GoneOn, Ended
    <3>2. \/ request'[r].pc = "commit" /\ request'[r].answer = request[r].answer /\ Op(r) = "seal"
          \/ request'[r].pc = "done"
      BY <2>3, GoneOn, Ended
    <3>3. Grows(r) /\ (Exists(r)' => Exists(r))
      BY <2>0, <2>3, <3>1 DEF SameRequest, Grows, Exists
    <3>4. Path(r)' /\ Kept(r)' /\ Acknowledged(r)'
      BY <1>1, <2>0, <2>3, <3>1, <3>2 DEF SameRequest, Path, Kept, Acknowledged, Exists, At, Op
    <3>. QED
      BY <3>3, <3>4, KeysKept
  <2>. QED
    BY <1>14, <2>1, <2>2, <2>3 DEF Relay
<1>15. CASE Release(r)
  BY <1>2, <1>15, EndedQuiet DEF Release, table, sent, At
<1>16. CASE Commit(r)
  <2>0. UNCHANGED <<stored, published, pushed>> /\ At(r, "commit")
    BY <1>16 DEF Commit, table, sent
  <2>1. CASE Finish(r, "ok")
    <3>1. SameRequest(r) /\ request'[r].pc = "done"
      BY <2>1, Ended
    <3>2. Path(r)' /\ Kept(r)' /\ Acknowledged(r)'
      BY <1>1, <2>0, <3>1 DEF SameRequest, Path, Kept, Acknowledged, Exists, At
    <3>. QED
      BY <2>0, <3>1, <3>2, Quiet DEF SameRequest
  <2>. QED
    BY <1>2, <1>16, <2>0, <2>1, EndedQuiet DEF Commit, At
<1>17. CASE Update(r) \/ RemovePins(r)
  <2>0. /\ UNCHANGED <<published, pushed>> /\ Op(r) \in Edits
        /\ request[r].pc \in {"update", "unpin"}
    BY <1>1, <1>17 DEF Update, RemovePins, sent, Path, At, Op
  <2>1. /\ \A m \in Requests : /\ Exists(m) <=> Exists(m)'
                               /\ Exists(m) => stored'[m].key = stored[m].key
                                               /\ stored'[m].body = stored[m].body
    <3>1. CASE stored' = stored
      BY <3>1 DEF Exists
    <3>2. CASE At(r, "update") /\ (Edit(r) \/ Delete(r) \/ Clear(r))
      BY <1>1, <3>2, RowsChanged
    <3>. QED
      BY <1>17, <3>1, <3>2 DEF Update, RemovePins, Pin, Unpin, React, Unreact
  <2>2. /\ SameRequest(r)
        /\ \/ request'[r].pc = "unpin" /\ request'[r].answer = request[r].answer
           \/ request'[r].pc = "done"
    BY <1>17, GoneOn, Ended
    DEF Update, RemovePins, Edit, Delete, Clear, Pin, Unpin, React, Unreact
  <2>3. Grows(r)
    BY <2>0, <2>1, <2>2 DEF SameRequest, Grows
  <2>4. KeysUnique'
    BY <2>1, <2>3, KeysKept
  <2>5. Op(r) \notin Sends
    BY <2>0 DEF Sends, Edits
  <2>6. Path(r)' /\ Kept(r)'
    BY <1>1, <2>0, <2>1, <2>2 DEF SameRequest, Path, Kept, At, Op
  <2>7. Acknowledged(r)'
    BY <2>2, <2>5 DEF SameRequest, Acknowledged, Op
  <2>. QED
    BY <2>3, <2>4, <2>6, <2>7
<1>19. CASE Crash(r)
  BY <1>19, WentQuiet DEF Crash, table, sent, At
<1>. QED
  BY <1>5, <1>5a, <1>6, <1>7, <1>8, <1>10, <1>11, <1>12, <1>13, <1>14, <1>15, <1>16, <1>17,
     <1>19 DEF Step

-----------------------------------------------------------------------------
(* The invariant holds in the first state. *)
LEMMA InvInit == Init => Inv
<1>. SUFFICES ASSUME Init PROVE Inv
  OBVIOUS
<1>1. \A r \in Requests : request[r].pc = "new" /\ request[r].op = None
                           /\ request[r].answer = "none"
  <2>. DEFINE fresh(x) == [pc |-> "new", op |-> None, relay |-> FALSE, key |-> None, text |-> x,
                           content |-> None, target |-> None, answer |-> "none"]
  <2>1. \A r \in Requests : \E x \in Texts : request[r] = fresh(x)
    BY DEF Init
  <2>2. \A x \in Texts : /\ fresh(x).pc = "new" /\ fresh(x).op = None
                          /\ fresh(x).answer = "none"
    OBVIOUS
  <2>. HIDE DEF fresh
  <2>. QED
    BY <2>1, <2>2
<1>2. \A r \in Requests : ~Exists(r) /\ r \notin published \cup pushed
  BY DEF Init, Exists
<1>3. KeysUnique
  BY <1>2 DEF KeysUnique
<1>4. \A r \in Requests : Path(r) /\ Kept(r) /\ Acknowledged(r)
  BY <1>1, <1>2 DEF Path, Kept, Acknowledged
<1>. QED
  BY <1>3, <1>4, TypeInit DEF Inv

(* The steps of no request: they touch neither requests nor messages. *)
LEMMA OtherSteps ==
    ASSUME Inv,
           \/ WindowEnds \/ Switch \/ (\E k \in Keys : ReservationEnds(k)) \/ UNCHANGED vars
    PROVE  Inv'
<1>1. UNCHANGED <<request, stored, published, pushed>>
  BY DEF WindowEnds, Switch, ReservationEnds, vars, table, sent
<1>2. TypeOK'
  <2>. USE DEF Inv, TypeInv, TypeOK
  <2>1. CASE WindowEnds
    <3>1. window' \in [count : Nat, expires : BOOLEAN]
      BY <2>1 DEF WindowEnds
    <3>. QED
      BY <2>1, <3>1 DEF WindowEnds, table, sent
  <2>2. CASE Switch
    BY <2>2, BoundsAssumption DEF Switch, table, cache, sent
  <2>3. CASE \E k \in Keys : ReservationEnds(k)
    BY <2>3 DEF ReservationEnds, table, sent
  <2>4. CASE UNCHANGED vars
    BY <2>4 DEF vars, table, cache, sent
  <2>. QED
    BY <2>1, <2>2, <2>3, <2>4
<1>3. Named'
  BY <1>1 DEF Inv, TypeInv, Named, At, Op, Of
<1>4. KeysUnique'
  BY <1>1 DEF Inv, KeysUnique, Exists
<1>5. ASSUME NEW r \in Requests PROVE Path(r)' /\ Kept(r)' /\ Acknowledged(r)'
  <2>1. Path(r) /\ Kept(r) /\ Acknowledged(r)
    BY DEF Inv
  <2>. QED
    BY <1>1, <2>1 DEF Path, Kept, Acknowledged, Exists, Op
<1>. QED
  BY <1>2, <1>3, <1>4, <1>5 DEF Inv, TypeInv

(* Every step keeps the invariant. *)
LEMMA InvNext == Inv /\ [Next]_vars => Inv'
<1>. SUFFICES ASSUME Inv, [Next]_vars PROVE Inv'
  OBVIOUS
<1>1. ASSUME NEW r \in Requests, Step(r) \/ Crash(r) PROVE Inv'
  <2>1. Grows(r) /\ KeysUnique' /\ Path(r)' /\ Kept(r)' /\ Acknowledged(r)'
    BY <1>1, InvStep
  <2>2. TypeInv'
    BY <1>1, TypeStep DEF Inv
  <2>3. \A q \in Requests \ {r} : Path(q)' /\ Kept(q)' /\ Acknowledged(q)'
    BY <2>1, OthersKept
  <2>. QED
    BY <2>1, <2>2, <2>3 DEF Inv
<1>. QED
  BY <1>1, OtherSteps DEF Next

(* The invariant that carries the theorems below. *)
THEOREM Invariance == Spec => []Inv
  BY InvInit, InvNext, PTL DEF Spec

(* The requests, the table of messages, the pins and the keys of Redis     *)
(* keep their types.                                                       *)
THEOREM TypeCorrect == Spec => []TypeOK
<1>1. Inv => TypeOK
  BY DEF Inv, TypeInv
<1>. QED
  BY <1>1, Invariance, PTL

(* create_encrypted_message_with_parts looks under the advisory lock of    *)
(* the key: of two sealed requests with one key at most one stores its     *)
(* message, and only that one publishes and pushes it, whatever crashes or *)
(* changes of the settings come between.                                   *)
THEOREM StoredAndAnnouncedOnce == Spec => []AnnouncedOnce
<1>1. ASSUME Inv, NEW r \in Requests, NEW s \in Requests,
             Op(r) = "seal", Op(s) = "seal", request[r].key = request[s].key,
             ~request[r].relay, ~request[s].relay
      PROVE  /\ Exists(r) /\ Exists(s) => r = s
             /\ {r, s} \subseteq published \cup pushed => r = s
  <2>1. Path(r) /\ Kept(r) /\ Kept(s) /\ KeysUnique
    BY <1>1 DEF Inv
  <2>2. Exists(r) /\ Exists(s) => r = s
    <3>. SUFFICES ASSUME Exists(r), Exists(s) PROVE r = s
      OBVIOUS
    <3>1. stored[r].key = request[r].key /\ stored[s].key = request[r].key
      BY <1>1, <2>1 DEF Kept
    <3>2. request[r].key # None
      BY <1>1, <2>1 DEF Path, Kept, Op
    <3>. QED
      BY <2>1, <3>1, <3>2 DEF KeysUnique
  <2>3. {r, s} \subseteq published \cup pushed => Exists(r) /\ Exists(s)
    BY <1>1, <2>1 DEF Kept
  <2>. QED
    BY <2>2, <2>3
<1>2. Inv => AnnouncedOnce
  BY <1>1 DEF AnnouncedOnce
<1>. QED
  BY <1>2, Invariance, PTL

(* What send_message, forward_message and the encrypted endpoint answer    *)
(* with success is in the table with that text, or was published when the  *)
(* request found relay_only: no later edit or deletion takes the row away. *)
THEOREM SuccessIsKept == Spec => []AcknowledgedKept
<1>1. Inv => AcknowledgedKept
  BY DEF Inv, Acknowledged, AcknowledgedKept
<1>. QED
  BY <1>1, Invariance, PTL
=============================================================================
