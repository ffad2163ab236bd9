# RedCode IM: specifications of the API server and its end-to-end encryption

RedCode IM is an instant messenger: an API server in Rust (`src/api`, axum,
PostgreSQL through sqlx, Redis for sessions, rate limits and Pub/Sub), a Rust
library around OpenMLS (`src/e2ee-core`), and web, desktop, Android, iOS and
administration clients. The server keeps nearly all of its state in PostgreSQL
and changes it from many request handlers and background workers at once, on
one or more nodes, at the isolation level READ COMMITTED. What is hard about it
is therefore between the statements of its transactions, and that is what most of
these modules model. The other half of the end-to-end encryption is in the
clients, which keep a protocol state of their own in step with the server's
queue across lost answers and closed pages; one module models that.

| Files | What they are |
|---|---|
| `E2eeControl.tla`, `ControlQueue.tla`, `MCE2eeControl.tla`, `E2eeControlProofs.tla` | MLS control plane: devices, room epochs, control messages, encrypted sends; and the abstract queue it implements |
| `E2eeClients.tla`, `MCE2eeClients.tla`, `E2eeClientsProofs.tla` | the coordinator of the web client with the groups of the MLS library, against that queue |
| `KeyPackages.tla`, `MCKeyPackages.tla`, `PackagesFilesProofs.tla` | publishing and claiming one-time KeyPackages |
| `E2eeGate.tla`, `MCE2eeGate.tla`, `GateHubProofs.tla` | the gate that switches the service to end-to-end encryption |
| `Messages.tla`, `MCMessages.tla`, `MessagesProofs.tla` | sending in both storage modes, and what is done to a message later |
| `Rooms.tla`, `MCRooms.tla`, `RoomsProofs.tla` | members, roles, ownership, invitations, mutes of one group |
| `Uploads.tla`, `MCUploads.tla`, `PackagesFilesProofs.tla` | attachments, multipart uploads, the audit queue and the cleaner |
| `Hub.tla`, `MCHub.tla`, `GateHubProofs.tla` | WebSocket connections of a node and its Redis subscription task |
| `Logins.tla`, `MCLogins.tla`, `LoginsProofs.tla` | login devices, refresh tokens, QR login |
| `PushQueue.tla`, `MCPushQueue.tla`, `PushQueueProofs.tla` | the queue of push notifications and its workers |
| `*.cfg` | the TLC runs, one file each |
| `PROJECT.json` | components, runs, the map from definitions to source lines, hazards, findings, theorems |

To repeat a run: `tlc -config push_queue.cfg MCPushQueue`; a proof:
`tlapm PushQueueProofs.tla`.

## 1. The system

### Parts, state, operations

| Part | State | Operations | Correct when |
|---|---|---|---|
| Trusted devices (`database/e2ee_mls_store.rs`, `handlers/e2ee.rs`) | `e2ee_devices.status`: pending, active, revoked | register (the first device of an account is active at once), approve, revoke | only a trusted device approves; a revocation makes every room of the account rekey |
| Room epochs (`database/e2ee_control_store.rs`, trigger in `sql/migrations/20260804173000_*`) | `e2ee_room_epochs`: membership revision, active epoch, status | a membership trigger bumps the revision, a Commit advances the epoch, approve and revoke ask for a rekey | one Commit per epoch, made for the present members |
| Control messages (same store) | `e2ee_control_messages`, `e2ee_control_receipts` | submit, list after a cursor, consume | no message is queued twice, none is skipped by a cursor |
| KeyPackages (`e2ee_mls_store.rs`) | `e2ee_key_packages` | publish a batch, claim one, expire | each is handed out once; bounded inventory |
| Runtime gate (`services/e2ee_runtime_gate.rs`, `services/message_runtime.rs`, `handlers/settings.rs`) | `e2ee_runtime_gate`, two settings | prepare, activate, roll back, mark the review, change settings | senders encrypt only under the gate; activation only when ready |
| Messages (`handlers/message.rs`, `database/message_store.rs`) | `messages` and parts, pins, reactions, Redis reservations and counters | send (plaintext, sealed, forwarded; persist and relay_only), edit, delete, clear, pin, react | a sealed message is stored and announced once, from a trusted device, under the active epoch; what is acknowledged is kept |
| Push queue (`database/push_job_store.rs`, `services/push.rs`) | `push_job_queue`, in-memory batches | enqueue, lease, send, mark, clean up | every job settles; a bounded number of attempts |
| Push devices (`database/push_device_store.rs`) | `push_devices` | register a token, deactivate | the current token is used |
| Rooms and groups (`database/room_store.rs`, `group_management_store.rs`) | `rooms`, `room_members`, roles, mutes | create, join, apply, invite, add, leave, remove, appoint, transfer, mute, dissolve | only members manage; the owner's role is held by owners only; dissolution is final |
| Uploads (`file_upload_store.rs`, `file_upload_cleanup.rs`, `file_upload_audit*`, `multipart_upload.rs`) | upload records, attachment commits, audit tasks, S3 objects | sign, upload, commit, reference, audit, clean up | no referenced object is deleted; what is marked completed was stored |
| WebSocket hub (`websocket/mod.rs`) | connections and subscriptions in memory, Redis Pub/Sub | authenticate, join, leave, close, disconnect a device, synchronise a channel | the node listens to the rooms its connections do; a revoked device is closed |
| Accounts, sessions, QR login (`handlers/auth.rs`, `qr_login.rs`) | accounts, Redis sessions, `qr_login_sessions` | log in, refresh, revoke, create, confirm, cancel, poll | a working token is found by a revocation; a QR session gives out one code |
| E2EE client (`src/h5-app/src/e2ee`, same structure on Android and iOS) | protocol state, device profile and one pending operation in secure storage | bootstrap, rekey, sync, send, retry | its state follows the queue; a pending operation always ends |

`PROJECT.json` lists them all, with those left out (content CRUD, storage
configuration, other client code, deployment) and the reason.

### How they interact

A client registers a device (**devices**), publishes packages (**KeyPackages**),
joins a room (**rooms**, whose trigger moves the **epoch** row), claims a
package of every peer, submits a Commit and a Welcome per peer (**control
messages**), and sends ciphertext under the active epoch (**messages**), which
are broadcast (**WebSocket hub**) and pushed (**push queue**). An administrator
opens the **gate** once enough devices are ready. The parts share PostgreSQL
rows, not memory: an epoch row is updated by joins and leaves (trigger),
submissions, approvals and revocations; a device row is locked by approvals,
revocations and publications and shared by everything that refers to it by a
foreign key.

### What is hard

`PROJECT.json` lists the hazards at their lines. They are of these kinds: a
check without a lock and a wait before its result is used (submissions, sends,
claims, activations); two lock orders (revocation: device then epoch;
submission: epoch then device; the tables of a group in three orders); a client
that writes its state, its place in the queue and its pending operation one
after the other, and repeats or gives up what it does not know the outcome of; a lease
that runs out while its holder works (push, upload audit); several stores
changed one after the other (gate and setting, Redis and PostgreSQL, object
store and PostgreSQL, message and broadcast, the connection maps and the hub);
retries of requests whose answer was lost.

## 2. The modules

Common conventions. A handler is cut into actions where another transaction can
get in between: before an unlocked read, and where it may wait for a row lock.
Writes become visible in one step, the commit, unless they are single
statements. Row locks are not variables but predicates over how far each
transaction has got (`SubmitHolds`, `HoldsShare`, ...). A transaction that rolls
back (lost connection, deadlock victim, unique violation) has an `...Abort`
action. Bodies, signatures, names, sizes and rate limits are left out. The
definitions named `...Late`, `...Any`, `HoldsNo...` and the like, marked
"Variant", are not part of the specifications: each is a plausible bug, used to
show that a property can fail.

**E2eeControl.** `status`, `members`, `epoch`, `log`, `receipt`, `sent` are the
tables; `nextSeq` is the identity sequence (drawn before COMMIT, not given
back); `cursor` is what a client device passes as `after_sequence`; `sub`, `mgr`,
`snd`, `lst` are the open requests. `submit_control_message` is `SubmitBegin`
(sender check), `SubmitCheckRecipient`, `SubmitLock` (`FOR UPDATE` of the epoch
row, the lookup of a retry, the admission), `SubmitInsert` (sequence number and
the receiver snapshot), `SubmitFinish` (commit). `approve_device` and
`revoke_device` are `ApproveBegin` or `RevokeBegin`, one `MarkRekey` per room in
any order, `ManageFinish`. `send_encrypted_message` is `SendBegin` (membership),
`SendCheckDevice` (the advisory lock, the lookup by idempotency key, the device
check), `SendFinish` (epoch lock and insertion). `AddMember`, `RemoveMember` and
`DissolveRoom` contain the trigger (`BumpRevision`).

**KeyPackages.** A publication (`PublishBegin` under `FOR SHARE`, one
`PublishInsert` per package waiting on the unique index, `PublishCount`,
`PublishCommit`), a claim (`ClaimBegin`: the snapshot of the subquery;
`ClaimLock`: `SKIP LOCKED` and the re-check; `ClaimFinish`: foreign key and
commit), a revocation as a lock on one device row. `returned` counts the claims
that took a package, whether or not the answer arrived. `expired` holds only
packages that are not consumed: every statement that reads `expires_at` reads
`consumed_at IS NULL` with it. A transaction keeps what it has read only as long
as one of its statements may still use it.

**E2eeGate.** `PrepareBegin`/`PrepareFinish` and `ActivateBegin`,
`ReadCapabilities`, `ReadInventory`, `ReadApprovals`, `ActivateFinish` are the
statements of the two read-then-write handlers; `Rollback`, `UpdateRuntime` and
`MarkReview` are single transactions. Which devices have a sufficient version
is the constant set `Compliant`; coverage is the integer division of the code.
`lasting` is a history variable for one property.

**PushQueue.** `run[n][j]` is what node `n` does with job `j` of its batch.
`Claim` is the lease; `BecomeDue` lets any lease or back-off run out at any
moment. `GiveUp`, `Notify`, `SendToDevice`, `DeactivateDevice`, `FinishSending`
and `Mark` are the processing of one job; `MarkFails` is a mark whose error is
ignored, `Crash` a node that stops. A deactivation that fails is only logged. The marks are unconditional updates by id,
as in the code.

**ControlQueue.** The specification of the queues that clients rely on: `epoch`
and `log` alone, a Commit or a Welcome appended in one instant against the epoch
row of that instant, a membership change, a request to rekey. `E2eeControl`
implements it by the identity on these two variables (`Queue`,
`ImplementsQueue`): what has to be shown is that a decision taken under the lock
of the epoch row, several statements before the commit, is still right at the
commit.

**E2eeClients.** The server is a `ControlQueue` of one room (`Queue`, an
INSTANCE): its `Commit` and `Welcome` are what `Accept` does with a control, and
`AddMember`, `RemoveMember` and `Revoke` change the row as its trigger does. So
the two modules compose: `E2eeControl` implements the queue, and `E2eeClients` is
built on it. `group`, `profile` and `pending` are the three records of a device in
IndexedDB (protocol state, `lastControlSequences` with `lastCommitMessageIds`,
`E2eePendingOperation`), `call` is where the one call that `exclusive` lets run
has got to. A call is `Start` (resume what is pending), `ReadEpoch` and
`Reconcile` (`reconcileGroup`: a Commit per device that left or came and a Welcome
after each addition), `ListControls` (`syncControls` with `applyControlBatch`),
`ReadRoom` (`preparePayload`) and `Bootstrap`. `resumePending` is `Submit`,
`SubmitRefused` and `SubmitLost`, one control at a time; `CheckRekey`,
`RestoreState` and `DropPending`, its catch; `Send`; then `WriteState`,
`WriteProfile` and `DeletePending`. `Abandon` stops a call anywhere: an await that
throws or a page that is closed. `TopUpRead` and `TopUpWrite` are `doTopUp` of
`device-lifecycle.ts`, which does not go through `exclusive`.
Of the MLS library (`session.rs`) the model keeps that a Commit leads from one
group to another and is understood by the members of the first only (`Follows`).
The ratchets inside an epoch are left out, and with them the write of the state
that `decrypt` makes. `astray` is a history variable; it collects the devices the
code itself does not keep in step, in three ways: the account left the room once,
a top-up wrote an older state over a newer one, or a rekey was given up although
the server had taken one of its Commits.

**Messages.** One action per await of a request: `Begin` reads the runtime
settings (`ReadMode` the second one of a forwarded message, which looks at them in
two awaits), `Refuse` and `Check` are the permission checks, `Count` and `Expire`
the two Redis commands of the rate limit, `Store` and `Seal` the transactions,
`Reserve`, `Relay`, `Release`, `Commit` the relay_only path, `Publish` and `Push`
what follows a commit, `Update` and `RemovePins` the statements on a message
that exists. Permissions are the answer of other tables and may be either.

**Rooms.** A request first passes its unlocked checks (`Join`, `Kick`,
`Transfer`, ...), then takes its statements one at a time; the rows a statement
needs are `Wants`, the rows a transaction has are in `run[p].held`. A statement
that would wait is not enabled, and one member of a circle of waiters can become
a `DeadlockVictim`. `owned` is a history variable.

**Uploads.** `record`, `commit`, `message`, `session`, `task` are tables,
`object` and `parts` the object store. Handlers, the cleaner and the auditor are
processes whose next statement is `run[p].pc`. `Exclusive` and `Shared` are the
two row locks. `stored` and `torn` are history variables; `torn` collects the
keys whose row and object came apart in a way the code has no remedy for (a crash
between the deletion and its commit; a late retry of a commit with a hash, which
sets a deleted row to pending again).

**Hub.** `task[c]` is the socket task of a connection, which waits for at most
one command; `queue` and `hub` are the channel and the task of the hub,
`channels` what it believes it is subscribed to, `redis` what Redis sends.
`troubled` collects rooms whose last synchronisation failed or timed out: the
code logs those and tries again only at the next change of the room.

**Logins.** `device` and `qr` are tables, `stored`, `renewed` and `index` are in
Redis. `Register`, `Issue` and `Index` are the steps every login ends with, the
password login and the confirmation of a QR session alike. Times to live end in
`TokenExpires` and `IndexExpires`; an index expires while a token lives only if
the token has been renewed since, or if the index could not be prolonged when the
token was added to it (both are in `renewed`). A refresh is `Refresh`, `Renew` (the
device) and `Prolong` (the token).

The modules share rows rather than call each other; each lets the rows it does
not own change freely (KeyPackages and E2eeGate the devices, Messages the
permissions and the answer of the control plane), so that what it shows does not
depend on the others.

## 3. The runs

| Run | Instance | Checks |
|---|---|---|
| `control_queue` | 2 devices of 2 accounts, 2 submissions at a time of 3 possible (id, key) pairs that cross, 3 revisions, a reader with page size 1 | `TypeOK`, `CommitChain`, `NoSkippedReceipt`, `ControlFromMember`, `ImplementsQueue` |
| `control_requests` | 1 submission, 2 approvals or revocations of 2 devices, 2 sends of one key, joins of the account, with fairness | `SendAuthority`, `RequestsEnd`, `ApproverTrusted`, `RevokeForcesRekey` |
| `push_queue` | 2 nodes, 2 jobs (one malformed), 1 device, 1 fault, with fairness | `TypeOK`, `GivenUpExhausted`, `AttemptsBounded`, `Settles` |
| `packages` | 2 devices of an account, 2 publications and 2 claims of 3 refs, of which 3 are open at once, limit 1 | `TypeOK`, `ClaimedOnce`, `InventoryBounded`, `RefsKeepOwner`, `PublishedByTrusted` |
| `gate_requests` | 2 administrators, 2 devices of which 1 complies | `TypeOK`, `EncryptedOnlyGated`, `SteadyBlockerStops` |
| `messages` | 3 requests of any kind, 1 key, 2 texts, 1 change of settings, 1 fault | `TypeOK`, `AnnouncedOnce`, `AcknowledgedKept` |
| `rooms` | 3 users, 2 requests at a time, 4 in all | `TypeOK`, `AdminsAreMembers`, `OwnersOnly` |
| `uploads` | 1 key, 2 users, 1 message, 2 requests, cleaner, auditor, 1 fault | `UploadTypeOK`, `MessageHasObject`, `CompletedWasStored`, `DeleteUnreferenced` |
| `hub` | 2 connections, 2 rooms, 1 fault, with fairness | `HubTypeOK`, `ChannelsFollow`, `ShutdownCloses` |
| `logins` | 2 requests, 2 devices, 2 tokens, 1 QR session, 1 fault | `TypeOK`, `HeldIsIndexed`, `QrYieldsOne` |
| `clients` | 3 accounts with a device each, of which 2 make calls and are members; 1 join, departure or revocation, 5 ids, 1 top-up | `TypeOK`, `OneGroupPerEpoch`, `CanFollow` |
| `doc_revoked_device` | 1 request, 1 device, 1 token | `RevokedIsOut` is violated |

**Bounds.** Every race in the hazards is between two requests, or between one
request and a worker or a change of device or membership; the instances have two
of each kind that races, and three requests in `messages`, where a retry can
follow an edit or a deletion of the first. `MaxSeq` allows a second and a third
message on a queue, `MaxRevision` a join and a leave around a Commit,
`MaxAttempts = 1` reaches the give-up at once and lets a late retry reopen a job,
three refs exceed a limit of one by two publications. In `packages` two devices
publish the same ref at once and claim from each other and themselves; `MaxOpen = 3`
lets two publications run against a claim and two claims against a publication,
which is every race between them: a publication waits only for another one, and
competes with one claim for a package as it does with two. One key is enough for
`uploads`: no statement of the code relates two keys, and the theorems of section 4
hold for any set of them. Four requests of `rooms`
build an administrator, transfer, and still race two requests against it. The
hub with three connections of one room was checked as well (20,000 states) and
shows the same. In `clients` two devices are enough to bootstrap, rekey and
commit against each other, and the third is added, sent a Welcome and removed;
five ids let each of them bootstrap and one of them then rekey or send; the two
accounts that begin as members are exchangeable (`Swap`). Membership revisions, sequence numbers, gate revisions, tokens,
requests and faults are capped in guards only where they start something new, so
that a request under way can always end. Symmetry is used where no `CHOOSE` and
no liveness property depends on the permuted set. Deadlock checking is off where
the system rightly has nothing left to do once the bounds are used up.

**Fairness.** `control_requests`: strong fairness of the steps of every
transaction, because PostgreSQL queues the waiters of a row, and weak fairness
of a rollback for a transaction that is part of a cycle of waiters (the deadlock
detector) or inserts an id that exists (the primary key). `push_queue`: weak
fairness of a node's work on its batch, weak fairness of time passing
`next_run_at`, strong fairness of claiming each job (claims are ordered by
`next_run_at`). `MaxFaults` bounds crashes and failed marks: with infinitely
many of them a job need not settle, nor does the code say so. `hub`: weak
fairness of a task that has a command to send or an answer (or a timeout) to
wait for and of the hub, because tokio schedules both; strong fairness of an
idle task seeing its shutdown, because `tokio::select!` chooses at random among
its ready branches.

### What the runs show

- **The queue of a room is a queue** (`ImplementsQueue`): with retries, roll-backs,
  ids and keys that cross, and members who come and go, every accepted message is
  admitted by the epoch row of the instant it appears in. **Commits form a chain**
  (`CommitChain`) and, although membership is checked before the wait for the
  lock, a control message comes from a member (`ControlFromMember`): the
  revision, compared under the lock, stands for the check.
- **No skipped message** (`NoSkippedReceipt`): the epoch lock covers the drawing
  of the sequence number up to COMMIT; with a later lock TLC finds the skip.
- **Sends** are stored only from a device trusted at that
  moment (`SendAuthority`): a revocation or departure makes the
  epoch row no longer active, which the send finds under the lock.
- **Revocation reaches rooms joined meanwhile** (`RevokeForcesRekey`) because a
  Commit for such a room needs the locked device row for its receipt.
- **Clients agree on the group of an epoch** (`OneGroupPerEpoch`): a device writes
  the group of its own Commits only after the server has taken all of them, and the
  server takes one Commit per epoch, so whoever encrypts is understood by everyone
  whose stored state is of that epoch, however many bootstrap at once and wherever
  their calls stop. **A device can follow** (`CanFollow`): after any crash between
  its three writes the repetition brings state and place in the queue together
  again, except for the devices in `astray`.
- **The two lock orders** deadlock and always resolve (`RequestsEnd`).
- **Push jobs** may be worked on by two nodes, yet attempts stay bounded by
  `MaxAttempts + W(W+3)/2` for `W` nodes, and every job settles.
- **KeyPackages** are handed out once; concurrent publications exceed the limit
  by at most the batches of the others.
- **A sealed message** is stored, announced and pushed at most once per key
  whatever fails and whoever edits or deletes it meanwhile, and an answer of
  success is kept, although the modes may be switched between any two awaits
  (`AnnouncedOnce`, `AcknowledgedKept`). The price is in the other direction: a
  crash after the commit leaves a message nobody is told of.
- **A group**: a removal and an appointment of the same member cannot leave an
  outsider among the administrators (`AdminsAreMembers`), because both change the
  member's row first and the second to come finds no live row; roles and
  ownership are changed together or not at all (`OwnersOnly`).
  Two owners' roles at once, an administrator who accepts an old invitation and
  is a member again, and members of a dissolved room are reachable and not
  excluded by any property.
- **The cleaner** counts the references again under the row lock, and a message
  takes the same row FOR SHARE: an object is deleted only when nothing refers to
  it at that instant (`DeleteUnreferenced`), and a live message has its object but
  for the two torn cases (`MessageHasObject`).
- **The hub** looks at the maps when it takes a command, not when the command was
  sent: joins and leaves may reach it in any order and the channel still follows
  the listeners (`ChannelsFollow`).
- **Tokens** are given to the client after they are indexed, so a revocation
  finds those that are held, as long as the index lives (`HeldIsIndexed`); a QR
  session confirmed by two phones, cancelled and polled at once gives out one
  code (`QrYieldsOne`).

### Disagreements with the documentation

`doc_revoked_device` ends in a counterexample to `docs/reference/api/auth-devices.md`
lines 3-4, which says that a revoked device's refresh token is void at once: the
index a revocation reads expires thirty days after the last login, a token
thirty days after its last use, so a device that has only been refreshing for a
month keeps its token; its next refresh even makes the device live again.

Others were seen while modelling, are behaviours of the modules, and have no run
of their own:

- a revoked device's control message is accepted when the revocation commits
  while the submission waits for the epoch row (`docs/reference/api/e2ee.md:36-37`,
  `e2ee_control_store.rs:81`);
- a push job all of whose sends failed is marked done and not retried
  (`docs/reference/architecture/push-notification-design.md:74`, `push.rs:2152`);
- an activation that has read the gate in `prepare` overwrites a rollback and
  opens the gate from `plaintext` (`e2ee.md:224`, `e2ee_runtime_gate.rs:85`);
- an edit writes its text in clear into the row of a sealed message
  (`handlers/message.rs:2192`), and leaves the old text in the message's parts;
- a device approved during a Commit gets no receipt for it; two publications
  exceed the limit of 500 together; a claim commits for a consumer revoked
  meanwhile; a slow preparation writes an older readiness revision; a refused
  token switches off a device that has a new token; an upgraded client that
  registers again keeps its old `client_version` (`e2ee_mls_store.rs:160`);
- two polls of a confirmed QR session can both be handed its one code
  (`qr_login_store.rs:95`); a phone that loses the race to confirm leaves a device
  and a token behind;
- a rekey whose own Commit the server took, but whose next control or answer
  failed, is taken for overtaken: the client restores the state before it and drops
  the operation (`direct-message-coordinator.ts:515-523`, whose comment at 516-517
  speaks of another device's Commit only); the server sends no Commit back to its
  sender, so this device cannot follow any more;
- a bootstrap made for a membership revision that has passed, or a rekey that
  failed before the room reached its epoch, is submitted again by every later call
  and refused each time, while `docs/reference/api/e2ee.md:268` has the client start
  over from the present members;
- a rekey is prepared before the queue is read (`reconcileGroup` comes first in
  `syncControls`), so a device whose state is behind submits it, is refused, gives it
  up and prepares it again as long as the room waits for a rekey and its epoch is
  ahead;
- an application message prepared for an epoch that has passed is refused for good
  and keeps the device from synchronising until it is sent; a KeyPackage top-up may
  overwrite a state written meanwhile; `bootstrapRoom` does not add the sender's own
  other devices; the first Commit of a rekey makes the room active although the
  controls for the other changes are still to come;
- a counter of the rate limit whose EXPIRE was lost never expires
  (`handlers/message.rs:1024`).

## 4. The proofs

All theorems hold for every value of the constants that satisfies the named
assumptions of the module (`Owner` is a function into the accounts, limits are
naturals, `None` is not a device, ...). Accounts, the nodes that run push workers
and the publications in progress are finite sets, because the code sums and counts
over them and there are only ever finitely many; nothing is assumed of how many.
`RowAssumption` of `Messages` says that the NULL of a column is not a message,
`CommandAssumption` of `Hub` that no command of the hub's channel is the absence of one.
Two modules of proofs are each about two components that share no state; so that one
module can extend both, `Uploads` and `Hub` name their initial state, next-state
relation, specification and type invariant after themselves (`UploadSpec`, `HubTypeOK`).
Each `TypeCorrect` is by cases on the actions. The others rest on these inductive invariants:

- `E2eeControlProofs`: `QueueInv`. The properties of the log say nothing of open
  transactions, so they are not inductive. What carries them is that one
  submission at a time holds a room (`OneHolder`), that what it decided under
  the lock still holds (`HeldDecision`), that a drawn number is above all
  earlier ones of the room (`SeqOrder`), and that a request whose revision is
  still current has a sender who is still a member (`SenderMember`). From it:
  `CommitsFormChain`, `ActiveRoomsCurrent`, `ControlsBoundOnce`,
  `ControlsFromMembers`. Steps that do not touch the queue are dealt with once,
  in `QuietStep`. `QueueImplemented` is the refinement of `ControlQueue`: the
  commit of a submission is `Commit` or `Welcome`, a membership change is
  `Change`, the end of an approval or revocation `Rekey`, and all else stutters;
  `HeldDecision` supplies the guards of the abstract step. Three more invariants
  build on it:
  - `ReceiptInv`, for `ReceiptsNotSkipped`. A page is asked for with the cursor the
    client had then, and two pages of one device may be open at once, so the
    property is not inductive. `Passed` says it of any position in a room, together
    with what keeps it: the position is below the numbers drawn by the submissions
    that have not committed, because whoever holds the epoch row draws the next one.
    `PageComplete` says that a page cut at its limit has everything that was due
    up to its last message, `PageMovesCursor` that the cursor may go there.
  - `DeviceInv` and `RevokeInv`, for `ApproversTrusted` and `RevocationsForceRekey`.
    What an approval or revocation has seen of the devices stays true because two
    of them never lock one device (`LocksApart`). A room the revocation has not
    listed is one the account joined since (`Missed`): the join left it without a
    current Commit, and a Commit inserted later has the device among its receivers
    (`Served`) and waits for its row.
  - `SendInv`, for `SendsAuthorised`. Membership and device status were read without
    a lock; `Standing` says what their loss leaves behind in the epoch row the send
    is decided by: a newer revision, a newer epoch or a room that is not active. That
    a revocation leaves one of these is `RevokedLeavesNone`, the same fact as above.
- `PushQueueProofs`: `GiveUpInv`, with `ClaimedBehind`: the attempts a node has
  read never exceed those of the row, and a node that is about to fail a job has
  read enough of them. From it: `JobsGivenUpExhausted`. For `AttemptsStayBounded` a
  job that has used up its attempts has a potential: of the nodes that work on it, those
  that claimed it earlier (`Racing`) may still reopen it, the others (`Giving`) can only
  give up, and while it is open an idle node may join them. `Spent` says that twice
  the attempts and the potential together stay within the bound; every count uses up
  as much of the potential as it adds.
- `PackagesFilesProofs`, for `KeyPackages`: `PackageInv`, with: an open publication holds a trusted
  device (`PublisherTrusted`), a ref is in doubt in one transaction only
  (`InsertedOnce`), a package is locked by one claim and not consumed
  (`LockedOnce`), a package that a claim has seen is published (`SeenPublished`).
  From it: `PackagesClaimedOnce`, `RefsKeepTheirOwner`,
  `PackagesOfTrustedDevices`. `InventoryStaysBounded` counts what is available with
  what the publications that have counted still promise (`Stock`); a
  publication counts its own batch with all that is committed and keeps within the
  limit, and each of the others promises one batch at most; what it took for
  expired never becomes available again (`Spent`); a commit moves packages
  from what is promised to what is available. `UnionBound` is the lemma on the
  size of a union, got without induction from a map of a product onto it.
  For `Uploads`: `UploadInv`. The properties speak of messages, commits and objects,
  and say nothing of the processes that are about to change them. What carries them
  is that a row is locked for deletion by one process only, and by none while a
  message shares it (`RowsApart`); that a row under that lock is there and nothing
  refers to its key (`Unused`), because every statement that could make a reference
  waits for the lock; that a process which marks an upload knows it was stored
  (`Sure`, `StoredKnown`); that an object that is gone is one whose row says so, or
  soon will, or is in `torn` (`Accounted`); and therefore that a message between
  `insert_message_parts` and its commit has its object (`Backed`). Nearly all steps
  take no new lock: they meet `Careful`, and `Kept` deals with them once; `LockTaken`
  is for the two that do. From it: `UploadTypeCorrect`, `MessagesHaveObjects`,
  `CompletedObjectsWereStored`, the action property `OnlyUnreferencedDeleted`, and two
  facts no run checks by themselves: `CommitsHaveObjects` (a valid commit whose row
  is not deleted has its object, but for `torn`) and `UploadRowsLockedOnce`.
  `UploadInv` was checked on the instance of `uploads` before it was proved.
- `RoomsProofs`: `Inv`. An administrator is appointed, and a member removed, after
  a look at the members; what carries the look to the write is that row locks are
  exclusive (`LocksExclusive`) and that a request about to write holds the rows it
  looked at (`RowsHeld`). From it: `AdminsRemainMembers`, `RowsLockedOnce`.
  `OwnersOnly` is inductive together with the shapes (`OwnersHaveOwned`).
- `MessagesProofs`: `Inv`. `Path` says how far a request can be with what it has
  stored, published and pushed; `KeysUnique` that a key has one row; `Kept` that what
  a request stored is still its text; `Acknowledged` that an answer of success rests
  on a row or a publication. From it: `StoredAndAnnouncedOnce`, `SuccessIsKept`. All
  requests but the one that moves are dealt with once, in `OthersKept`.
- `GateHubProofs`, for `E2eeGate`: `EncryptedOnlyGated` is inductive; `SteadyReasonsStop` needs
  `LastingNow` (a lasting reason blocks now) and `LastingFound` (the request has
  found it once it has passed the statement that looks for it).
  For `Hub`: `HubInv`. `ChannelsFollow` speaks of rooms nobody is about to look at,
  so it says nothing of what goes on. `Follows` does: of a room whose last
  synchronisation did not fail, either somebody will make the hub look again after
  what it does now (`LooksAgain`), or the hub is at work on it and goes in the
  direction the subscribers ask for (`Heading`), or the channel is in step with
  them (`InStep`). For that, a command and the task that waits for it must know each
  other (`Questions`: a command still on somebody's account has a task that waits for
  that room, and a task has one command), a task is busy exactly while it has rooms
  to ask about (`Shape`), and the two maps agree (`MapsAgree`). A timeout takes the
  command off its task's account and leaves it in the queue (`TimeoutStep`): the
  answer that comes later is nobody's. From it: `HubTypeCorrect`,
  `ChannelsFollowListeners`, `MapsStayAgreed`. `HubInv` was checked with 2
  connections and 2 rooms, and with 3 connections and 1 room.
- `E2eeClientsProofs`: `Inv`. `OneGroup` follows at once from the server's log
  having one Commit per epoch and every stored or sent group being one that a
  Commit of the log led to (`OnLog`). To keep the latter, a pending operation must
  know where its controls are: they form a list with ids no other device has
  (`ControlList`, `Distinct`), in which a Welcome follows the Commit for the same
  group (`Placed`); what the server has under such an id is that control (`SameAs`);
  and a call that has got past a control has it on the log (`CallInv`). A step of
  one device that adds nothing to the log is dealt with once, in `AloneKeeps`; the
  lemma that takes the work is `AppendKeeps`. That what `reconcileGroup` and
  `bootstrapRoom` make is such a list, for any number of devices removed and added,
  is `ControlsListed`.
  `EveryoneCanFollow` needs more, `FollowInv`, because `CanFollow` speaks only of
  devices at rest and says nothing of what they come from. Of the queue
  (`QueueInv`): sequence numbers and epochs agree (`OrderInv`); a Commit is made from
  the group of the one before it and does not come back to its sender (`ChainInv`); a
  Welcome is for devices its Commit added (`WelcomeInv`); a device that has not lost
  its way stays in the groups it is in and is sent the Commits that lead to the next
  ones (`LeavesInv`). Of every device (`DeviceInv`): what its pending operation leads
  to is in touch with the queue (`InTouch`: exactly the Commits of others its group
  lacks are due), though the profile still tells of the state before; the own
  Commits beyond that state belong to the operation (`OwnOnly`); and at the places
  between two writes the first has been done (`PlaceInv`). The controls of a
  pending operation are each one step after another, one Commit per epoch
  (`ControlChain`), and keep the devices of those who are still members
  (`ControlsInv`). Two lemmas carry the argument: `Finished`, that once the server has all controls of an operation no
  Commit of another lies between its first and its last group, so that the old place in
  the queue is right for the new group; and `DeviceKept`, that a message appended for
  one device leaves what all others know true. Before it was proved, `FollowInv`, all but the
  clause of `ChainInv` on the sender, was checked as an invariant of the instance of
  `clients` (without symmetry: 1.9 million states). A device in `astray` is excepted in the invariant too: what the
  code does not mend is not assumed away.
- `LoginsProofs`: `HeldTokensIndexed` needs what every request knows of the token
  it has drawn and not yet indexed; `OneLoginCode` needs that a session's code is
  set once, and that what a request is about to hand out is that code.

Only model-checked: liveness (`RequestsEnd`, `Settles`, `ShutdownCloses`), which
is out of the prover's reach. Every safety invariant and every other action property
that a passing run checks is stated by a theorem. `RevokedIsOut` is violated (section 3),
so there is nothing to prove.

## 5. Not modelled

- **Cryptography**, the MLS group state inside OpenMLS, approval signatures,
  passwords and SMS codes: a model checker says nothing of them.
- **Conversions**: sizes, formats, the comparison of client versions (the gate
  takes the set of compliant devices as a constant).
- **Delivery** beyond the publication of a message: the fan-out to sockets,
  typing throttles, the providers' protocols.
- **Parts of components marked `partly`**: avatars and other objects in the
  cleanup, the takeover of a push token by another account, administrators'
  tokens and roles, the deactivation of an account, rules and announcements of a
  group. The notes in `PROJECT.json` say what is missing of each.
- **Friends and blocks, read receipts, legacy key bundles, storage
  configuration, content CRUD**: one or two statements per handler. Where another
  module depends on their answer, it allows every answer.
- **Of the E2EE client**: registration and the trust in identities, attachments,
  the encryption of the storage, several tabs that share one IndexedDB, and more
  than one room (a device has one pending operation for all of them). The Android
  and iOS coordinators have the same structure and are not modelled by themselves.
- **Simplifications no property depends on**: a connection authenticates once
  (`Hub`); the page of a hundred controls is the whole queue and the server's look
  at the trust in a sender is part of the step that accepts its control
  (`E2eeClients`; `E2eeControl` has the two steps); `claim_task_by_id` and
  `trigger_task_now` of the upload audit, which nothing calls.
- **Other client code and deployment**: user interfaces and scripts.

## 6. Plan

In order of importance:

1. **E2eeClients**: two rooms that share the pending operation; two tabs.
2. **Accounts and administrators**: deactivation of an account with its tokens,
   devices and rooms; administrators' sessions.
3. **Friends and private rooms**: request, accept, delete, block, and the room
   that comes with a friendship.
4. Avatars in the cleanup, the takeover of push tokens, the default storage
   provider.
