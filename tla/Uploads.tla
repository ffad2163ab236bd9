------------------------------- MODULE Uploads -------------------------------
(***************************************************************************)
(* Uploaded files: the rows of file_upload_records beside the objects of   *)
(* the object store, the commits and messages that refer to message        *)
(* attachments, the multipart sessions, the audit queue, and the cleaner   *)
(* that takes back the space of files nobody refers to.                    *)
(*                                                                         *)
(* No transaction spans the database and the object store.  The cleaner    *)
(* keeps the row of a message attachment locked while it deletes the       *)
(* object; a message locks the same row FOR SHARE.  Every other handler    *)
(* works statement by statement, and each statement that writes a row      *)
(* waits for the locks on it.  Time is abstract: a commit may expire, and  *)
(* a row may be old enough for the cleaner, at any moment.                 *)
(***************************************************************************)
EXTENDS Naturals, FiniteSets

CONSTANTS
    Keys,         \* object keys under messages/
    Users,
    Messages,
    None,         \* no user, key or message
    Clients,      \* requests that run at once
    Cleaners,     \* API processes running run_file_upload_cleanup
    Auditors,     \* API processes running run_file_upload_audit_once
    MaxAttempts,  \* FILE_UPLOAD_AUDIT_MAX_ATTEMPTS
    MaxFaults     \* bound: processes that stop in the middle of their work

ASSUME NoneAssumption    == None \notin Users /\ None \notin Keys /\ None \notin Messages
ASSUME ProcsAssumption   == /\ Clients \cap Cleaners = {}
                            /\ Clients \cap Auditors = {}
                            /\ Cleaners \cap Auditors = {}
ASSUME AttemptsAssumption == MaxAttempts \in Nat /\ MaxFaults \in Nat

VARIABLES
    object,    \* the keys the object store has an object for
    stored,    \* history: the keys it ever had one for
    record,    \* file_upload_records.status
    commit,    \* message_attachment_commits
    message,   \* the attachment of a message, and whether it is deleted
    session,   \* file_upload_multipart_sessions.status
    parts,     \* the multipart upload in the object store
    task,      \* file_upload_audit_tasks
    run,       \* what every process is doing
    torn,      \* history: see Torn below
    faults     \* number of processes that stopped so far

uploadVars == <<object, stored, record, commit, message, session, parts, task, run,
          torn, faults>>

Procs == Clients \cup Cleaners \cup Auditors

-----------------------------------------------------------------------------
RecordStatus  == {"none", "pending", "completed", "failed", "deleted"}
CommitStatus  == {"none", "live", "expired", "confirmed"}
MessageStatus == {"none", "live", "deleted"}
SessionStatus == {"none", "open", "completed", "aborted"}
PartsStatus   == {"none", "open", "assembled", "aborted"}
TaskStatus    == {"none", "pending", "approved", "retry", "failed"}

Commit  == [by : Users \cup {None}, status : CommitStatus]
Message == [key : Keys, status : MessageStatus]
Task    == [status : TaskStatus, attempts : Nat]

(* A process: where it is, the key it works on, and the user or message it *)
(* works for.                                                              *)
HandlerPc == {"verified", "create", "prepared", "reuse", "vanished", "attach", "inserted",
              "completing", "assembled", "aborting", "unwanted"}
CleanerPc == {"stale", "old", "head", "unconfirmed", "missing", "begin", "locked",
              "deleting", "gone"}
AuditPc   == {"claimed", "exhausted", "approved", "given_up"}
SharedPc  == {"idle", "complete", "audit"}

Run == [pc : HandlerPc \cup CleanerPc \cup AuditPc \cup SharedPc, key : Keys \cup {None},
        user : Users \cup {None}, message : Messages \cup {None}]

Idle == [pc |-> "idle", key |-> None, user |-> None, message |-> None]

At(p, pc) == run[p].pc = pc
Goto(p, pc) == run' = [run EXCEPT ![p].pc = pc]
Start(p, pc, k) ==
    /\ run[p] = Idle
    /\ run' = [run EXCEPT ![p] = [Idle EXCEPT !.pc = pc, !.key = k]]
Stop(p) == run' = [run EXCEPT ![p] = Idle]
StopUnless(p, condition, pc) == IF condition THEN Goto(p, pc) ELSE Stop(p)

(* Row locks on file_upload_records: FOR UPDATE by the cleaner between     *)
(* begin_unreferenced_deletion and the end of its transaction, FOR SHARE   *)
(* by a message between insert_message_parts and its commit.               *)
Exclusive(k) == \E p \in Procs : run[p].key = k /\ run[p].pc \in {"locked", "deleting", "gone"}
Shared(k)    == \E p \in Procs : run[p].key = k /\ run[p].pc = "inserted"

(* Variant: FOR SHARE is left out of the query. *)
ShareGrantedUnlocked(k) == TRUE

ShareGranted(k)  == ~Exclusive(k)
UpdateGranted(k) == ~Exclusive(k) /\ ~Shared(k)

Present(k) == record[k] \in {"pending", "completed", "failed"}

(* The references begin_unreferenced_deletion counts; for a key under      *)
(* messages/ is_object_key_referenced counts the same.                     *)
Referenced(k) ==
    \/ commit[k].status \in {"live", "confirmed"}
    \/ \E m \in Messages : message[m].key = k /\ message[m].status = "live"

UploadInit ==
    /\ object = {} /\ stored = {} /\ torn = {} /\ faults = 0
    /\ record = [k \in Keys |-> "none"]
    /\ commit = [k \in Keys |-> [by |-> None, status |-> "none"]]
    /\ message \in [Messages -> [key : Keys, status : {"none"}]]
    /\ session = [k \in Keys |-> "none"]
    /\ parts = [k \in Keys |-> "none"]
    /\ task = [k \in Keys |-> [status |-> "none", attempts |-> 0]]
    /\ run = [p \in Procs |-> Idle]

-----------------------------------------------------------------------------
(* Statements on the rows, each on the row of one key *)

SetRecord(k, status) == record' = [record EXCEPT ![k] = status]

(* mark_completed_by_key, mark_failed_by_key: WHERE status <> 3. *)
MarkUnlessDeleted(k, status) ==
    /\ UpdateGranted(k)
    /\ IF Present(k) THEN SetRecord(k, status) ELSE UNCHANGED record

(* create_pending_record: ON CONFLICT it sets status = 0 whatever it was.  *)
(* A row that said deleted says again that there may be an object.         *)
UpsertPending(k) ==
    /\ UpdateGranted(k)
    /\ SetRecord(k, "pending")
    /\ torn' = IF record[k] = "deleted" THEN torn \cup {k} ELSE torn

(* Variant: the task takes over the status of the upload, whose column has *)
(* other meanings for the same numbers.                                    *)
UpsertTaskFromRecord(k) == task' = [task EXCEPT ![k].status = record[k]]

(* upsert_task: the status of an existing task stays. *)
UpsertTask(k) ==
    task' = IF task[k].status = "none" THEN [task EXCEPT ![k].status = "pending"] ELSE task

(* The last statements of several handlers: mark_completed_by_key, then    *)
(* the audit task.                                                         *)
MarkCompleted(p) ==
    /\ At(p, "complete") /\ Goto(p, "audit")
    /\ MarkUnlessDeleted(run[p].key, "completed")
    /\ UNCHANGED <<object, stored, commit, message, session, parts, task, torn, faults>>

EnqueueAudit(p) ==
    /\ At(p, "audit") /\ Stop(p)
    /\ UpsertTask(run[p].key)
    /\ UNCHANGED <<object, stored, record, commit, message, session, parts, torn, faults>>

-----------------------------------------------------------------------------
(* Upload of an attachment *)

(* generate_message_attachment_signature makes a new key; it is recorded   *)
(* when the client knows the hash of the file.                             *)
Sign(k) ==
    /\ record[k] = "none" /\ k \notin stored /\ session[k] = "none"
    /\ SetRecord(k, "pending")
    /\ UNCHANGED <<object, stored, commit, message, session, parts, task, run, torn, faults>>

(* The client puts the object with the signature. *)
Put(k) ==
    /\ k \notin stored /\ session[k] = "none"
    /\ object' = object \cup {k} /\ stored' = stored \cup {k}
    /\ UNCHANGED <<record, commit, message, session, parts, task, run, torn, faults>>

(* find_completed_by_hash offers the key of a file already there; if its   *)
(* object has vanished, the row is marked deleted.                         *)
Reuse(p, k) ==
    /\ record[k] = "completed" /\ task[k].status = "approved"
    /\ Start(p, "reuse", k)
    /\ UNCHANGED <<object, stored, record, commit, message, session, parts, task, torn, faults>>

ReuseCheck(p) ==
    /\ At(p, "reuse")
    /\ StopUnless(p, run[p].key \notin object, "vanished")
    /\ UNCHANGED <<object, stored, record, commit, message, session, parts, task, torn, faults>>

MarkVanished(p) ==
    /\ At(p, "vanished") /\ Stop(p)
    /\ UpdateGranted(run[p].key) /\ SetRecord(run[p].key, "deleted")
    /\ UNCHANGED <<object, stored, commit, message, session, parts, task, torn, faults>>

(* Variant: the object is not looked up before the upload is accepted. *)
UploadTrusted(k) == TRUE

UploadVerified(k) == k \in object

(* commit_message_attachment_upload: head_object, then the row is written  *)
(* (again, if the client sent a hash; otherwise only if there is none).    *)
CommitVerify(p, k, u) ==
    /\ run[p] = Idle /\ UploadVerified(k)
    /\ run' = [run EXCEPT ![p] = [Idle EXCEPT !.pc = "verified", !.key = k, !.user = u]]
    /\ UNCHANGED <<object, stored, record, commit, message, session, parts, task, torn, faults>>

CommitWithoutHash(p) ==
    /\ At(p, "verified")
    /\ Goto(p, IF record[run[p].key] = "none" THEN "create" ELSE "prepared")
    /\ UNCHANGED <<object, stored, record, commit, message, session, parts, task, torn, faults>>

CommitUpsert(p) ==
    /\ run[p].pc \in {"verified", "create"} /\ Goto(p, "prepared")
    /\ UpsertPending(run[p].key)
    /\ UNCHANGED <<object, stored, commit, message, session, parts, task, faults>>

(* record_room_attachment_commit: one transaction over both rows; 403 if   *)
(* the row is deleted or the key was committed by somebody else.           *)
MayCommit(k, u) == Present(k) /\ commit[k].by \in {None, u}

CommitRecord(p) ==
    LET k == run[p].key
        u == run[p].user
    IN  /\ At(p, "prepared") /\ UpdateGranted(k)
        /\ IF MayCommit(k, u)
           THEN /\ Goto(p, "audit")
                /\ SetRecord(k, "completed")
                /\ commit' = [commit EXCEPT ![k] =
                     [by |-> u, status |-> IF @.status = "confirmed" THEN "confirmed" ELSE "live"]]
           ELSE Stop(p) /\ UNCHANGED <<record, commit>>
        /\ UNCHANGED <<object, stored, message, session, parts, task, torn, faults>>

(* expires_at passes. *)
ExpireCommit(k) ==
    /\ commit[k].status = "live"
    /\ commit' = [commit EXCEPT ![k].status = "expired"]
    /\ UNCHANGED <<object, stored, record, message, session, parts, task, run, torn, faults>>

(* claim_room_attachment_access, when a user asks for the download URL:    *)
(* the first access of another user confirms the commit for good.          *)
ClaimAccess(k, u) ==
    /\ UpdateGranted(k) /\ record[k] = "completed"
    /\ commit[k].status = "live" /\ commit[k].by # u
    /\ commit' = [commit EXCEPT ![k].status = "confirmed"]
    /\ UNCHANGED <<object, stored, record, message, session, parts, task, run, torn, faults>>

-----------------------------------------------------------------------------
(* Messages that carry the attachment *)

(* ensure_message_attachment_keys_are_committed, before the transaction. *)
Attach(p, m) ==
    /\ message[m].status = "none"
    /\ ~\E q \in Procs : run[q].pc \in {"attach", "inserted"} /\ run[q].message = m
    /\ record[message[m].key] = "completed"
    /\ run[p] = Idle
    /\ run' = [run EXCEPT ![p] = [Idle EXCEPT !.pc = "attach", !.key = message[m].key,
                                              !.message = m]]
    /\ UNCHANGED <<object, stored, record, commit, message, session, parts, task, torn, faults>>

(* insert_message_parts: SELECT status ... FOR SHARE, and 409 unless it is *)
(* completed.                                                              *)
InsertParts(p) ==
    /\ At(p, "attach") /\ ShareGranted(run[p].key)
    /\ StopUnless(p, record[run[p].key] = "completed", "inserted")
    /\ UNCHANGED <<object, stored, record, commit, message, session, parts, task, torn, faults>>

CommitMessage(p) ==
    /\ At(p, "inserted") /\ Stop(p)
    /\ message' = [message EXCEPT ![run[p].message].status = "live"]
    /\ UNCHANGED <<object, stored, record, commit, session, parts, task, torn, faults>>

(* mark_message_deleted *)
DeleteMessage(m) ==
    /\ message[m].status = "live"
    /\ message' = [message EXCEPT ![m].status = "deleted"]
    /\ UNCHANGED <<object, stored, record, commit, session, parts, task, run, torn, faults>>

-----------------------------------------------------------------------------
(* Multipart uploads: the session row and the upload of the object store   *)

(* initiate_message_attachment_multipart_upload *)
Initiate(k, hashed) ==
    /\ record[k] = "none" /\ k \notin stored /\ session[k] = "none"
    /\ IF hashed THEN SetRecord(k, "pending") ELSE UNCHANGED record
    /\ session' = [session EXCEPT ![k] = "open"]
    /\ parts' = [parts EXCEPT ![k] = "open"]
    /\ UNCHANGED <<object, stored, commit, message, task, run, torn, faults>>

(* complete_multipart_upload, for all the parts of the session. *)
CompleteMultipart(p, k) ==
    /\ session[k] = "open" /\ Start(p, "completing", k)
    /\ UNCHANGED <<object, stored, record, commit, message, session, parts, task, torn, faults>>

(* The object store assembles the parts; an upload it no longer knows is   *)
(* an error and ends the request.                                          *)
Assemble(p) ==
    LET k == run[p].key
    IN  /\ At(p, "completing")
        /\ IF parts[k] = "open"
           THEN /\ parts' = [parts EXCEPT ![k] = "assembled"]
                /\ object' = object \cup {k} /\ stored' = stored \cup {k}
                /\ Goto(p, "assembled")
           ELSE Stop(p) /\ UNCHANGED <<object, stored, parts>>
        /\ UNCHANGED <<record, commit, message, session, task, torn, faults>>

(* mark_completed, mark_aborted: WHERE status = 0; the result is ignored. *)
EndSession(k, status) ==
    session' = IF session[k] = "open" THEN [session EXCEPT ![k] = status] ELSE session

MarkSessionCompleted(p) ==
    /\ At(p, "assembled") /\ Goto(p, "complete")
    /\ EndSession(run[p].key, "completed")
    /\ UNCHANGED <<object, stored, record, commit, message, parts, task, torn, faults>>

(* abort_multipart_upload: an error of the object store is ignored. *)
AbortMultipart(p, k) ==
    /\ session[k] = "open" /\ Start(p, "aborting", k)
    /\ UNCHANGED <<object, stored, record, commit, message, session, parts, task, torn, faults>>

AbortParts(p) ==
    LET k == run[p].key
    IN  /\ At(p, "aborting") /\ Goto(p, "unwanted")
        /\ parts' = IF parts[k] = "open" THEN [parts EXCEPT ![k] = "aborted"] ELSE parts
        /\ UNCHANGED <<object, stored, record, commit, message, session, task, torn, faults>>

MarkSessionAborted(p) ==
    /\ At(p, "unwanted") /\ Stop(p)
    /\ EndSession(run[p].key, "aborted")
    /\ UNCHANGED <<object, stored, record, commit, message, parts, task, torn, faults>>

-----------------------------------------------------------------------------
(* run_file_upload_cleanup, one listed row at a time *)

(* list_stale_pending_records, list_old_completed_records *)
List(c, k) ==
    /\ record[k] \in {"pending", "completed"}
    /\ Start(c, IF record[k] = "pending" THEN "stale" ELSE "old", k)
    /\ UNCHANGED <<object, stored, record, commit, message, session, parts, task, torn, faults>>

(* is_object_key_referenced: a stale row that is in use is put right, an   *)
(* old one is left alone.                                                  *)
CheckReferences(c) ==
    /\ \/ At(c, "stale") /\ Goto(c, IF Referenced(run[c].key) THEN "complete" ELSE "head")
       \/ At(c, "old") /\ StopUnless(c, ~Referenced(run[c].key), "begin")
    /\ UNCHANGED <<object, stored, record, commit, message, session, parts, task, torn, faults>>

HeadStale(c) ==
    /\ At(c, "head")
    /\ Goto(c, IF run[c].key \in object THEN "unconfirmed" ELSE "missing")
    /\ UNCHANGED <<object, stored, record, commit, message, session, parts, task, torn, faults>>

(* mark_failed_by_key; a row past the longer limit is also to be deleted. *)
FailStale(c, old) ==
    /\ run[c].pc \in {"unconfirmed", "missing"}
    /\ StopUnless(c, old /\ At(c, "unconfirmed"), "begin")
    /\ MarkUnlessDeleted(run[c].key, "failed")
    /\ UNCHANGED <<object, stored, commit, message, session, parts, task, torn, faults>>

(* Variant: the references are not counted again under the lock. *)
DeletableOnceChecked(k) == Present(k)

(* begin_unreferenced_deletion: the row is locked FOR UPDATE, and the      *)
(* references are counted again under the lock.                            *)
Deletable(k) == Present(k) /\ ~Referenced(k)

LockForDeletion(c) ==
    /\ At(c, "begin") /\ UpdateGranted(run[c].key)
    /\ StopUnless(c, Deletable(run[c].key), "locked")
    /\ UNCHANGED <<object, stored, record, commit, message, session, parts, task, torn, faults>>

(* delete_locked_object: head_object, *)
HeadLocked(c) ==
    /\ At(c, "locked")
    /\ Goto(c, IF run[c].key \in object THEN "deleting" ELSE "gone")
    /\ UNCHANGED <<object, stored, record, commit, message, session, parts, task, torn, faults>>

(* delete_file, *)
DeleteObject(c) ==
    /\ At(c, "deleting") /\ Goto(c, "gone")
    /\ object' = object \ {run[c].key}
    /\ UNCHANGED <<stored, record, commit, message, session, parts, task, torn, faults>>

(* and commit_deleted_record. *)
CommitDeleted(c) ==
    /\ At(c, "gone") /\ Stop(c)
    /\ SetRecord(run[c].key, "deleted")
    /\ UNCHANGED <<object, stored, commit, message, session, parts, task, torn, faults>>

(* A request of the object store fails: the pass leaves the row, and rolls *)
(* back the transaction that locked it.  A failed delete_file may have     *)
(* deleted the object.                                                     *)
StoreFails(c) ==
    /\ run[c].pc \in {"head", "locked", "deleting"} /\ Stop(c)
    /\ IF At(c, "deleting")
       THEN \/ UNCHANGED <<object, torn>>
            \/ /\ object' = object \ {run[c].key}
               /\ torn' = torn \cup {run[c].key}
       ELSE UNCHANGED <<object, torn>>
    /\ UNCHANGED <<stored, record, commit, message, session, parts, task, faults>>

-----------------------------------------------------------------------------
(* run_file_upload_audit_once, one claimed task at a time *)

(* claim_due_tasks: the lease is next_run_at, which passes at any time.    *)
(* Whether the task has used its attempts is decided by the claimed row.   *)
Exhausted(t) == t.attempts >= MaxAttempts /\ t.status = "retry"

Claim(a, k) ==
    /\ task[k].status \in {"pending", "retry"}
    /\ Start(a, IF Exhausted(task[k]) THEN "exhausted" ELSE "claimed", k)
    /\ UNCHANGED <<object, stored, record, commit, message, session, parts, task, torn, faults>>

(* process_task: give up after the last retry, and fail the upload too. *)
GiveUp(a) ==
    /\ At(a, "exhausted")
    /\ task' = [task EXCEPT ![run[a].key].status = "failed"]
    /\ Goto(a, "given_up")
    /\ UNCHANGED <<object, stored, record, commit, message, session, parts, torn, faults>>

FailUpload(a) ==
    /\ At(a, "given_up") /\ Stop(a)
    /\ MarkUnlessDeleted(run[a].key, "failed")
    /\ UNCHANGED <<object, stored, commit, message, session, parts, task, torn, faults>>

(* head_object finds the object: approved, and the upload is completed. *)
Approve(a) ==
    /\ At(a, "claimed") /\ run[a].key \in object
    /\ task' = [task EXCEPT ![run[a].key].status = "approved"]
    /\ Goto(a, "approved")
    /\ UNCHANGED <<object, stored, record, commit, message, session, parts, torn, faults>>

CompleteUpload(a) ==
    /\ At(a, "approved") /\ Stop(a)
    /\ MarkUnlessDeleted(run[a].key, "completed")
    /\ UNCHANGED <<object, stored, commit, message, session, parts, task, torn, faults>>

(* It does not, or fails, or the provider is inactive: mark_retry, WHERE   *)
(* status <> 4.                                                            *)
Retry(a) ==
    LET k == run[a].key
    IN  /\ At(a, "claimed")
        /\ task' = IF task[k].status = "failed" THEN task
                   ELSE [task EXCEPT ![k] = [status |-> "retry", attempts |-> @.attempts + 1]]
        /\ Stop(a)
        /\ UNCHANGED <<object, stored, record, commit, message, session, parts, torn, faults>>

(* The provider is not S3 compatible: mark_failed. *)
RefuseProvider(a) ==
    /\ At(a, "claimed") /\ Stop(a)
    /\ task' = [task EXCEPT ![run[a].key].status = "failed"]
    /\ UNCHANGED <<object, stored, record, commit, message, session, parts, torn, faults>>

(* requeue_task, by an administrator. *)
Requeue(k) ==
    /\ task[k].status # "none"
    /\ task' = [task EXCEPT ![k] = [status |-> "pending", attempts |-> 0]]
    /\ UNCHANGED <<object, stored, record, commit, message, session, parts, run, torn, faults>>

-----------------------------------------------------------------------------
(* A process stops between two of its steps: its transaction is rolled     *)
(* back, what it did to the object store stays.                            *)
Crash(p) ==
    /\ ~At(p, "idle") /\ faults < MaxFaults
    /\ Stop(p) /\ faults' = faults + 1
    /\ torn' = IF At(p, "gone") THEN torn \cup {run[p].key} ELSE torn
    /\ UNCHANGED <<object, stored, record, commit, message, session, parts, task>>

(* The transaction of a message fails or its client goes away. *)
AbortMessage(p) ==
    /\ At(p, "inserted") /\ Stop(p)
    /\ UNCHANGED <<object, stored, record, commit, message, session, parts, task, torn, faults>>

Handler(p) ==
    \/ \E k \in Keys : Reuse(p, k) \/ CompleteMultipart(p, k) \/ AbortMultipart(p, k)
    \/ \E k \in Keys, u \in Users : CommitVerify(p, k, u)
    \/ \E m \in Messages : Attach(p, m)
    \/ ReuseCheck(p) \/ MarkVanished(p)
    \/ CommitWithoutHash(p) \/ CommitUpsert(p) \/ CommitRecord(p)
    \/ InsertParts(p) \/ CommitMessage(p) \/ AbortMessage(p)
    \/ Assemble(p) \/ MarkSessionCompleted(p) \/ AbortParts(p) \/ MarkSessionAborted(p)
    \/ MarkCompleted(p) \/ EnqueueAudit(p)

Clean(c) ==
    \/ \E k \in Keys : List(c, k)
    \/ \E old \in BOOLEAN : FailStale(c, old)
    \/ CheckReferences(c) \/ HeadStale(c) \/ LockForDeletion(c) \/ HeadLocked(c)
    \/ DeleteObject(c) \/ CommitDeleted(c) \/ StoreFails(c)
    \/ MarkCompleted(c) \/ EnqueueAudit(c)

Audit(a) ==
    \/ \E k \in Keys : Claim(a, k)
    \/ GiveUp(a) \/ FailUpload(a) \/ Approve(a) \/ CompleteUpload(a) \/ Retry(a)
    \/ RefuseProvider(a)

UploadNext ==
    \/ \E p \in Clients : Handler(p)
    \/ \E c \in Cleaners : Clean(c)
    \/ \E a \in Auditors : Audit(a)
    \/ \E p \in Procs : Crash(p)
    \/ \E k \in Keys : Sign(k) \/ Put(k) \/ ExpireCommit(k) \/ Requeue(k)
    \/ \E k \in Keys, hashed \in BOOLEAN : Initiate(k, hashed)
    \/ \E k \in Keys, u \in Users : ClaimAccess(k, u)
    \/ \E m \in Messages : DeleteMessage(m)

UploadSpec == UploadInit /\ [][UploadNext]_uploadVars

-----------------------------------------------------------------------------
(* The variables have the types their columns have, and the history is     *)
(* consistent with the present.                                            *)
UploadTypeOK ==
    /\ object \subseteq stored /\ stored \subseteq Keys /\ torn \subseteq Keys
    /\ record \in [Keys -> RecordStatus]
    /\ commit \in [Keys -> Commit]
    /\ message \in [Messages -> Message]
    /\ session \in [Keys -> SessionStatus]
    /\ parts \in [Keys -> PartsStatus]
    /\ task \in [Keys -> Task]
    /\ run \in [Procs -> Run]
    /\ faults \in 0..MaxFaults

(* The cleaner never deletes the object of an attachment that a live       *)
(* message or a valid commit refers to at that moment, however long ago it *)
(* counted the references.                                                 *)
DeleteUnreferenced ==
    [][\A k \in Keys : k \in object /\ k \notin object' => ~Referenced(k)]_uploadVars

(* A message that is not deleted has its attachment, but for two ways the  *)
(* code has of losing track of an object: the cleaner stops between the    *)
(* deletion of the object and its commit, or a client commits again, with  *)
(* a hash, an upload verified before the deletion (keys in torn).          *)
MessageHasObject ==
    \A m \in Messages : message[m].status = "live" => message[m].key \in object \cup torn

(* Whatever path marks an upload completed, an audit task approved or a    *)
(* multipart session completed, the object store had the object.           *)
CompletedWasStored ==
    \A k \in Keys :
        record[k] = "completed" \/ task[k].status = "approved" \/ session[k] = "completed"
        => k \in stored
=============================================================================
