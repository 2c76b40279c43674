---------------------------- MODULE LeadPipeline ----------------------------
(***************************************************************************)
(* The life of a site enquiry (a "lead") on the time scale of minutes:     *)
(*                                                                         *)
(*   - web processes run create_lead inside the request's transaction      *)
(*     (ATOMIC_REQUESTS): look the fingerprint up in the cache, insert the *)
(*     lead or reuse the one found, write the uploaded files, remember the *)
(*     fingerprint, commit, and only then publish the notification task;   *)
(*   - Celery workers take the task from the broker, send the letter and   *)
(*     write what happened into the lead's event log, retrying on failure; *)
(*   - an administrator may delete a lead with its attachments.            *)
(*                                                                         *)
(* Database rows become visible to others only at commit; files on disk    *)
(* and cache entries are visible at once.  A lead is named by the request  *)
(* that inserts it: primary keys come from a sequence and are not reused.  *)
(***************************************************************************)
EXTENDS Naturals, FiniteSets

CONSTANTS Requests,         \* form submissions that pass validation
          Prints,           \* fingerprints of their contents
          RecipientSets,    \* what resolve_recipients may return
          MaxFilesPerLead,  \* MAX_FILES_PER_LEAD
          MaxRetries,       \* max_retries of the Celery task
          Workers,          \* pool processes of the Celery worker
          MaxInFlight,      \* bound: requests processed at the same time
          Disturbances,     \* what the environment may do in this instance
          None

DisturbanceKinds == {"abort", "publish", "broker", "worker", "expire", "delete", "storage"}

ASSUME PipelineAssumption ==
    /\ MaxFilesPerLead \in Nat
    /\ MaxRetries \in Nat
    /\ MaxInFlight \in Nat
    /\ None \notin Requests
    /\ {} \in RecipientSets
    /\ Disturbances \subseteq DisturbanceKinds

VARIABLES pc,        \* where each request stands in create_lead
          print,     \* fingerprint of each request
          upload,    \* how many files it carries
          target,    \* cached lead id, then the lead its files belong to
          to,        \* recipients resolved for the lead it inserted
          cache,     \* leads:dedupe:{digest} -> lead id
          lead,      \* committed state of each lead
          rows,      \* committed LeadAttachment rows
          disk,      \* files in private storage
          queue,     \* notification tasks held by the broker
          tpc,       \* where each worker stands in send_lead_notification
          task,      \* the message it works on
          sent,      \* EMAIL_SENT events ever written, per lead
          failed,    \* EMAIL_FAILED events ever written, per lead
          mails,     \* letters the SMTP server accepted, per lead
          adminLead, \* the lead an administrator is deleting
          adminRows, \* the attachments that deletion has collected
          refused    \* files whose removal failed, as the server log names them

webVars    == <<pc, print, upload, target, to>>
dbVars     == <<lead, rows>>
logVars    == <<sent, failed, mails>>
workerVars == <<tpc, task>>
adminVars  == <<adminLead, adminRows, refused>>
vars == <<webVars, cache, dbVars, disk, queue, workerVars, logVars, adminVars>>

Files == Requests \X (1 .. MaxFilesPerLead)
Message == [lead : Requests, to : RecipientSets, try : 0 .. MaxRetries]

InTransaction == {"looked", "existing", "saved", "remembered"}
WebStates == InTransaction \union {"new", "committed", "done", "failed"}
TaskStates == {"idle", "taken", "fetched", "unaddressed", "accepted", "errored", "retrying"}

Live(l) == lead[l] = "live"
FilesOf(r) == {r} \X (1 .. upload[r])
AttachmentsOf(l) == {f \in rows : target[f[1]] = l}
InFlight == {r \in Requests : pc[r] \in InTransaction}

-----------------------------------------------------------------------------
Init ==
    /\ pc = [r \in Requests |-> "new"]
    /\ print \in [Requests -> Prints]
    /\ upload = [r \in Requests |-> 0]
    /\ target = [r \in Requests |-> None]
    /\ to = [r \in Requests |-> {}]
    /\ cache = [p \in Prints |-> None]
    /\ lead = [r \in Requests |-> "none"]
    /\ rows = {}
    /\ disk = {}
    /\ queue = {}
    /\ tpc = [w \in Workers |-> "idle"]
    /\ task = [w \in Workers |-> None]
    /\ sent = [r \in Requests |-> 0]
    /\ failed = [r \in Requests |-> 0]
    /\ mails = [r \in Requests |-> 0]
    /\ adminLead = None
    /\ adminRows = {}
    /\ refused = {}

(***************************************************************************)
(* create_lead                                                             *)
(***************************************************************************)

\* The form has been validated (at most MaxFilesPerLead files); the request's
\* transaction opens and the fingerprint is looked up in the cache.
LookUp(r) ==
    /\ pc[r] = "new"
    /\ Cardinality(InFlight) < MaxInFlight
    /\ \E n \in 0 .. MaxFilesPerLead : upload' = [upload EXCEPT ![r] = n]
    /\ target' = [target EXCEPT ![r] = cache[print[r]]]
    /\ pc' = [pc EXCEPT ![r] = "looked"]
    /\ UNCHANGED <<print, to, cache, dbVars, disk, queue, workerVars, logVars, adminVars>>

FoundExisting(r) == target[r] # None /\ Live(target[r])

\* A repeat: its files are written to disk for the lead already there and
\* nothing else is created, no event and no letter.
UseExisting(r) ==
    /\ pc[r] = "looked"
    /\ FoundExisting(r)
    /\ disk' = disk \union FilesOf(r)
    /\ pc' = [pc EXCEPT ![r] = "existing"]
    /\ UNCHANGED <<print, upload, target, to, cache, dbVars, queue, workerVars, logVars, adminVars>>

\* A new enquiry: recipients resolved, the lead inserted, its files written.
SaveLead(r) ==
    /\ pc[r] = "looked"
    /\ ~FoundExisting(r)
    /\ \E s \in RecipientSets : to' = [to EXCEPT ![r] = s]
    /\ target' = [target EXCEPT ![r] = r]
    /\ disk' = disk \union FilesOf(r)
    /\ pc' = [pc EXCEPT ![r] = "saved"]
    /\ UNCHANGED <<print, upload, cache, dbVars, queue, workerVars, logVars, adminVars>>

\* Bug: cache.add instead of cache.set, a stale entry is never overwritten.
RememberFirst(r) ==
    /\ pc[r] = "saved"
    /\ cache' = [cache EXCEPT ![print[r]] = IF @ = None THEN r ELSE @]
    /\ pc' = [pc EXCEPT ![r] = "remembered"]
    /\ UNCHANGED <<print, upload, target, to, dbVars, disk, queue, workerVars, logVars, adminVars>>

\* Bug: delay() called in the view instead of in on_commit.
RememberAndPublish(r) ==
    /\ pc[r] = "saved"
    /\ cache' = [cache EXCEPT ![print[r]] = r]
    /\ queue' = queue \union {[lead |-> r, to |-> to[r], try |-> 0]}
    /\ pc' = [pc EXCEPT ![r] = "remembered"]
    /\ UNCHANGED <<print, upload, target, to, dbVars, disk, workerVars, logVars, adminVars>>

\* The fingerprint is remembered before the transaction commits.
Remember(r) ==
    /\ pc[r] = "saved"
    /\ cache' = [cache EXCEPT ![print[r]] = r]
    /\ pc' = [pc EXCEPT ![r] = "remembered"]
    /\ UNCHANGED <<print, upload, target, to, dbVars, disk, queue, workerVars, logVars, adminVars>>

Commit(r) ==
    /\ pc[r] = "remembered"
    /\ lead' = [lead EXCEPT ![r] = "live"]
    /\ rows' = rows \union FilesOf(r)
    /\ pc' = [pc EXCEPT ![r] = "committed"]
    /\ UNCHANGED <<print, upload, target, to, cache, disk, queue, workerVars, logVars, adminVars>>

\* The foreign key of the new attachment rows is checked at commit.
CommitExisting(r) ==
    /\ pc[r] = "existing"
    /\ upload[r] = 0 \/ Live(target[r])
    /\ rows' = rows \union FilesOf(r)
    /\ pc' = [pc EXCEPT ![r] = "done"]
    /\ UNCHANGED <<print, upload, target, to, cache, lead, disk, queue, workerVars, logVars, adminVars>>

\* Deleted meanwhile: the check fails and the transaction is rolled back.
RejectExisting(r) ==
    /\ pc[r] = "existing"
    /\ upload[r] > 0 /\ ~Live(target[r])
    /\ pc' = [pc EXCEPT ![r] = "failed"]
    /\ UNCHANGED <<print, upload, target, to, cache, dbVars, disk, queue, workerVars, logVars, adminVars>>

\* Bug: nothing published when routing has found nobody.
PublishIfAddressed(r) ==
    /\ pc[r] = "committed"
    /\ queue' = IF to[r] = {} THEN queue ELSE queue \union {[lead |-> r, to |-> to[r], try |-> 0]}
    /\ pc' = [pc EXCEPT ![r] = "done"]
    /\ UNCHANGED <<print, upload, target, to, cache, dbVars, disk, workerVars, logVars, adminVars>>

\* transaction.on_commit: the task is published after the commit.
Publish(r) ==
    /\ pc[r] = "committed"
    /\ queue' = queue \union {[lead |-> r, to |-> to[r], try |-> 0]}
    /\ pc' = [pc EXCEPT ![r] = "done"]
    /\ UNCHANGED <<print, upload, target, to, cache, dbVars, disk, workerVars, logVars, adminVars>>

\* An exception or the death of the web process rolls the transaction back;
\* neither the files on disk nor the cache entry belong to it.
Abort(r) ==
    /\ "abort" \in Disturbances
    /\ pc[r] \in InTransaction
    /\ pc' = [pc EXCEPT ![r] = "failed"]
    /\ UNCHANGED <<print, upload, target, to, cache, dbVars, disk, queue, workerVars, logVars, adminVars>>

\* The process dies, or the broker refuses the task, between commit and
\* publication: nobody publishes it later.
FailToPublish(r) ==
    /\ "publish" \in Disturbances
    /\ pc[r] = "committed"
    /\ pc' = [pc EXCEPT ![r] = "done"]
    /\ UNCHANGED <<print, upload, target, to, cache, dbVars, disk, queue, workerVars, logVars, adminVars>>

\* The deduplication window ends, or Redis evicts the key.
Expire(p) ==
    /\ "expire" \in Disturbances
    /\ cache[p] # None
    /\ cache' = [cache EXCEPT ![p] = None]
    /\ UNCHANGED <<webVars, dbVars, disk, queue, workerVars, logVars, adminVars>>

(***************************************************************************)
(* send_lead_notification                                                  *)
(***************************************************************************)

Becomes(w, state) == tpc' = [tpc EXCEPT ![w] = state]

Finish(w) ==
    /\ tpc' = [tpc EXCEPT ![w] = "idle"]
    /\ task' = [task EXCEPT ![w] = None]

\* Bug: acks_late, with the broker's visibility timeout shorter than the task.
TakeUnacknowledged(w, m) ==
    /\ tpc[w] = "idle"
    /\ task' = [task EXCEPT ![w] = m]
    /\ Becomes(w, "taken")
    /\ UNCHANGED <<webVars, cache, dbVars, disk, queue, logVars, adminVars>>

\* Acknowledged on receipt (acks_late is off): from here on only this worker
\* knows of the task.
Take(w, m) ==
    /\ tpc[w] = "idle"
    /\ queue' = queue \ {m}
    /\ task' = [task EXCEPT ![w] = m]
    /\ Becomes(w, "taken")
    /\ UNCHANGED <<webVars, cache, dbVars, disk, logVars, adminVars>>

\* Bug: a lead that is not there is waited for without a limit.
MissingRequeued(w) ==
    /\ tpc[w] = "taken"
    /\ ~Live(task[w].lead)
    /\ queue' = queue \union {task[w]}
    /\ Finish(w)
    /\ UNCHANGED <<webVars, cache, dbVars, disk, logVars, adminVars>>

\* "missing": the lead is not in the database.
Missing(w) ==
    /\ tpc[w] = "taken"
    /\ ~Live(task[w].lead)
    /\ Finish(w)
    /\ UNCHANGED <<webVars, cache, dbVars, disk, queue, logVars, adminVars>>

Fetch(w) ==
    /\ tpc[w] = "taken"
    /\ Live(task[w].lead)
    /\ Becomes(w, IF task[w].to = {} THEN "unaddressed" ELSE "fetched")
    /\ UNCHANGED <<webVars, cache, dbVars, disk, queue, task, logVars, adminVars>>

\* An event is written only while its lead exists; otherwise the insert is
\* refused and the exception ends the task.
LogFailure(l) == failed' = [failed EXCEPT ![l] = IF Live(l) THEN @ + 1 ELSE @]
LogSuccess(l) == sent' = [sent EXCEPT ![l] = IF Live(l) THEN @ + 1 ELSE @]

\* Bug: "no-recipients" returned without an event.
ForgetUnaddressed(w) ==
    /\ tpc[w] = "unaddressed"
    /\ Finish(w)
    /\ UNCHANGED <<webVars, cache, dbVars, disk, queue, logVars, adminVars>>

\* "no-recipients": recorded as a failure, not retried.
RecordUnaddressed(w) ==
    /\ tpc[w] = "unaddressed"
    /\ LogFailure(task[w].lead)
    /\ Finish(w)
    /\ UNCHANGED <<webVars, cache, dbVars, disk, queue, sent, mails, adminVars>>

\* The server may accept the letter and the connection still fail.
Send(w) ==
    /\ tpc[w] = "fetched"
    /\ \E accepted, error \in BOOLEAN :
         /\ accepted \/ error
         /\ mails' = [mails EXCEPT ![task[w].lead] = IF accepted THEN @ + 1 ELSE @]
         /\ Becomes(w, IF error THEN "errored" ELSE "accepted")
    /\ UNCHANGED <<webVars, cache, dbVars, disk, queue, task, sent, failed, adminVars>>

\* Bug: the retry is raised in a finally clause, after success too.
RecordSentAndRetry(w) ==
    /\ tpc[w] = "accepted"
    /\ LogSuccess(task[w].lead)
    /\ Becomes(w, "retrying")
    /\ UNCHANGED <<webVars, cache, dbVars, disk, queue, task, failed, mails, adminVars>>

RecordSent(w) ==
    /\ tpc[w] = "accepted"
    /\ LogSuccess(task[w].lead)
    /\ Finish(w)
    /\ UNCHANGED <<webVars, cache, dbVars, disk, queue, failed, mails, adminVars>>

\* Bug: the retry is raised before the failure is recorded.
RetryUnrecorded(w) ==
    /\ tpc[w] = "errored"
    /\ Becomes(w, "retrying")
    /\ UNCHANGED <<webVars, cache, dbVars, disk, queue, task, logVars, adminVars>>

RecordFailed(w) ==
    /\ tpc[w] = "errored"
    /\ LogFailure(task[w].lead)
    /\ IF Live(task[w].lead)
         THEN Becomes(w, "retrying") /\ UNCHANGED task
         ELSE Finish(w)
    /\ UNCHANGED <<webVars, cache, dbVars, disk, queue, sent, mails, adminVars>>

\* Bug: one attempt too many.
MayRetryOnceMore(m) == m.try <= MaxRetries

MayRetry(m) == m.try < MaxRetries

\* Bug: a fresh task is published instead of retrying this one.
RetryAfresh(w) ==
    /\ tpc[w] = "retrying"
    /\ queue' = queue \union {[task[w] EXCEPT !.try = 0]}
    /\ Finish(w)
    /\ UNCHANGED <<webVars, cache, dbVars, disk, logVars, adminVars>>

Retry(w) ==
    /\ tpc[w] = "retrying"
    /\ queue' = IF MayRetry(task[w])
                  THEN queue \union {[task[w] EXCEPT !.try = @ + 1]}
                  ELSE queue
    /\ Finish(w)
    /\ UNCHANGED <<webVars, cache, dbVars, disk, logVars, adminVars>>

\* The pool process is killed (deployment, memory, hard time limit).
WorkerDies(w) ==
    /\ "worker" \in Disturbances
    /\ tpc[w] # "idle"
    /\ Finish(w)
    /\ UNCHANGED <<webVars, cache, dbVars, disk, queue, logVars, adminVars>>

\* Redis evicts the broker's keys (allkeys-lru) or restarts without them.
LoseMessage(m) ==
    /\ "broker" \in Disturbances
    /\ queue' = queue \ {m}
    /\ UNCHANGED <<webVars, cache, dbVars, disk, workerVars, logVars, adminVars>>

(***************************************************************************)
(* Deleting a lead in the admin                                            *)
(***************************************************************************)

\* Bug: no post_delete signal, the rows go and the files stay.
BeginDeleteRows(l) ==
    /\ "delete" \in Disturbances
    /\ adminLead = None
    /\ Live(l)
    /\ adminLead' = l
    /\ adminRows' = AttachmentsOf(l)
    /\ UNCHANGED <<webVars, cache, dbVars, disk, queue, workerVars, logVars, refused>>

\* Rows are collected and their files removed by the post_delete signal
\* inside the transaction of the deletion.  A file the storage will not give
\* up stays: the signal logs that and lets the deletion go on.
BeginDelete(l) ==
    /\ "delete" \in Disturbances
    /\ adminLead = None
    /\ Live(l)
    /\ adminLead' = l
    /\ adminRows' = AttachmentsOf(l)
    /\ \E kept \in SUBSET (AttachmentsOf(l) \intersect disk) :
         /\ kept = {} \/ "storage" \in Disturbances
         /\ disk' = disk \ (AttachmentsOf(l) \ kept)
         /\ refused' = refused \union kept
    /\ UNCHANGED <<webVars, cache, dbVars, queue, workerVars, logVars>>

\* Attachments committed after the collection would break their foreign key.
CommitDelete ==
    /\ adminLead # None
    /\ AttachmentsOf(adminLead) \subseteq adminRows
    /\ lead' = [lead EXCEPT ![adminLead] = "deleted"]
    /\ rows' = rows \ adminRows
    /\ adminLead' = None
    /\ adminRows' = {}
    /\ UNCHANGED <<webVars, cache, disk, queue, workerVars, logVars, refused>>

RollbackDelete ==
    /\ adminLead # None
    /\ \/ "abort" \in Disturbances
       \/ ~(AttachmentsOf(adminLead) \subseteq adminRows)
    /\ adminLead' = None
    /\ adminRows' = {}
    /\ UNCHANGED <<webVars, cache, dbVars, disk, queue, workerVars, logVars, refused>>

-----------------------------------------------------------------------------
WebStep(r) ==
    \/ LookUp(r) \/ UseExisting(r) \/ SaveLead(r) \/ Remember(r)
    \/ Commit(r) \/ CommitExisting(r) \/ RejectExisting(r) \/ Publish(r)

TaskStep(w) ==
    \/ Missing(w) \/ Fetch(w) \/ RecordUnaddressed(w) \/ Send(w)
    \/ RecordSent(w) \/ RecordFailed(w) \/ Retry(w)
    \/ \E m \in queue : Take(w, m)

Next ==
    \/ \E r \in Requests : WebStep(r) \/ Abort(r) \/ FailToPublish(r) \/ BeginDelete(r)
    \/ \E w \in Workers : TaskStep(w) \/ WorkerDies(w)
    \/ \E m \in queue : LoseMessage(m)
    \/ \E p \in Prints : Expire(p)
    \/ CommitDelete
    \/ RollbackDelete

Spec == Init /\ [][Next]_vars

\* A request that has begun and a worker that is alive go on; a visitor need
\* not submit and an administrator need not delete anything.
Fairness ==
    /\ \A r \in Requests : WF_vars(WebStep(r) /\ pc[r] # "new")
    /\ \A w \in Workers : WF_vars(TaskStep(w))
    /\ WF_vars(CommitDelete \/ RollbackDelete)

FairSpec == Spec /\ Fairness

-----------------------------------------------------------------------------
(***************************************************************************)
(* Properties                                                              *)
(***************************************************************************)

TypeOK ==
    /\ pc \in [Requests -> WebStates]
    /\ print \in [Requests -> Prints]
    /\ upload \in [Requests -> 0 .. MaxFilesPerLead]
    /\ target \in [Requests -> Requests \union {None}]
    /\ to \in [Requests -> RecipientSets]
    /\ cache \in [Prints -> Requests \union {None}]
    /\ lead \in [Requests -> {"none", "live", "deleted"}]
    /\ rows \subseteq Files
    /\ disk \subseteq Files
    /\ queue \subseteq Message
    /\ tpc \in [Workers -> TaskStates]
    /\ task \in [Workers -> Message \union {None}]
    /\ \A w \in Workers : tpc[w] # "idle" => task[w] \in Message
    /\ sent \in [Requests -> Nat]
    /\ failed \in [Requests -> Nat]
    /\ mails \in [Requests -> Nat]
    /\ adminLead \in Requests \union {None}
    /\ adminRows \subseteq Files
    /\ refused \subseteq Files

Working(w, l) == tpc[w] # "idle" /\ task[w].lead = l
Queued(l) == \E m \in queue : m.lead = l

\* The notification of l is still to be carried out by somebody.
Owed(l) == pc[l] = "committed" \/ Queued(l) \/ \E w \in Workers : Working(w, l)

\* on_commit, one message and early acknowledgement together: the duty to
\* notify about a lead is in one place at a time, so no two workers ever
\* write to the same client's enquiry in parallel.
OneNotice ==
    \A l \in Requests :
      /\ \A m1, m2 \in queue : m1.lead = l /\ m2.lead = l => m1 = m2
      /\ \A w1, w2 \in Workers : Working(w1, l) /\ Working(w2, l) => w1 = w2
      /\ \A w \in Workers : ~(Working(w, l) /\ Queued(l))
      /\ pc[l] # "done" => ~Queued(l) /\ \A w \in Workers : ~Working(w, l)

\* A task never reaches a worker before the lead it is about is committed:
\* "missing" is only ever reported about a lead somebody deleted.
NoticeAfterCommit ==
    /\ \A m \in queue : lead[m.lead] # "none"
    /\ \A w \in Workers : tpc[w] # "idle" => lead[task[w].lead] # "none"

\* Once EMAIL_SENT is written nothing about the lead remains to be done, and
\* it is written once.
SentIsFinal == \A l \in Requests : sent[l] <= 1 /\ (sent[l] = 1 => ~Owed(l))

\* The event log and the retry counter agree: an attempt with number k has
\* exactly k EMAIL_FAILED events behind it, whatever died in between.
TryCountsFailures ==
    /\ \A m \in queue : failed[m.lead] = m.try
    /\ \A w \in Workers :
         tpc[w] # "idle" =>
           failed[task[w].lead] = task[w].try + (IF tpc[w] = "retrying" THEN 1 ELSE 0)

\* However often the server fails after accepting a letter, the staff never
\* receive more letters about a lead than the task has attempts, and every
\* EMAIL_SENT stands for a letter that was accepted.
LettersBounded ==
    \A l \in Requests :
      /\ mails[l] <= MaxRetries + 1
      /\ failed[l] <= MaxRetries + 1
      /\ sent[l] <= mails[l]

\* The inductive invariants behind NoticeAfterCommit, TryCountsFailures,
\* SentIsFinal and LettersBounded: where a lead's row is while its request
\* runs, and how far its letters and events are ahead of its task's number.
CommitInv ==
    /\ \A r \in Requests : pc[r] = "committed" => lead[r] # "none"
    /\ \A r \in Requests : pc[r] \notin {"committed", "done"} => lead[r] = "none"
    /\ adminLead # None => lead[adminLead] # "none"
    /\ NoticeAfterCommit

LogInv ==
    /\ \A r \in Requests : pc[r] # "done" => sent[r] = 0 /\ failed[r] = 0 /\ mails[r] = 0
    /\ TryCountsFailures
    /\ \A m \in queue : mails[m.lead] <= m.try
    /\ \A w \in Workers :
         /\ tpc[w] \in {"taken", "fetched", "unaddressed"} => mails[task[w].lead] <= task[w].try
         /\ tpc[w] \in {"accepted", "errored", "retrying"} => mails[task[w].lead] <= task[w].try + 1
         /\ tpc[w] = "accepted" => mails[task[w].lead] > 0

\* A lead in the database is being notified about, or its log says how that
\* ended.  Holds while neither the broker nor a process loses its work.
NeverSilent == \A l \in Requests : Live(l) => Owed(l) \/ sent[l] + failed[l] > 0

\* Submissions that do not overlap are merged: inside the window there is one
\* lead per fingerprint even when some of them are rolled back or deleted.
OneLeadPerPrint ==
    \A r1, r2 \in Requests : Live(r1) /\ Live(r2) /\ print[r1] = print[r2] => r1 = r2

\* Files that came with the submission that made the lead: once it is
\* committed they outlive their rows only where the storage refused to remove
\* them and the log names them, whoever deletes the lead, when, and however
\* often the deletion is rolled back.  (A file a repeat attaches to a lead that
\* is being deleted outlives them unnamed.)
NoOrphanOfOwnLead ==
    \A f \in disk : target[f[1]] = f[1] /\ lead[f[1]] # "none" => f \in rows \union refused

\* Every committed lead comes to an outcome its log shows.
LeadSettles ==
    \A l \in Requests :
      pc[l] = "committed" ~> (sent[l] + failed[l] > 0 \/ lead[l] = "deleted")

\* No retry chain goes on for ever: the broker and the workers come to rest.
NoticeEnds == \A l \in Requests : Owed(l) ~> ~Owed(l)

Delivery == INSTANCE LeadDelivery WITH
    Leads    <- Requests,
    recorded <- {l \in Requests : lead[l] # "none"},
    owed     <- {l \in Requests : Owed(l)},
    told     <- {l \in Requests : sent[l] > 0}

\* The pipeline implements the promise of LeadDelivery.
DeliverySpec == Delivery!Spec
=============================================================================
