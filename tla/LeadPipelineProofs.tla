------------------------- MODULE LeadPipelineProofs -------------------------
(***************************************************************************)
(* What LeadPipeline guarantees for every number of requests, workers and  *)
(* retries and under every disturbance.                                    *)
(***************************************************************************)
EXTENDS LeadPipeline, FiniteSetTheorems, TLAPS

\* What an action does to the shape of the state (WebStates and TaskStates
\* are the values the program counters take).
LEMMA TypeStep == TypeOK /\ [Next]_vars => TypeOK'
<1> SUFFICES ASSUME TypeOK, [Next]_vars PROVE TypeOK'
  OBVIOUS
<1> USE PipelineAssumption DEF TypeOK, WebStates, InTransaction, TaskStates, Message, Files, FilesOf
<1>1. ASSUME NEW r \in Requests, LookUp(r) PROVE TypeOK'
  BY <1>1 DEF LookUp, dbVars, workerVars, logVars, adminVars
<1>2. ASSUME NEW r \in Requests, UseExisting(r) PROVE TypeOK'
  BY <1>2 DEF UseExisting, dbVars, workerVars, logVars, adminVars
<1>3. ASSUME NEW r \in Requests, SaveLead(r) PROVE TypeOK'
  BY <1>3 DEF SaveLead, dbVars, workerVars, logVars, adminVars
<1>4. ASSUME NEW r \in Requests, Remember(r) PROVE TypeOK'
  BY <1>4 DEF Remember, dbVars, workerVars, logVars, adminVars
<1>5. ASSUME NEW r \in Requests, Commit(r) PROVE TypeOK'
  BY <1>5 DEF Commit, dbVars, workerVars, logVars, adminVars
<1>6. ASSUME NEW r \in Requests, CommitExisting(r) PROVE TypeOK'
  BY <1>6 DEF CommitExisting, dbVars, workerVars, logVars, adminVars
<1>7. ASSUME NEW r \in Requests, RejectExisting(r) \/ Abort(r) \/ FailToPublish(r) PROVE TypeOK'
  BY <1>7 DEF RejectExisting, Abort, FailToPublish, dbVars, workerVars, logVars, adminVars
<1>8. ASSUME NEW r \in Requests, Publish(r) PROVE TypeOK'
  BY <1>8 DEF Publish, dbVars, workerVars, logVars, adminVars
<1>9. ASSUME NEW p \in Prints, Expire(p) PROVE TypeOK'
  BY <1>9 DEF Expire, webVars, dbVars, workerVars, logVars, adminVars
<1>10. ASSUME NEW w \in Workers, NEW m \in queue, Take(w, m) PROVE TypeOK'
  BY <1>10 DEF Take, Becomes, webVars, dbVars, logVars, adminVars
<1>11. ASSUME NEW w \in Workers, Missing(w) \/ WorkerDies(w) PROVE TypeOK'
  BY <1>11 DEF Missing, WorkerDies, Finish, webVars, dbVars, logVars, adminVars
<1>12. ASSUME NEW w \in Workers, Fetch(w) PROVE TypeOK'
  BY <1>12 DEF Fetch, Becomes, webVars, dbVars, logVars, adminVars
<1>13. ASSUME NEW w \in Workers, RecordUnaddressed(w) PROVE TypeOK'
  BY <1>13 DEF RecordUnaddressed, LogFailure, Finish, webVars, dbVars, adminVars
<1>14. ASSUME NEW w \in Workers, Send(w) PROVE TypeOK'
  BY <1>14 DEF Send, Becomes, webVars, dbVars, adminVars
<1>15. ASSUME NEW w \in Workers, RecordSent(w) PROVE TypeOK'
  BY <1>15 DEF RecordSent, LogSuccess, Finish, webVars, dbVars, adminVars
<1>16. ASSUME NEW w \in Workers, RecordFailed(w) PROVE TypeOK'
  BY <1>16 DEF RecordFailed, LogFailure, Becomes, Finish, webVars, dbVars, adminVars
<1>17. ASSUME NEW w \in Workers, Retry(w) PROVE TypeOK'
  BY <1>17 DEF Retry, MayRetry, Finish, webVars, dbVars, logVars, adminVars
<1>18. ASSUME NEW m \in queue, LoseMessage(m) PROVE TypeOK'
  BY <1>18 DEF LoseMessage, webVars, dbVars, workerVars, logVars, adminVars
<1>19. ASSUME NEW l \in Requests, BeginDelete(l) PROVE TypeOK'
  BY <1>19 DEF BeginDelete, AttachmentsOf, webVars, dbVars, workerVars, logVars
<1>20. CASE CommitDelete \/ RollbackDelete
  BY <1>20 DEF CommitDelete, RollbackDelete, webVars, dbVars, workerVars, logVars
<1>21. CASE UNCHANGED vars
  BY <1>21 DEF vars, webVars, dbVars, workerVars, logVars, adminVars
<1> QED
  BY <1>1, <1>2, <1>3, <1>4, <1>5, <1>6, <1>7, <1>8, <1>9, <1>10, <1>11, <1>12, <1>13, <1>14,
     <1>15, <1>16, <1>17, <1>18, <1>19, <1>20, <1>21 DEF Next, WebStep, TaskStep

\* The state keeps its type.
THEOREM TypeCorrect == Spec => []TypeOK
<1>1. Init => TypeOK
  BY PipelineAssumption DEF Init, TypeOK, WebStates, TaskStates
<1>2. QED
  BY <1>1, TypeStep, PTL DEF Spec

-----------------------------------------------------------------------------
\* Steps of a request other than Publish leave the notification machinery
\* alone, and only move a request that has not finished.
LEMMA WebFrame ==
  ASSUME TypeOK, NEW r \in Requests,
         LookUp(r) \/ UseExisting(r) \/ SaveLead(r) \/ Remember(r) \/ Commit(r)
           \/ CommitExisting(r) \/ RejectExisting(r) \/ Abort(r) \/ FailToPublish(r)
  PROVE  /\ pc[r] # "done"
         /\ \A l \in Requests : l # r => pc'[l] = pc[l]
         /\ UNCHANGED <<queue, tpc, task, sent, failed, mails>>
  BY DEF TypeOK, LookUp, UseExisting, SaveLead, Remember, Commit, CommitExisting, RejectExisting,
         Abort, FailToPublish, InTransaction, workerVars, logVars

\* OneNotice is inductive on its own: the notification of a lead moves from
\* the request to the broker to one worker and back, and is never copied.
LEMMA OneNoticeStep == TypeOK /\ OneNotice /\ [Next]_vars => OneNotice'
<1> SUFFICES ASSUME TypeOK, OneNotice, [Next]_vars PROVE OneNotice'
  OBVIOUS
<1> USE DEF TypeOK, OneNotice, Working, Queued, Message
<1>1. ASSUME NEW r \in Requests,
             LookUp(r) \/ UseExisting(r) \/ SaveLead(r) \/ Remember(r) \/ Commit(r)
               \/ CommitExisting(r) \/ RejectExisting(r) \/ Abort(r) \/ FailToPublish(r)
      PROVE OneNotice'
  BY <1>1, WebFrame
<1>2. ASSUME NEW r \in Requests, Publish(r) PROVE OneNotice'
  BY <1>2 DEF Publish, workerVars
<1>3. ASSUME NEW w \in Workers, NEW m \in queue, Take(w, m) PROVE OneNotice'
  BY <1>3 DEF Take, Becomes, webVars
<1>4. ASSUME NEW w \in Workers, Missing(w) \/ WorkerDies(w) \/ RecordUnaddressed(w) \/ RecordSent(w)
      PROVE OneNotice'
  <2>1. Finish(w) /\ UNCHANGED <<pc, queue>>
    BY <1>4 DEF Missing, WorkerDies, RecordUnaddressed, RecordSent, webVars
  <2>2. \A x \in Workers : tpc'[x] # "idle" => tpc[x] # "idle" /\ task'[x] = task[x]
    BY <2>1 DEF Finish
  <2> QED
    BY <2>1, <2>2
<1>5. ASSUME NEW w \in Workers, Fetch(w) \/ Send(w) PROVE OneNotice'
  BY <1>5 DEF Fetch, Send, Becomes, webVars
<1>6. ASSUME NEW w \in Workers, RecordFailed(w) PROVE OneNotice'
  <2>1. tpc[w] = "errored" /\ UNCHANGED <<pc, queue>>
    BY <1>6 DEF RecordFailed, webVars
  <2>2. CASE Live(task[w].lead)
    BY <1>6, <2>1, <2>2 DEF RecordFailed, Becomes
  <2>3. CASE ~Live(task[w].lead)
    BY <1>6, <2>1, <2>3 DEF RecordFailed, Finish
  <2> QED
    BY <2>2, <2>3
<1>7. ASSUME NEW w \in Workers, Retry(w) PROVE OneNotice'
  BY <1>7 DEF Retry, Finish, webVars
<1>8. ASSUME NEW m \in queue, LoseMessage(m) PROVE OneNotice'
  BY <1>8 DEF LoseMessage, webVars, workerVars
<1>9. ASSUME NEW p \in Prints, Expire(p) PROVE OneNotice'
  BY <1>9 DEF Expire, webVars, workerVars
<1>10. ASSUME NEW l \in Requests, BeginDelete(l) PROVE OneNotice'
  BY <1>10 DEF BeginDelete, webVars, workerVars
<1>11. CASE CommitDelete \/ RollbackDelete
  BY <1>11 DEF CommitDelete, RollbackDelete, webVars, workerVars
<1>12. CASE UNCHANGED vars
  BY <1>12 DEF vars, webVars, workerVars
<1> QED
  BY <1>1, <1>2, <1>3, <1>4, <1>5, <1>6, <1>7, <1>8, <1>9, <1>10, <1>11, <1>12
  DEF Next, WebStep, TaskStep

\* The duty to notify about a lead is in one place at a time.
THEOREM OneNoticeHolds == Spec => []OneNotice
<1>1. Init => OneNotice
  BY DEF Init, OneNotice, Working, Queued
<1>2. QED
  BY <1>1, TypeCorrect, OneNoticeStep, PTL DEF Spec

-----------------------------------------------------------------------------
\* A lead's row is in the database from the commit of its request on.
LEMMA CommitStep == TypeOK /\ CommitInv /\ [Next]_vars => CommitInv'
<1> SUFFICES ASSUME TypeOK, CommitInv, [Next]_vars PROVE CommitInv'
  OBVIOUS
<1> USE DEF TypeOK, CommitInv, NoticeAfterCommit, Message
<1>1. ASSUME NEW r \in Requests,
             LookUp(r) \/ UseExisting(r) \/ SaveLead(r) \/ Remember(r) \/ CommitExisting(r)
               \/ RejectExisting(r) \/ Abort(r) \/ FailToPublish(r)
      PROVE CommitInv'
  BY <1>1 DEF LookUp, UseExisting, SaveLead, Remember, CommitExisting, RejectExisting, Abort,
              FailToPublish, InTransaction, dbVars, workerVars, adminVars
<1>2. ASSUME NEW r \in Requests, Commit(r) PROVE CommitInv'
  BY <1>2 DEF Commit, workerVars, adminVars
<1>3. ASSUME NEW r \in Requests, Publish(r) PROVE CommitInv'
  BY <1>3 DEF Publish, dbVars, workerVars, adminVars
<1>4. ASSUME NEW w \in Workers, NEW m \in queue, Take(w, m) PROVE CommitInv'
  BY <1>4 DEF Take, Becomes, webVars, dbVars, adminVars
<1>5. ASSUME NEW w \in Workers, Missing(w) \/ WorkerDies(w) \/ RecordUnaddressed(w) \/ RecordSent(w)
      PROVE CommitInv'
  BY <1>5 DEF Missing, WorkerDies, RecordUnaddressed, RecordSent, Finish, webVars, dbVars, adminVars
<1>6. ASSUME NEW w \in Workers, Fetch(w) \/ Send(w) PROVE CommitInv'
  BY <1>6 DEF Fetch, Send, Becomes, webVars, dbVars, adminVars
<1>7. ASSUME NEW w \in Workers, RecordFailed(w) PROVE CommitInv'
  <2>1. tpc[w] = "errored" /\ UNCHANGED <<pc, queue, lead, adminLead>>
    BY <1>7 DEF RecordFailed, webVars, dbVars, adminVars
  <2>2. CASE Live(task[w].lead)
    BY <1>7, <2>1, <2>2 DEF RecordFailed, Becomes
  <2>3. CASE ~Live(task[w].lead)
    BY <1>7, <2>1, <2>3 DEF RecordFailed, Finish
  <2> QED
    BY <2>2, <2>3
<1>8. ASSUME NEW w \in Workers, Retry(w) PROVE CommitInv'
  BY <1>8 DEF Retry, Finish, webVars, dbVars, adminVars
<1>9. ASSUME NEW m \in queue, LoseMessage(m) PROVE CommitInv'
  BY <1>9 DEF LoseMessage, webVars, dbVars, workerVars, adminVars
<1>10. ASSUME NEW p \in Prints, Expire(p) PROVE CommitInv'
  BY <1>10 DEF Expire, webVars, dbVars, workerVars, adminVars
<1>11. ASSUME NEW l \in Requests, BeginDelete(l) PROVE CommitInv'
  BY <1>11 DEF BeginDelete, Live, webVars, dbVars, workerVars
<1>12. CASE CommitDelete \/ RollbackDelete
  BY <1>12, PipelineAssumption DEF CommitDelete, RollbackDelete, webVars, dbVars, workerVars
<1>13. CASE UNCHANGED vars
  BY <1>13 DEF vars, webVars, dbVars, workerVars, adminVars
<1> QED
  BY <1>1, <1>2, <1>3, <1>4, <1>5, <1>6, <1>7, <1>8, <1>9, <1>10, <1>11, <1>12, <1>13
  DEF Next, WebStep, TaskStep

\* No task is about a lead that is not committed: on_commit does what the
\* comment on it says.
THEOREM NoticeAfterCommitHolds == Spec => []NoticeAfterCommit
<1>1. Init => CommitInv
  BY DEF Init, CommitInv, NoticeAfterCommit
<1>2. CommitInv => NoticeAfterCommit
  BY DEF CommitInv
<1>3. QED
  BY <1>1, <1>2, TypeCorrect, CommitStep, PTL DEF Spec

-----------------------------------------------------------------------------
\* The event log and the letters follow the number of the attempt.
LEMMA LogStep == TypeOK /\ OneNotice /\ LogInv /\ [Next]_vars => LogInv'
<1> SUFFICES ASSUME TypeOK, OneNotice, LogInv, [Next]_vars PROVE LogInv'
  OBVIOUS
<1> USE DEF TypeOK, LogInv, TryCountsFailures, OneNotice, Working, Queued, Message, TaskStates
<1>1. ASSUME NEW r \in Requests,
             LookUp(r) \/ UseExisting(r) \/ SaveLead(r) \/ Remember(r) \/ Commit(r)
               \/ CommitExisting(r) \/ RejectExisting(r) \/ Abort(r) \/ FailToPublish(r)
      PROVE LogInv'
  BY <1>1, WebFrame
<1>2. ASSUME NEW r \in Requests, Publish(r) PROVE LogInv'
  BY <1>2 DEF Publish, workerVars, logVars
<1>3. ASSUME NEW w \in Workers, NEW m \in queue, Take(w, m) PROVE LogInv'
  BY <1>3 DEF Take, Becomes, webVars, logVars
<1>4. ASSUME NEW w \in Workers, Missing(w) \/ WorkerDies(w) PROVE LogInv'
  <2>1. UNCHANGED <<pc, queue, sent, failed, mails>>
    BY <1>4 DEF Missing, WorkerDies, webVars, logVars
  <2>2. tpc' = [tpc EXCEPT ![w] = "idle"] /\ task' = [task EXCEPT ![w] = None]
    BY <1>4 DEF Missing, WorkerDies, Finish
  <2> QED
    BY <2>1, <2>2
<1>5. ASSUME NEW w \in Workers, RecordUnaddressed(w) PROVE LogInv'
  BY <1>5 DEF RecordUnaddressed, LogFailure, Finish, webVars
<1>6. ASSUME NEW w \in Workers, RecordSent(w) PROVE LogInv'
  BY <1>6 DEF RecordSent, LogSuccess, Finish, webVars
<1>7. ASSUME NEW w \in Workers, Fetch(w) PROVE LogInv'
  BY <1>7 DEF Fetch, Becomes, webVars, logVars
<1>8. ASSUME NEW w \in Workers, Send(w) PROVE LogInv'
  BY <1>8 DEF Send, Becomes, webVars
<1>9. ASSUME NEW w \in Workers, RecordFailed(w) PROVE LogInv'
  <2>1. tpc[w] = "errored" /\ UNCHANGED <<pc, queue, sent, mails>>
    BY <1>9 DEF RecordFailed, webVars
  <2>2. CASE Live(task[w].lead)
    <3>1. tpc' = [tpc EXCEPT ![w] = "retrying"] /\ task' = task
      BY <1>9, <2>2 DEF RecordFailed, Becomes
    <3>2. failed' = [failed EXCEPT ![task[w].lead] = @ + 1]
      BY <1>9, <2>1, <2>2 DEF RecordFailed, LogFailure
    <3> QED
      BY <2>1, <3>1, <3>2
  <2>3. CASE ~Live(task[w].lead)
    <3>1. tpc' = [tpc EXCEPT ![w] = "idle"] /\ task' = [task EXCEPT ![w] = None]
      BY <1>9, <2>3 DEF RecordFailed, Finish
    <3>2. failed' = failed
      BY <1>9, <2>1, <2>3 DEF RecordFailed, LogFailure
    <3> QED
      BY <2>1, <3>1, <3>2
  <2> QED
    BY <2>2, <2>3
<1>10. ASSUME NEW w \in Workers, Retry(w) PROVE LogInv'
  BY <1>10 DEF Retry, MayRetry, Finish, webVars, logVars
<1>11. ASSUME NEW m \in queue, LoseMessage(m) PROVE LogInv'
  BY <1>11 DEF LoseMessage, webVars, workerVars, logVars
<1>12. ASSUME NEW p \in Prints, Expire(p) PROVE LogInv'
  BY <1>12 DEF Expire, webVars, workerVars, logVars
<1>13. ASSUME NEW l \in Requests, BeginDelete(l) PROVE LogInv'
  BY <1>13 DEF BeginDelete, webVars, workerVars, logVars
<1>14. CASE CommitDelete \/ RollbackDelete
  BY <1>14 DEF CommitDelete, RollbackDelete, webVars, workerVars, logVars
<1>15. CASE UNCHANGED vars
  BY <1>15 DEF vars, webVars, workerVars, logVars
<1> QED
  BY <1>1, <1>2, <1>3, <1>4, <1>5, <1>6, <1>7, <1>8, <1>9, <1>10, <1>11, <1>12, <1>13, <1>14, <1>15
  DEF Next, WebStep, TaskStep

LEMMA LogHolds == Spec => []LogInv
<1>1. Init => LogInv
  BY DEF Init, LogInv, TryCountsFailures
<1>2. QED
  BY <1>1, TypeCorrect, OneNoticeHolds, LogStep, PTL DEF Spec

\* An attempt with number k has exactly k EMAIL_FAILED events behind it.
THEOREM TryCountsFailuresHolds == Spec => []TryCountsFailures
<1>1. LogInv => TryCountsFailures
  BY DEF LogInv
<1>2. QED
  BY <1>1, LogHolds, PTL

-----------------------------------------------------------------------------
\* Who owes the notification of a lead after each kind of step.  Only the
\* commit of its request creates the duty; a worker that finishes ends it.
LEMMA CommitOwes ==
  ASSUME TypeOK, NEW r \in Requests, Commit(r)
  PROVE  /\ Owed(r)'
         /\ \A l \in Requests : l # r => (Owed(l)' <=> Owed(l))
  BY DEF TypeOK, Commit, Owed, Queued, Working, workerVars

LEMMA PublishOwes ==
  ASSUME TypeOK, NEW r \in Requests, Publish(r)
  PROVE  \A l \in Requests : Owed(l)' <=> Owed(l)
<1> USE DEF TypeOK, Owed, Queued, Working
<1>1. Owed(r)
  BY DEF Publish
<1>2. [lead |-> r, to |-> to[r], try |-> 0] \in queue'
  BY DEF Publish
<1>3. Owed(r)'
  BY <1>2
<1>4. ASSUME NEW l \in Requests, l # r PROVE Owed(l)' <=> Owed(l)
  BY <1>4 DEF Publish, workerVars
<1> QED
  BY <1>1, <1>3, <1>4

LEMMA UnpublishedOwes ==
  ASSUME TypeOK, OneNotice, NEW r \in Requests, FailToPublish(r)
  PROVE  /\ Owed(r)
         /\ ~Owed(r)'
         /\ \A l \in Requests : l # r => (Owed(l)' <=> Owed(l))
  BY DEF TypeOK, OneNotice, FailToPublish, Owed, Queued, Working, workerVars

LEMMA TakeOwes ==
  ASSUME TypeOK, NEW w \in Workers, NEW m \in queue, Take(w, m)
  PROVE  \A l \in Requests : Owed(l)' <=> Owed(l)
<1> USE DEF TypeOK, Owed, Queued, Working, Message
<1>1. /\ tpc[w] = "idle" /\ queue' = queue \ {m} /\ UNCHANGED pc
      /\ task' = [task EXCEPT ![w] = m] /\ tpc' = [tpc EXCEPT ![w] = "taken"]
  BY DEF Take, Becomes, webVars
<1>2. Working(w, m.lead)' /\ Queued(m.lead)
  BY <1>1
<1>3. ASSUME NEW l \in Requests, l # m.lead PROVE Owed(l)' <=> Owed(l)
  BY <1>1, <1>3
<1> QED
  BY <1>2, <1>3

LEMMA FinishOwes ==
  ASSUME TypeOK, OneNotice, NEW w \in Workers, NEW l \in Requests,
         tpc[w] # "idle", task[w].lead = l, Finish(w), UNCHANGED <<pc, queue>>
  PROVE  /\ Owed(l)
         /\ ~Owed(l)'
         /\ \A k \in Requests : k # l => (Owed(k)' <=> Owed(k))
<1> USE DEF TypeOK, Message
<1>1. tpc' = [tpc EXCEPT ![w] = "idle"] /\ task' = [task EXCEPT ![w] = None]
  BY DEF Finish
<1>2. Working(w, l)
  BY DEF Working
<1>3. Owed(l)
  BY <1>2 DEF Owed
<1>4. ~Owed(l)'
  <2>1. pc[l] = "done" /\ ~Queued(l)
    BY <1>2 DEF OneNotice
  <2>2. \A v \in Workers : v # w => ~Working(v, l)
    BY <1>2 DEF OneNotice
  <2> QED
    BY <1>1, <2>1, <2>2 DEF Owed, Queued, Working
<1>5. ASSUME NEW k \in Requests, k # l PROVE Owed(k)' <=> Owed(k)
  BY <1>1, <1>5 DEF Owed, Queued, Working
<1> QED
  BY <1>3, <1>4, <1>5

LEMMA MoveOwes ==
  ASSUME TypeOK, NEW w \in Workers, NEW state \in TaskStates \ {"idle"}, tpc[w] # "idle",
         Becomes(w, state), UNCHANGED <<pc, queue, task>>
  PROVE  \A l \in Requests : Owed(l)' <=> Owed(l)
  BY DEF TypeOK, Becomes, Owed, Queued, Working

LEMMA LossOwes ==
  ASSUME TypeOK, OneNotice, NEW m \in queue, LoseMessage(m)
  PROVE  /\ Owed(m.lead)
         /\ ~Owed(m.lead)'
         /\ \A l \in Requests : l # m.lead => (Owed(l)' <=> Owed(l))
  BY DEF TypeOK, OneNotice, LoseMessage, Owed, Queued, Working, Message, webVars, workerVars

LEMMA RetryOwes ==
  ASSUME TypeOK, OneNotice, NEW w \in Workers, NEW l \in Requests, task[w].lead = l, Retry(w)
  PROVE  /\ Owed(l)
         /\ ~MayRetry(task[w]) => ~Owed(l)'
         /\ MayRetry(task[w]) => Owed(l)'
         /\ \A k \in Requests : k # l => (Owed(k)' <=> Owed(k))
<1> USE DEF TypeOK, Message
<1>1. CASE ~MayRetry(task[w])
  <2>1. tpc[w] # "idle" /\ Finish(w) /\ UNCHANGED <<pc, queue>>
    BY <1>1 DEF Retry, webVars
  <2> QED
    BY <1>1, <2>1, FinishOwes
<1>2. CASE MayRetry(task[w])
  <2>1. PICK m \in queue' : m.lead = l /\ queue' = queue \union {m}
    BY <1>2 DEF Retry
  <2>2. /\ tpc[w] # "idle" /\ UNCHANGED pc
        /\ tpc' = [tpc EXCEPT ![w] = "idle"] /\ task' = [task EXCEPT ![w] = None]
    BY <1>2 DEF Retry, Finish, webVars
  <2>3. Owed(l) /\ Owed(l)'
    BY <2>1, <2>2 DEF Owed, Queued, Working
  <2>4. ASSUME NEW k \in Requests, k # l PROVE Owed(k)' <=> Owed(k)
    BY <2>1, <2>2, <2>4 DEF Owed, Queued, Working
  <2> QED
    BY <1>2, <2>3, <2>4
<1> QED
  BY <1>1, <1>2

\* Requests that are not at their commit, and the administrator, owe nothing.
LEMMA QuietOwes ==
  ASSUME TypeOK, UNCHANGED <<queue, tpc, task>>,
         \A l \in Requests : pc[l] = "committed" <=> pc'[l] = "committed"
  PROVE  \A l \in Requests : Owed(l)' <=> Owed(l)
  BY DEF Owed, Queued, Working

-----------------------------------------------------------------------------
\* The actions that neither create nor move nor end a notification.
LEMMA QuietStep ==
  ASSUME TypeOK, CommitInv,
         \/ \E r \in Requests : LookUp(r) \/ UseExisting(r) \/ SaveLead(r) \/ Remember(r)
              \/ CommitExisting(r) \/ RejectExisting(r) \/ Abort(r) \/ BeginDelete(r)
         \/ \E p \in Prints : Expire(p)
         \/ CommitDelete
         \/ RollbackDelete
         \/ UNCHANGED vars
  PROVE  /\ \A l \in Requests : Owed(l)' <=> Owed(l)
         /\ \A l \in Requests : lead'[l] = "none" <=> lead[l] = "none"
         /\ UNCHANGED sent
<1> USE DEF TypeOK
<1>1. ASSUME NEW r \in Requests,
             LookUp(r) \/ UseExisting(r) \/ SaveLead(r) \/ Remember(r)
               \/ CommitExisting(r) \/ RejectExisting(r) \/ Abort(r)
      PROVE  /\ UNCHANGED <<queue, tpc, task, lead, sent>>
             /\ \A l \in Requests : pc[l] = "committed" <=> pc'[l] = "committed"
  BY <1>1 DEF LookUp, UseExisting, SaveLead, Remember, CommitExisting, RejectExisting, Abort,
              InTransaction, dbVars, workerVars, logVars
<1>2. ASSUME NEW l \in Requests, BeginDelete(l)
      PROVE  UNCHANGED <<queue, tpc, task, lead, sent, pc>>
  BY <1>2 DEF BeginDelete, webVars, dbVars, workerVars, logVars
<1>3. ASSUME NEW p \in Prints, Expire(p) PROVE UNCHANGED <<queue, tpc, task, lead, sent, pc>>
  BY <1>3 DEF Expire, webVars, dbVars, workerVars, logVars
<1>4. CASE CommitDelete \/ RollbackDelete
  <2>1. UNCHANGED <<queue, tpc, task, sent, pc>>
    BY <1>4 DEF CommitDelete, RollbackDelete, webVars, workerVars, logVars
  <2>2. \A l \in Requests : lead'[l] = "none" <=> lead[l] = "none"
    BY <1>4 DEF CommitDelete, RollbackDelete, CommitInv, dbVars
  <2> QED
    BY <2>1, <2>2, QuietOwes
<1>5. CASE UNCHANGED vars
  BY <1>5, QuietOwes DEF vars, webVars, dbVars, workerVars, logVars
<1> QED
  BY <1>1, <1>2, <1>3, <1>4, <1>5, QuietOwes

\* How a step of a worker on lead l looks from outside: the duty stays where
\* it is, or it ends, and EMAIL_SENT is written only as it ends.
LEMMA WorkerStep ==
  ASSUME TypeOK, OneNotice, NEW w \in Workers, NEW l \in Requests, tpc[w] # "idle", task[w].lead = l,
         \/ Missing(w) \/ Fetch(w) \/ RecordUnaddressed(w) \/ Send(w) \/ RecordSent(w)
         \/ RecordFailed(w) \/ Retry(w) \/ WorkerDies(w)
  PROVE  /\ Owed(l)
         /\ \A k \in Requests : k # l => (Owed(k)' <=> Owed(k)) /\ sent'[k] = sent[k]
         /\ UNCHANGED lead
         /\ \/ Owed(l)' /\ sent'[l] = sent[l]
            \/ ~Owed(l)' /\ sent'[l] \in {sent[l], sent[l] + 1}
<1> USE DEF TypeOK
<1>0. Owed(l)
  BY DEF Owed, Working
<1>1. UNCHANGED <<pc, lead>>
  BY DEF Missing, Fetch, RecordUnaddressed, Send, RecordSent, RecordFailed, Retry, WorkerDies, webVars, dbVars
<1>2. CASE Missing(w) \/ RecordUnaddressed(w) \/ WorkerDies(w)
  BY <1>0, <1>1, <1>2, FinishOwes DEF Missing, RecordUnaddressed, WorkerDies, logVars
<1>3. CASE Fetch(w)
  <2>1. PICK state \in TaskStates \ {"idle"} : Becomes(w, state)
    BY <1>3 DEF Fetch, TaskStates
  <2> QED
    BY <1>0, <1>1, <1>3, <2>1, MoveOwes DEF Fetch, logVars
<1>4. CASE Send(w)
  <2>1. PICK state \in TaskStates \ {"idle"} : Becomes(w, state)
    BY <1>4 DEF Send, TaskStates
  <2> QED
    BY <1>0, <1>1, <1>4, <2>1, MoveOwes DEF Send
<1>5. CASE RecordSent(w)
  <2>1. Finish(w) /\ UNCHANGED queue
    BY <1>5 DEF RecordSent
  <2>2. sent' = [sent EXCEPT ![l] = IF Live(l) THEN sent[l] + 1 ELSE sent[l]]
    BY <1>5 DEF RecordSent, LogSuccess
  <2> QED
    BY <1>0, <1>1, <2>1, <2>2, FinishOwes
<1>6. CASE RecordFailed(w)
  <2>1. UNCHANGED <<queue, sent>>
    BY <1>6 DEF RecordFailed
  <2>2. CASE Live(l)
    BY <1>0, <1>1, <1>6, <2>1, <2>2, MoveOwes DEF RecordFailed, TaskStates
  <2>3. CASE ~Live(l)
    BY <1>0, <1>1, <1>6, <2>1, <2>3, FinishOwes DEF RecordFailed
  <2> QED
    BY <2>2, <2>3
<1>7. CASE Retry(w)
  BY <1>0, <1>1, <1>7, RetryOwes DEF Retry, logVars
<1> QED
  BY <1>2, <1>3, <1>4, <1>5, <1>6, <1>7

-----------------------------------------------------------------------------
\* Every step of the pipeline, seen as a step of the promise: a duty appears
\* with the commit of its lead, stays, or ends, at most once with a letter.
LEMMA StepOwes ==
  ASSUME TypeOK, OneNotice, CommitInv, LogInv, [Next]_vars
  PROVE  \/ \E l \in Requests :
              /\ lead[l] = "none" /\ lead'[l] # "none" /\ Owed(l)' /\ UNCHANGED sent
              /\ sent[l] = 0
              /\ \A k \in Requests : k # l => (Owed(k)' <=> Owed(k)) /\ lead'[k] = lead[k]
         \/ \E l \in Requests :
              /\ Owed(l) /\ ~Owed(l)' /\ UNCHANGED lead
              /\ sent'[l] \in {sent[l], sent[l] + 1}
              /\ \A k \in Requests : k # l => (Owed(k)' <=> Owed(k)) /\ sent'[k] = sent[k]
         \/ /\ \A l \in Requests : Owed(l)' <=> Owed(l)
            /\ \A l \in Requests : lead'[l] = "none" <=> lead[l] = "none"
            /\ \A l \in Requests : sent'[l] = sent[l]
<1> USE DEF TypeOK
<1>1. ASSUME NEW r \in Requests, Commit(r)
      PROVE  /\ lead[r] = "none" /\ lead'[r] # "none" /\ Owed(r)' /\ UNCHANGED sent
             /\ sent[r] = 0
             /\ \A k \in Requests : k # r => (Owed(k)' <=> Owed(k)) /\ lead'[k] = lead[k]
  <2>1. lead[r] = "none" /\ lead' = [lead EXCEPT ![r] = "live"] /\ UNCHANGED sent
    BY <1>1 DEF Commit, CommitInv, logVars
  <2>2. sent[r] = 0
    BY <1>1 DEF Commit, LogInv
  <2> QED
    BY <1>1, <2>1, <2>2, CommitOwes
<1>2. ASSUME NEW r \in Requests, Publish(r)
      PROVE  (\A l \in Requests : Owed(l)' <=> Owed(l)) /\ UNCHANGED <<lead, sent>>
  BY <1>2, PublishOwes DEF Publish, dbVars, logVars
<1>3. ASSUME NEW r \in Requests, FailToPublish(r)
      PROVE  /\ Owed(r) /\ ~Owed(r)' /\ UNCHANGED <<lead, sent>>
             /\ \A k \in Requests : k # r => (Owed(k)' <=> Owed(k))
  BY <1>3, UnpublishedOwes DEF FailToPublish, dbVars, logVars
<1>4. ASSUME NEW w \in Workers, NEW m \in queue, Take(w, m)
      PROVE  (\A l \in Requests : Owed(l)' <=> Owed(l)) /\ UNCHANGED <<lead, sent>>
  BY <1>4, TakeOwes DEF Take, dbVars, logVars
<1>5. ASSUME NEW w \in Workers,
             \/ Missing(w) \/ Fetch(w) \/ RecordUnaddressed(w) \/ Send(w) \/ RecordSent(w)
             \/ RecordFailed(w) \/ Retry(w) \/ WorkerDies(w)
      PROVE  \E l \in Requests :
               /\ Owed(l) /\ UNCHANGED lead
               /\ \A k \in Requests : k # l => (Owed(k)' <=> Owed(k)) /\ sent'[k] = sent[k]
               /\ \/ Owed(l)' /\ sent'[l] = sent[l]
                  \/ ~Owed(l)' /\ sent'[l] \in {sent[l], sent[l] + 1}
  <2>1. tpc[w] # "idle"
    BY <1>5 DEF Missing, Fetch, RecordUnaddressed, Send, RecordSent, RecordFailed, Retry, WorkerDies
  <2>2. PICK l \in Requests : task[w].lead = l
    BY <2>1 DEF Message
  <2> QED
    BY <1>5, <2>1, <2>2, WorkerStep
<1>6. ASSUME NEW m \in queue, LoseMessage(m)
      PROVE  /\ m.lead \in Requests /\ Owed(m.lead) /\ ~Owed(m.lead)' /\ UNCHANGED <<lead, sent>>
             /\ \A k \in Requests : k # m.lead => (Owed(k)' <=> Owed(k))
  BY <1>6, LossOwes DEF LoseMessage, Message, dbVars, logVars
<1>7. ASSUME \/ \E r \in Requests : LookUp(r) \/ UseExisting(r) \/ SaveLead(r) \/ Remember(r)
                  \/ CommitExisting(r) \/ RejectExisting(r) \/ Abort(r) \/ BeginDelete(r)
             \/ \E p \in Prints : Expire(p)
             \/ CommitDelete
             \/ RollbackDelete
             \/ UNCHANGED vars
      PROVE  /\ \A l \in Requests : Owed(l)' <=> Owed(l)
             /\ \A l \in Requests : lead'[l] = "none" <=> lead[l] = "none"
             /\ UNCHANGED sent
  BY <1>7, QuietStep
<1>8. CASE \E r \in Requests : Commit(r)
  BY <1>1, <1>8
<1>9. CASE \E r \in Requests : Publish(r)
  BY <1>2, <1>9
<1>10. CASE \E r \in Requests : FailToPublish(r)
  BY <1>3, <1>10
<1>11. CASE \E w \in Workers : \E m \in queue : Take(w, m)
  BY <1>4, <1>11
<1>12. CASE \E w \in Workers :
              \/ Missing(w) \/ Fetch(w) \/ RecordUnaddressed(w) \/ Send(w) \/ RecordSent(w)
              \/ RecordFailed(w) \/ Retry(w) \/ WorkerDies(w)
  <2>1. PICK l \in Requests :
               /\ Owed(l) /\ UNCHANGED lead
               /\ \A k \in Requests : k # l => (Owed(k)' <=> Owed(k)) /\ sent'[k] = sent[k]
               /\ \/ Owed(l)' /\ sent'[l] = sent[l]
                  \/ ~Owed(l)' /\ sent'[l] \in {sent[l], sent[l] + 1}
    BY <1>5, <1>12
  <2> QED
    BY <2>1
<1>13. CASE \E m \in queue : LoseMessage(m)
  <2>1. PICK m \in queue : LoseMessage(m)
    BY <1>13
  <2> DEFINE l == m.lead
  <2>2. /\ l \in Requests /\ Owed(l) /\ ~Owed(l)' /\ UNCHANGED <<lead, sent>>
        /\ \A k \in Requests : k # l => (Owed(k)' <=> Owed(k))
    BY <1>6, <2>1
  <2> QED
    BY <2>2
<1> QED
  BY <1>7, <1>8, <1>9, <1>10, <1>11, <1>12, <1>13 DEF Next, WebStep, TaskStep

LEMMA SentStep ==
  TypeOK /\ OneNotice /\ CommitInv /\ LogInv /\ SentIsFinal /\ [Next]_vars => SentIsFinal'
<1> SUFFICES ASSUME TypeOK, OneNotice, CommitInv, LogInv, SentIsFinal, [Next]_vars
             PROVE  SentIsFinal'
  OBVIOUS
<1> QED
  BY StepOwes DEF SentIsFinal, TypeOK

\* EMAIL_SENT is written at most once for a lead and nothing follows it.
THEOREM SentIsFinalHolds == Spec => []SentIsFinal
<1>1. Init => CommitInv /\ SentIsFinal
  BY DEF Init, CommitInv, NoticeAfterCommit, SentIsFinal
<1>2. QED
  BY <1>1, TypeCorrect, OneNoticeHolds, CommitStep, LogHolds, SentStep, PTL DEF Spec

\* Only Send, RecordSent and the two failures move the three counters.
LEMMA LettersStep ==
  TypeOK /\ LogInv /\ SentIsFinal /\ LettersBounded /\ [Next]_vars => LettersBounded'
<1> SUFFICES ASSUME TypeOK, LogInv, SentIsFinal, LettersBounded, [Next]_vars
             PROVE  LettersBounded'
  OBVIOUS
<1>0. \A n \in Nat : n <= 1 /\ n # 1 => n = 0
  OBVIOUS
<1> USE PipelineAssumption DEF TypeOK, LettersBounded, Message
<1>1. ASSUME NEW w \in Workers, Send(w) PROVE LettersBounded'
  BY <1>1 DEF Send, LogInv
<1>2. ASSUME NEW w \in Workers, RecordSent(w) PROVE LettersBounded'
  <2>1. tpc[w] = "accepted" /\ UNCHANGED <<failed, mails>>
    BY <1>2 DEF RecordSent
  <2>2. mails[task[w].lead] > 0
    BY <2>1 DEF LogInv
  <2>3. sent[task[w].lead] = 0
    <3>1. PICK l \in Requests : task[w].lead = l
      BY <2>1
    <3>2. Owed(l)
      BY <2>1, <3>1 DEF Owed, Working
    <3>3. sent[l] \in Nat /\ sent[l] <= 1 /\ sent[l] # 1
      BY <3>2 DEF SentIsFinal
    <3>4. sent[l] = 0
      BY <1>0, <3>3
    <3> QED
      BY <3>1, <3>4
  <2> QED
    BY <1>2, <2>1, <2>2, <2>3 DEF RecordSent, LogSuccess
<1>3. ASSUME NEW w \in Workers, RecordUnaddressed(w) \/ RecordFailed(w) PROVE LettersBounded'
  <2>1. tpc[w] \in {"unaddressed", "errored"} /\ UNCHANGED <<sent, mails>>
    BY <1>3 DEF RecordUnaddressed, RecordFailed
  <2>2. failed[task[w].lead] = task[w].try
    BY <2>1 DEF LogInv, TryCountsFailures
  <2>3. failed' = [failed EXCEPT ![task[w].lead] = IF Live(task[w].lead) THEN @ + 1 ELSE @]
    BY <1>3 DEF RecordUnaddressed, RecordFailed, LogFailure
  <2> QED
    BY <2>1, <2>2, <2>3
<1>4. CASE UNCHANGED <<sent, failed, mails>>
  BY <1>4
<1>5. ASSUME NEW r \in Requests, WebStep(r) \/ Abort(r) \/ FailToPublish(r) \/ BeginDelete(r)
      PROVE  UNCHANGED <<sent, failed, mails>>
  BY <1>5 DEF WebStep, LookUp, UseExisting, SaveLead, Remember, Commit, CommitExisting,
              RejectExisting, Publish, Abort, FailToPublish, BeginDelete, logVars
<1>6. ASSUME NEW w \in Workers,
             Missing(w) \/ Fetch(w) \/ Retry(w) \/ WorkerDies(w) \/ \E m \in queue : Take(w, m)
      PROVE  UNCHANGED <<sent, failed, mails>>
  BY <1>6 DEF Missing, Fetch, Retry, WorkerDies, Take, logVars
<1>7. CASE \/ \E m \in queue : LoseMessage(m)
           \/ \E p \in Prints : Expire(p)
           \/ CommitDelete
           \/ RollbackDelete
           \/ UNCHANGED vars
  BY <1>4, <1>7 DEF LoseMessage, Expire, CommitDelete, RollbackDelete, vars, logVars
<1> QED
  BY <1>1, <1>2, <1>3, <1>4, <1>5, <1>6, <1>7 DEF Next, TaskStep

\* The staff receive at most one letter per attempt, and EMAIL_SENT stands
\* for a letter the server accepted.
THEOREM LettersBoundedHolds == Spec => []LettersBounded
<1>1. Init => LettersBounded
  BY PipelineAssumption DEF Init, LettersBounded
<1>2. QED
  BY <1>1, TypeCorrect, LogHolds, SentIsFinalHolds, LettersStep, PTL DEF Spec

-----------------------------------------------------------------------------
\* Every step of the pipeline is a step of LeadDelivery or leaves its state.
LEMMA DeliveryStep ==
  ASSUME TypeOK, OneNotice, CommitInv, LogInv, SentIsFinal, [Next]_vars
  PROVE  [Delivery!Next]_(Delivery!delivery)
<1> DEFINE recorded == {l \in Requests : lead[l] # "none"}
           owed     == {l \in Requests : Owed(l)}
           told     == {l \in Requests : sent[l] > 0}
<1>1. CASE \E l \in Requests :
             /\ lead[l] = "none" /\ lead'[l] # "none" /\ Owed(l)' /\ UNCHANGED sent
             /\ \A k \in Requests : k # l => (Owed(k)' <=> Owed(k)) /\ lead'[k] = lead[k]
  <2>1. PICK l \in Requests :
               /\ lead[l] = "none" /\ lead'[l] # "none" /\ Owed(l)' /\ UNCHANGED sent
               /\ \A k \in Requests : k # l => (Owed(k)' <=> Owed(k)) /\ lead'[k] = lead[k]
    BY <1>1
  <2>2. l \notin recorded /\ recorded' = recorded \union {l} /\ owed' = owed \union {l} /\ told' = told
    BY <2>1
  <2> QED
    BY <2>2 DEF Delivery!Next, Delivery!Record
<1>2. CASE \E l \in Requests :
             /\ Owed(l) /\ ~Owed(l)' /\ UNCHANGED lead
             /\ sent'[l] \in {sent[l], sent[l] + 1}
             /\ \A k \in Requests : k # l => (Owed(k)' <=> Owed(k)) /\ sent'[k] = sent[k]
  <2>1. PICK l \in Requests :
               /\ Owed(l) /\ ~Owed(l)' /\ UNCHANGED lead
               /\ sent'[l] \in {sent[l], sent[l] + 1}
               /\ \A k \in Requests : k # l => (Owed(k)' <=> Owed(k)) /\ sent'[k] = sent[k]
    BY <1>2
  <2>2. l \in owed /\ recorded' = recorded /\ owed' = owed \ {l}
    BY <2>1
  <2>3. told' = told \/ told' = told \union {l}
    BY <2>1 DEF TypeOK
  <2> QED
    BY <2>2, <2>3 DEF Delivery!Next, Delivery!Confirm, Delivery!Drop
<1>3. CASE /\ \A l \in Requests : Owed(l)' <=> Owed(l)
           /\ \A l \in Requests : lead'[l] = "none" <=> lead[l] = "none"
           /\ \A l \in Requests : sent'[l] = sent[l]
  <2>1. recorded' = recorded /\ owed' = owed /\ told' = told
    BY <1>3
  <2> QED
    BY <2>1 DEF Delivery!delivery
<1> QED
  BY <1>1, <1>2, <1>3, StepOwes

\* The pipeline keeps the promise of LeadDelivery whatever fails.
THEOREM DeliveryImplemented == Spec => DeliverySpec
<1>1. Init => CommitInv /\ Delivery!Init
  <2>1. Init => CommitInv
    BY DEF Init, CommitInv, NoticeAfterCommit
  <2>2. Init => Delivery!Init
    BY DEF Init, Delivery!Init, Owed, Queued, Working
  <2> QED
    BY <2>1, <2>2
<1>2. QED
  BY <1>1, TypeCorrect, OneNoticeHolds, CommitStep, LogHolds, SentIsFinalHolds, DeliveryStep, PTL
  DEF Spec, DeliverySpec, Delivery!Spec
-----------------------------------------------------------------------------
\* What NoOrphanOfOwnLead rests on: a request's files are rows only from its
\* commit on; nobody is given a lead whose request has not remembered it; the
\* rows a deletion has collected have lost their files for good, or the log names
\* those.
FileInv ==
    /\ \A r \in Requests :
         target[r] = r => pc[r] \in {"saved", "remembered", "committed", "done", "failed"}
    /\ \A p \in Prints :
         cache[p] # None => pc[cache[p]] \in {"remembered", "committed", "done", "failed"}
    /\ \A f \in rows : pc[f[1]] \in {"committed", "done"}
    /\ \A f \in disk : pc[f[1]] \notin {"new", "looked"} /\ f \in FilesOf(f[1])
    /\ \A f \in adminRows : pc[f[1]] \in {"committed", "done"} /\ (f \in disk => f \in refused)
    /\ NoOrphanOfOwnLead

LEMMA FileStep == TypeOK /\ CommitInv /\ FileInv /\ [Next]_vars => FileInv'
<1> SUFFICES ASSUME TypeOK, CommitInv, FileInv, [Next]_vars PROVE FileInv'
  OBVIOUS
<1>0. \A f \in Files : f[1] \in Requests /\ f = <<f[1], f[2]>>
  BY DEF Files
<1> USE PipelineAssumption, <1>0 DEF TypeOK, FileInv, NoOrphanOfOwnLead, FilesOf
<1>1. ASSUME NEW r \in Requests, LookUp(r) PROVE FileInv'
  <2>1. /\ pc[r] = "new" /\ pc' = [pc EXCEPT ![r] = "looked"]
        /\ target' = [target EXCEPT ![r] = cache[print[r]]]
        /\ \A q \in Requests : q # r => upload'[q] = upload[q]
        /\ UNCHANGED <<cache, lead, rows, disk, adminRows, refused>>
    BY <1>1 DEF LookUp, dbVars, adminVars
  <2>2. cache[print[r]] # r
    BY <2>1
  <2> QED
    BY <2>1, <2>2
<1>2. ASSUME NEW r \in Requests, UseExisting(r) PROVE FileInv'
  <2>1. /\ pc[r] = "looked" /\ pc' = [pc EXCEPT ![r] = "existing"]
        /\ disk' = disk \union ({r} \X (1 .. upload[r]))
        /\ UNCHANGED <<target, upload, cache, lead, rows, adminRows, refused>>
    BY <1>2 DEF UseExisting, dbVars, adminVars
  <2>2. target[r] # r
    BY <2>1
  <2> QED
    BY <2>1, <2>2
<1>3. ASSUME NEW r \in Requests, SaveLead(r) PROVE FileInv'
  <2>1. /\ pc[r] = "looked" /\ pc' = [pc EXCEPT ![r] = "saved"]
        /\ disk' = disk \union ({r} \X (1 .. upload[r]))
        /\ target' = [target EXCEPT ![r] = r]
        /\ UNCHANGED <<upload, cache, lead, rows, adminRows, refused>>
    BY <1>3 DEF SaveLead, dbVars, adminVars
  <2>2. lead[r] = "none"
    BY <2>1 DEF CommitInv
  <2> QED
    BY <2>1, <2>2
<1>4. ASSUME NEW r \in Requests, Remember(r) PROVE FileInv'
  BY <1>4 DEF Remember, dbVars, adminVars
<1>5. ASSUME NEW r \in Requests, Commit(r) PROVE FileInv'
  BY <1>5 DEF Commit, adminVars
<1>6. ASSUME NEW r \in Requests, CommitExisting(r) PROVE FileInv'
  BY <1>6 DEF CommitExisting, adminVars
<1>7. ASSUME NEW r \in Requests,
             RejectExisting(r) \/ Abort(r) \/ FailToPublish(r) \/ Publish(r)
      PROVE FileInv'
  BY <1>7 DEF RejectExisting, Abort, FailToPublish, Publish, InTransaction, dbVars, adminVars
<1>8. ASSUME NEW l \in Requests, BeginDelete(l) PROVE FileInv'
  BY <1>8 DEF BeginDelete, AttachmentsOf, webVars, dbVars
<1>9. CASE CommitDelete
  BY <1>9 DEF CommitDelete, CommitInv, webVars
<1>10. CASE RollbackDelete
  BY <1>10 DEF RollbackDelete, webVars, dbVars
<1>11. ASSUME NEW p \in Prints, Expire(p) PROVE FileInv'
  BY <1>11 DEF Expire, webVars, dbVars, adminVars
<1>12. CASE \/ \E w \in Workers : TaskStep(w) \/ WorkerDies(w)
            \/ \E m \in queue : LoseMessage(m)
            \/ UNCHANGED vars
  <2>1. UNCHANGED <<pc, target, upload, cache, lead, rows, disk, adminRows, refused>>
    BY <1>12 DEF TaskStep, Missing, Fetch, RecordUnaddressed, Send, RecordSent, RecordFailed, Retry,
                 Take, WorkerDies, LoseMessage, vars, webVars, dbVars, adminVars
  <2> QED
    BY <2>1
<1> QED
  BY <1>1, <1>2, <1>3, <1>4, <1>5, <1>6, <1>7, <1>8, <1>9, <1>10, <1>11, <1>12 DEF Next, WebStep

\* The files of the submission that made a lead outlive their rows only where
\* the storage refused to remove them and the log names them, whoever deletes
\* the lead and however often the deletion is rolled back.
THEOREM NoOrphanOfOwnLeadHolds == Spec => []NoOrphanOfOwnLead
<1>1. Init => CommitInv /\ FileInv
  BY PipelineAssumption DEF Init, CommitInv, NoticeAfterCommit, FileInv, NoOrphanOfOwnLead
<1>2. FileInv => NoOrphanOfOwnLead
  BY DEF FileInv
<1>3. QED
  BY <1>1, <1>2, TypeCorrect, CommitStep, FileStep, PTL DEF Spec

-----------------------------------------------------------------------------
\* Only a commit makes a lead live.
LEMMA LiveStep ==
  ASSUME TypeOK, [Next]_vars, NEW l \in Requests, Live(l)', ~Commit(l)
  PROVE  Live(l)
<1> USE DEF TypeOK, Live
<1>1. CASE CommitDelete
  BY <1>1 DEF CommitDelete
<1>2. CASE \E r \in Requests : Commit(r)
  BY <1>2 DEF Commit
<1>3. CASE UNCHANGED lead
  BY <1>3
<1> QED
  BY <1>1, <1>2, <1>3
  DEF Next, WebStep, TaskStep, LookUp, UseExisting, SaveLead, Remember, CommitExisting, RejectExisting,
      Publish, Abort, FailToPublish, BeginDelete, Missing, Fetch, RecordUnaddressed, Send, RecordSent,
      RecordFailed, Retry, Take, WorkerDies, LoseMessage, Expire, RollbackDelete, vars, dbVars

\* What the log of a lead says is never taken back.
LEMMA LogGrows ==
  ASSUME TypeOK, [Next]_vars, NEW l \in Requests
  PROVE  sent'[l] + failed'[l] >= sent[l] + failed[l]
<1> USE DEF TypeOK
<1>1. CASE \E w \in Workers : RecordSent(w) \/ RecordFailed(w) \/ RecordUnaddressed(w)
  <2>1. PICK w \in Workers : RecordSent(w) \/ RecordFailed(w) \/ RecordUnaddressed(w)
    BY <1>1
  <2> QED
    BY <2>1 DEF RecordSent, RecordFailed, RecordUnaddressed, LogSuccess, LogFailure
<1>2. CASE UNCHANGED <<sent, failed>>
  BY <1>2
<1> QED
  BY <1>1, <1>2
  DEF Next, WebStep, TaskStep, LookUp, UseExisting, SaveLead, Remember, Commit, CommitExisting,
      RejectExisting, Publish, Abort, FailToPublish, BeginDelete, Missing, Fetch, Send,
      Retry, Take, WorkerDies, LoseMessage, Expire, CommitDelete, RollbackDelete, vars, logVars

\* The step of a worker that ends the notification of a live lead leaves a
\* line in its log.
LEMMA SpokenEnd ==
  ASSUME TypeOK, OneNotice, LogInv, NEW w \in Workers, NEW l \in Requests, tpc[w] # "idle",
         task[w].lead = l, Live(l), ~Owed(l)',
         \/ Missing(w) \/ Fetch(w) \/ RecordUnaddressed(w) \/ Send(w) \/ RecordSent(w)
         \/ RecordFailed(w) \/ Retry(w)
  PROVE  sent'[l] + failed'[l] > 0
<1> USE DEF TypeOK
<1>0. Owed(l)
  BY DEF Owed, Working
<1>1. CASE Missing(w)
  BY <1>1 DEF Missing
<1>2. CASE Fetch(w)
  <2>1. PICK state \in TaskStates \ {"idle"} : Becomes(w, state)
    BY <1>2 DEF Fetch, TaskStates
  <2> QED
    BY <1>0, <1>2, <2>1, MoveOwes DEF Fetch, webVars
<1>3. CASE Send(w)
  <2>1. PICK state \in TaskStates \ {"idle"} : Becomes(w, state)
    BY <1>3 DEF Send, TaskStates
  <2> QED
    BY <1>0, <1>3, <2>1, MoveOwes DEF Send, webVars
<1>4. CASE RecordSent(w)
  BY <1>4 DEF RecordSent, LogSuccess
<1>5. CASE RecordUnaddressed(w) \/ RecordFailed(w)
  BY <1>5 DEF RecordUnaddressed, RecordFailed, LogFailure
<1>6. CASE Retry(w)
  <2>1. ~MayRetry(task[w])
    BY <1>6, RetryOwes
  <2>2. failed[l] = task[w].try + 1 /\ UNCHANGED <<sent, failed>>
    BY <1>6 DEF Retry, LogInv, TryCountsFailures, logVars
  <2>3. task[w].try \in Nat
    BY DEF Message
  <2> QED
    BY <2>2, <2>3
<1> QED
  BY <1>1, <1>2, <1>3, <1>4, <1>5, <1>6

LEMMA NeverSilentStep ==
  ASSUME Disturbances \intersect {"publish", "broker", "worker"} = {},
         TypeOK, OneNotice, CommitInv, LogInv, NeverSilent, [Next]_vars
  PROVE  NeverSilent'
<1> SUFFICES ASSUME NEW l \in Requests, Live(l)', ~Owed(l)' PROVE sent'[l] + failed'[l] > 0
  BY DEF NeverSilent
<1> USE DEF TypeOK
<1>1. ~Commit(l)
  BY CommitOwes
<1>2. Live(l) /\ (Owed(l) \/ sent[l] + failed[l] > 0)
  BY <1>1, LiveStep DEF NeverSilent
<1>3. CASE sent[l] + failed[l] > 0
  BY <1>3, LogGrows, TypeStep
<1>4. CASE Owed(l)
  <2>1. ASSUME NEW w \in Workers,
               \/ Missing(w) \/ Fetch(w) \/ RecordUnaddressed(w) \/ Send(w) \/ RecordSent(w)
               \/ RecordFailed(w) \/ Retry(w)
        PROVE  sent'[l] + failed'[l] > 0
    <3>1. tpc[w] # "idle"
      BY <2>1 DEF Missing, Fetch, RecordUnaddressed, Send, RecordSent, RecordFailed, Retry
    <3>2. PICK k \in Requests : task[w].lead = k
      BY <3>1 DEF Message
    <3>3. k = l
      BY <1>4, <2>1, <3>1, <3>2, WorkerStep
    <3> QED
      BY <1>2, <2>1, <3>1, <3>2, <3>3, SpokenEnd
  <2>2. ASSUME NEW r \in Requests, Commit(r) PROVE FALSE
    BY <1>1, <1>4, <2>2, CommitOwes
  <2>3. ASSUME NEW r \in Requests, Publish(r) PROVE FALSE
    BY <1>4, <2>3, PublishOwes
  <2>4. ASSUME NEW w \in Workers, NEW m \in queue, Take(w, m) PROVE FALSE
    BY <1>4, <2>4, TakeOwes
  <2>5. ASSUME \/ \E r \in Requests : FailToPublish(r)
               \/ \E m \in queue : LoseMessage(m)
               \/ \E w \in Workers : WorkerDies(w)
        PROVE FALSE
    BY <2>5 DEF FailToPublish, LoseMessage, WorkerDies
  <2> QED
    BY <1>4, <2>1, <2>2, <2>3, <2>4, <2>5, QuietStep DEF Next, WebStep, TaskStep
<1> QED
  BY <1>2, <1>3, <1>4

\* While neither the broker nor a process loses its work, a lead in the
\* database is being notified about or its log says how that ended.
THEOREM NeverSilentHolds ==
  ASSUME Disturbances \intersect {"publish", "broker", "worker"} = {}
  PROVE  Spec => []NeverSilent
<1>1. Init => CommitInv /\ NeverSilent
  BY DEF Init, CommitInv, NoticeAfterCommit, NeverSilent, Live
<1>2. TypeOK /\ OneNotice /\ CommitInv /\ LogInv /\ NeverSilent /\ [Next]_vars => NeverSilent'
  BY NeverSilentStep
<1>3. QED
  BY <1>1, <1>2, TypeCorrect, OneNoticeHolds, CommitStep, LogHolds, PTL DEF Spec

-----------------------------------------------------------------------------
\* What OneLeadPerPrint rests on when requests do not overlap: a live lead is
\* the one its fingerprint leads to, and a request that is about to make
\* another has seen that there is none.
DedupeInv ==
    /\ \A r1, r2 \in InFlight : r1 = r2
    /\ \A r \in Requests : Live(r) => cache[print[r]] = r
    /\ \A r \in Requests : pc[r] = "looked" => target[r] = cache[print[r]]
    /\ \A r, l \in Requests :
         pc[r] \in {"saved", "remembered"} /\ Live(l) => print[l] # print[r]
    /\ \A r \in Requests : pc[r] = "remembered" => cache[print[r]] = r

\* With room for one request in flight the next finds nobody there.
LEMMA AloneAtLookUp ==
  ASSUME MaxInFlight <= 1, DedupeInv, NEW r \in Requests, LookUp(r)
  PROVE  InFlight = {}
<1>1. SUFFICES ASSUME NEW q \in InFlight PROVE FALSE
  OBVIOUS
<1>2. InFlight = {q}
  BY DEF DedupeInv
<1>3. Cardinality(InFlight) = 1
  BY <1>2, FS_Singleton
<1> QED
  BY <1>3, PipelineAssumption DEF LookUp

LEMMA DedupeStep ==
  ASSUME MaxInFlight <= 1, "expire" \notin Disturbances, TypeOK, CommitInv, DedupeInv, [Next]_vars
  PROVE  DedupeInv'
<1> USE PipelineAssumption DEF TypeOK, DedupeInv, InFlight, InTransaction, Live
<1>1. ASSUME NEW r \in Requests, LookUp(r) PROVE DedupeInv'
  <2>1. \A q \in Requests : pc[q] \notin InTransaction
    BY <1>1, AloneAtLookUp
  <2>2. /\ pc' = [pc EXCEPT ![r] = "looked"]
        /\ target' = [target EXCEPT ![r] = cache[print[r]]]
        /\ UNCHANGED <<print, cache, lead>>
    BY <1>1 DEF LookUp, dbVars
  <2> QED
    BY <2>1, <2>2
<1>2. ASSUME NEW r \in Requests, UseExisting(r) PROVE DedupeInv'
  BY <1>2 DEF UseExisting, dbVars
<1>3. ASSUME NEW r \in Requests, SaveLead(r) PROVE DedupeInv'
  <2>1. /\ pc[r] = "looked" /\ pc' = [pc EXCEPT ![r] = "saved"]
        /\ \A q \in Requests : q # r => target'[q] = target[q]
        /\ UNCHANGED <<print, cache, lead>>
    BY <1>3 DEF SaveLead, dbVars
  <2>2. \A l \in Requests : Live(l) => print[l] # print[r]
    BY <1>3, <2>1 DEF SaveLead, FoundExisting
  <2> QED
    BY <2>1, <2>2
<1>4. ASSUME NEW r \in Requests, Remember(r) PROVE DedupeInv'
  BY <1>4 DEF Remember, dbVars
<1>5. ASSUME NEW r \in Requests, Commit(r) PROVE DedupeInv'
  BY <1>5 DEF Commit
<1>6. ASSUME NEW r \in Requests,
             CommitExisting(r) \/ RejectExisting(r) \/ Abort(r) \/ FailToPublish(r) \/ Publish(r)
      PROVE DedupeInv'
  BY <1>6 DEF CommitExisting, RejectExisting, Abort, FailToPublish, Publish, dbVars
<1>7. CASE CommitDelete
  BY <1>7 DEF CommitDelete, webVars
<1>8. CASE \/ \E p \in Prints : Expire(p)
           \/ \E l \in Requests : BeginDelete(l)
           \/ \E w \in Workers : TaskStep(w) \/ WorkerDies(w)
           \/ \E m \in queue : LoseMessage(m)
           \/ RollbackDelete
           \/ UNCHANGED vars
  <2>1. UNCHANGED <<pc, print, target, cache, lead>>
    BY <1>8 DEF TaskStep, Missing, Fetch, RecordUnaddressed, Send, RecordSent, RecordFailed, Retry,
                Take, WorkerDies, LoseMessage, Expire, BeginDelete, RollbackDelete, vars, webVars, dbVars
  <2> QED
    BY <2>1
<1> QED
  BY <1>1, <1>2, <1>3, <1>4, <1>5, <1>6, <1>7, <1>8 DEF Next, WebStep

\* Submissions that do not overlap are merged: while the cache keeps its
\* entries there is one live lead per fingerprint.
THEOREM OneLeadPerPrintHolds ==
  ASSUME MaxInFlight <= 1, "expire" \notin Disturbances
  PROVE  Spec => []OneLeadPerPrint
<1>1. Init => CommitInv /\ DedupeInv
  BY DEF Init, CommitInv, NoticeAfterCommit, DedupeInv, InFlight, InTransaction, Live
<1>2. TypeOK /\ CommitInv /\ DedupeInv /\ [Next]_vars => DedupeInv'
  BY DedupeStep
<1>3. DedupeInv => OneLeadPerPrint
  BY DEF DedupeInv, OneLeadPerPrint
<1>4. QED
  BY <1>1, <1>2, <1>3, TypeCorrect, CommitStep, PTL DEF Spec
=============================================================================
