---------------------------- MODULE LeadRetention ----------------------------
(***************************************************************************)
(* The end of a lead's life, a year after LeadPipeline: the daily task     *)
(* purge_expired_leads erases the personal data of leads whose term is     *)
(* over, while the staff edit and delete leads in the admin.               *)
(*                                                                         *)
(* The task runs outside a transaction: every attachment it deletes, the   *)
(* row it saves and the event it writes become visible one by one, and it  *)
(* may die between any two.  It works from the list of leads selected when it  *)
(* started.  The admin reads a row, and some moments later writes all its  *)
(* columns back: those of the edit form from the browser, the others from  *)
(* what it has read.                                                       *)
(***************************************************************************)
EXTENDS Naturals

CONSTANTS Leads,
          Docs,             \* documents a visitor may attach
          Purges,           \* executions of the task that may overlap
          ListEditors,      \* staff working in the list (list_editable)
          FormEditors,      \* staff working in the edit form
          MaxDisturbances,  \* bound: crashes and edits taken together
          Gone              \* no such row

Editors == ListEditors \union FormEditors

ASSUME RetentionAssumption ==
    /\ MaxDisturbances \in Nat
    /\ Gone \notin Leads
    /\ ListEditors \intersect FormEditors = {}

Data == {"personal", "erased"}

\* contact: the columns of the edit form; trace: the read-only ones (address,
\* labels, IP).
Row == [contact : Data, trace : Data, anonymized : BOOLEAN]

ASSUME GoneIsNoRow == Gone \notin Row

VARIABLES row,      \* Lead rows
          due,      \* purge_after is in the past
          files,    \* LeadAttachment rows of each lead
          disk,     \* its documents in private storage
          refused,  \* documents whose removal failed, as the server log names them
          todo,     \* leads each execution has still to visit
          at,       \* the lead it works on, Gone between two leads
          saved,    \* its row is written, its event is not
          open,     \* the lead an editor works on, Gone if none
          form,     \* the editor's form: contact data and documents it shows
          copy,     \* the row read when the edit was submitted, Gone before
          left      \* disturbances that may still happen

purgeVars == <<todo, at, saved>>
editVars  == <<open, form, copy>>
docVars   == <<files, disk, refused>>
vars == <<row, due, docVars, purgeVars, editVars, left>>

Form == [contact : Data, files : SUBSET Docs]

Expired(l) == row[l] # Gone /\ due[l] /\ ~row[l].anonymized

Init ==
    /\ row = [l \in Leads |-> [contact |-> "personal", trace |-> "personal", anonymized |-> FALSE]]
    /\ due = [l \in Leads |-> FALSE]
    /\ files \in [Leads -> SUBSET Docs]
    /\ disk = files
    /\ refused = [l \in Leads |-> {}]
    /\ todo = [p \in Purges |-> {}]
    /\ at = [p \in Purges |-> Gone]
    /\ saved = [p \in Purges |-> FALSE]
    /\ open = [e \in Editors |-> Gone]
    /\ form = [e \in Editors |-> [contact |-> "erased", files |-> {}]]
    /\ copy = [e \in Editors |-> Gone]
    /\ left = MaxDisturbances

\* The date passes purge_after.
Mature(l) ==
    /\ ~due[l]
    /\ due' = [due EXCEPT ![l] = TRUE]
    /\ UNCHANGED <<row, docVars, purgeVars, editVars, left>>

(***************************************************************************)
(* purge_expired_leads                                                     *)
(***************************************************************************)

Idle(p) == at[p] = Gone /\ todo[p] = {}

\* The iterator reads the expired leads once, in a cursor of its own.
BeginPurge(p) ==
    /\ Idle(p)
    /\ \E l \in Leads : Expired(l)
    /\ todo' = [todo EXCEPT ![p] = {l \in Leads : Expired(l)}]
    /\ UNCHANGED <<row, due, docVars, at, saved, editVars, left>>

Visit(p, l) ==
    /\ at[p] = Gone
    /\ l \in todo[p]
    /\ at' = [at EXCEPT ![p] = l]
    /\ todo' = [todo EXCEPT ![p] = @ \ {l}]
    /\ UNCHANGED <<row, due, docVars, saved, editVars, left>>

\* post_delete removes the document of each attachment that is deleted; what
\* the storage will not give up stays, and the signal only logs it.
RemoveDocuments(l, docs) ==
    \E kept \in SUBSET (docs \intersect disk[l]) :
      /\ disk' = [disk EXCEPT ![l] = @ \ (docs \ kept)]
      /\ refused' = [refused EXCEPT ![l] = @ \union kept]

\* Attachments are deleted one by one, each in a transaction of its own.
EraseFile(p) ==
    /\ at[p] # Gone /\ ~saved[p]
    /\ \E d \in files[at[p]] :
         /\ RemoveDocuments(at[p], {d})
         /\ files' = [files EXCEPT ![at[p]] = @ \ {d}]
    /\ UNCHANGED <<row, due, purgeVars, editVars, left>>

ErasedRow == [contact |-> "erased", trace |-> "erased", anonymized |-> TRUE]

\* Bug: the flag is missing from update_fields.
SaveUnflagged(p) ==
    /\ at[p] # Gone /\ ~saved[p]
    /\ files[at[p]] = {}
    /\ row[at[p]] # Gone
    /\ row' = [row EXCEPT ![at[p]] = [ErasedRow EXCEPT !.anonymized = FALSE]]
    /\ saved' = [saved EXCEPT ![p] = TRUE]
    /\ UNCHANGED <<due, docVars, todo, at, editVars, left>>

\* Bug: the row is saved before the documents are removed.
SaveBeforeFiles(p) ==
    /\ at[p] # Gone /\ ~saved[p]
    /\ row[at[p]] # Gone
    /\ row' = [row EXCEPT ![at[p]] = ErasedRow]
    /\ saved' = [saved EXCEPT ![p] = TRUE]
    /\ UNCHANGED <<due, docVars, todo, at, editVars, left>>

\* save(update_fields=...) of the erased columns.
SaveErased(p) ==
    /\ at[p] # Gone /\ ~saved[p]
    /\ files[at[p]] = {}
    /\ row[at[p]] # Gone
    /\ row' = [row EXCEPT ![at[p]] = ErasedRow]
    /\ saved' = [saved EXCEPT ![p] = TRUE]
    /\ UNCHANGED <<due, docVars, todo, at, editVars, left>>

Stop(p) ==
    /\ todo' = [todo EXCEPT ![p] = {}]
    /\ at' = [at EXCEPT ![p] = Gone]
    /\ saved' = [saved EXCEPT ![p] = FALSE]

\* The ANONYMIZED event; it needs the lead it belongs to.
LogAnonymized(p) ==
    /\ saved[p] /\ row[at[p]] # Gone
    /\ at' = [at EXCEPT ![p] = Gone]
    /\ saved' = [saved EXCEPT ![p] = FALSE]
    /\ UNCHANGED <<row, due, docVars, todo, editVars, left>>

\* The lead was deleted meanwhile: saving its row or its event raises, and
\* the leads that were to follow wait for the next day.
FailOnDeleted(p) ==
    /\ at[p] # Gone /\ row[at[p]] = Gone
    /\ Stop(p)
    /\ UNCHANGED <<row, due, docVars, editVars, left>>

Disturb == left > 0 /\ left' = left - 1

\* Bug: documents are removed after the transaction of their row.
CrashAfterRow(p) ==
    /\ ~Idle(p)
    /\ Disturb
    /\ \/ UNCHANGED files
       \/ /\ at[p] # Gone /\ ~saved[p]
          /\ \E d \in files[at[p]] : files' = [files EXCEPT ![at[p]] = @ \ {d}]
    /\ Stop(p)
    /\ UNCHANGED <<row, due, disk, refused, editVars>>

\* Deployment, memory limit, CELERY_TASK_TIME_LIMIT; between the removal of a
\* document and the commit of its row as well.
CrashPurge(p) ==
    /\ ~Idle(p)
    /\ Disturb
    /\ \/ UNCHANGED <<disk, refused>>
       \/ /\ at[p] # Gone /\ ~saved[p]
          /\ \E d \in files[at[p]] : RemoveDocuments(at[p], {d})
    /\ Stop(p)
    /\ UNCHANGED <<row, due, files, editVars>>

(***************************************************************************)
(* The admin                                                               *)
(***************************************************************************)

\* The edit form is filled from the row and stays in the browser.
OpenForm(e, l) ==
    /\ open[e] = Gone /\ row[l] # Gone
    /\ Disturb
    /\ open' = [open EXCEPT ![e] = l]
    /\ form' = [form EXCEPT ![e] = [contact |-> row[l].contact, files |-> files[l]]]
    /\ UNCHANGED <<row, due, docVars, purgeVars, copy>>

Close(e) ==
    /\ open' = [open EXCEPT ![e] = Gone]
    /\ copy' = [copy EXCEPT ![e] = Gone]

\* The row is read again; a form that lists documents no longer there does
\* not validate.
SubmitForm(e) ==
    /\ open[e] # Gone /\ copy[e] = Gone
    /\ IF row[open[e]] # Gone /\ form[e].files \subseteq files[open[e]]
         THEN /\ copy' = [copy EXCEPT ![e] = [row[open[e]] EXCEPT !.contact = form[e].contact]]
              /\ UNCHANGED open
         ELSE Close(e)
    /\ UNCHANGED <<row, due, docVars, purgeVars, form, left>>

\* list_editable: the row is read and written in one request.
SubmitList(e, l) ==
    /\ open[e] = Gone /\ row[l] # Gone
    /\ Disturb
    /\ open' = [open EXCEPT ![e] = l]
    /\ copy' = [copy EXCEPT ![e] = row[l]]
    /\ UNCHANGED <<row, due, docVars, purgeVars, form>>

\* Model.save() without update_fields: all columns are written, and a row
\* deleted meanwhile is inserted again.
SaveRow(e) ==
    /\ copy[e] # Gone
    /\ row' = [row EXCEPT ![open[e]] = copy[e]]
    /\ Close(e)
    /\ UNCHANGED <<due, docVars, purgeVars, form, left>>

\* One transaction for the lead, its attachments and the signals; rolled
\* back, it leaves rows whose documents are gone.
DeleteLead(l) ==
    /\ row[l] # Gone
    /\ Disturb
    /\ RemoveDocuments(l, files[l])
    /\ \/ UNCHANGED <<row, files>>
       \/ row' = [row EXCEPT ![l] = Gone] /\ files' = [files EXCEPT ![l] = {}]
    /\ UNCHANGED <<due, purgeVars, editVars>>

-----------------------------------------------------------------------------
PurgeStep(p) ==
    \/ BeginPurge(p) \/ EraseFile(p) \/ SaveErased(p) \/ LogAnonymized(p) \/ FailOnDeleted(p)
    \/ \E l \in Leads : Visit(p, l)

Next ==
    \/ \E l \in Leads : Mature(l) \/ DeleteLead(l)
    \/ \E p \in Purges : PurgeStep(p) \/ CrashPurge(p)
    \/ \E e \in FormEditors : SubmitForm(e) \/ \E l \in Leads : OpenForm(e, l)
    \/ \E e \in ListEditors, l \in Leads : SubmitList(e, l)
    \/ \E e \in Editors : SaveRow(e)

Spec == Init /\ [][Next]_vars

\* Beat starts the task every day and a worker that lives carries it on; a
\* request of the admin that has read its row writes it.
Fairness ==
    /\ \A p \in Purges : WF_vars(PurgeStep(p))
    /\ \A e \in Editors : WF_vars(SaveRow(e))

FairSpec == Spec /\ Fairness

-----------------------------------------------------------------------------
TypeOK ==
    /\ row \in [Leads -> Row \union {Gone}]
    /\ due \in [Leads -> BOOLEAN]
    /\ files \in [Leads -> SUBSET Docs]
    /\ disk \in [Leads -> SUBSET Docs]
    /\ refused \in [Leads -> SUBSET Docs]
    /\ todo \in [Purges -> SUBSET Leads]
    /\ at \in [Purges -> Leads \union {Gone}]
    /\ saved \in [Purges -> BOOLEAN]
    /\ \A p \in Purges : saved[p] => at[p] # Gone
    /\ open \in [Editors -> Leads \union {Gone}]
    /\ form \in [Editors -> Form]
    /\ copy \in [Editors -> Row \union {Gone}]
    /\ \A e \in Editors : copy[e] # Gone => open[e] # Gone
    /\ left \in 0 .. MaxDisturbances

\* A document still on disk can be found: by its row, which the next purge or
\* deletion takes up, or else by the log.  Neither the death of a run nor a
\* deletion rolled back leaves one that nothing names.
NoDocumentLost == \A l \in Leads : disk[l] \subseteq files[l] \union refused[l]

\* Nothing of the visitor's is attached, and on disk only what the storage
\* refused to remove.
DocumentsErased(l) == files[l] = {} /\ disk[l] \subseteq refused[l]

\* What a flagged row may hold for lead l: nothing of the visitor's.
Clean(r, l) == r.anonymized => r.contact = "erased" /\ r.trace = "erased" /\ DocumentsErased(l)

\* A lead marked is_anonymized holds no personal data and, but for the removals
\* the log reports as failed, no document, at every moment: the flag is what
\* excludes it from every later purge, so anything left behind it stays for
\* ever.
AnonymizedIsClean == \A l \in Leads : row[l] # Gone => Clean(row[l], l)

\* The same without the columns of the edit form: whoever edits and deletes
\* whatever, and wherever a run of the purge dies, labels, addresses and
\* documents never come to stand behind the flag, a document the storage
\* refused to remove excepted.
TraceIsClean ==
    \A l \in Leads :
      row[l] # Gone /\ row[l].anonymized => row[l].trace = "erased" /\ DocumentsErased(l)

\* What makes the two inductive: the row an editor is about to write back
\* satisfies them too.
CopyIsClean ==
    \A e \in Editors : copy[e] # Gone => copy[e] \in Row /\ Clean(copy[e], open[e])

CopyTraceIsClean ==
    \A e \in Editors :
      copy[e] # Gone /\ copy[e].anonymized =>
        copy[e].trace = "erased" /\ DocumentsErased(open[e])

\* Every lead whose term is over is anonymized for good or deleted, though
\* runs crash, fail on deleted leads, overlap, and edits undo them.
EventuallyAnonymized ==
    \A l \in Leads : <>[](due[l] => row[l] = Gone \/ row[l].anonymized)
=============================================================================
