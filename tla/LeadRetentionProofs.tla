------------------------- MODULE LeadRetentionProofs -------------------------
(***************************************************************************)
(* What the purge guarantees for any number of leads, documents,           *)
(* overlapping runs, crashes and editors: the columns no form carries and  *)
(* the documents are erased for good, and, as long as nobody uses the edit *)
(* form (retention_stale_form shows it to be unsafe), so is everything.    *)
(***************************************************************************)
EXTENDS LeadRetention, TLAPS

LEMMA RetentionTypeStep == TypeOK /\ [Next]_vars => TypeOK'
<1> SUFFICES ASSUME TypeOK, [Next]_vars PROVE TypeOK'
  OBVIOUS
<1> USE RetentionAssumption, GoneIsNoRow DEF TypeOK, Row, Data, Form, Editors, purgeVars, editVars, docVars
<1>0. Disturb => left' \in 0 .. MaxDisturbances
  BY DEF Disturb
<1>1. ASSUME NEW l \in Leads, Mature(l) \/ DeleteLead(l) PROVE TypeOK'
  <2>1. CASE Mature(l)
    BY <2>1 DEF Mature
  <2>2. CASE DeleteLead(l)
    BY <1>0, <2>2 DEF DeleteLead, RemoveDocuments
  <2> QED
    BY <1>1, <2>1, <2>2
<1>2. ASSUME NEW p \in Purges, BeginPurge(p) \/ EraseFile(p) PROVE TypeOK'
  <2>1. CASE BeginPurge(p)
    BY <2>1 DEF BeginPurge
  <2>2. CASE EraseFile(p)
    BY <2>2 DEF EraseFile, RemoveDocuments
  <2> QED
    BY <1>2, <2>1, <2>2
<1>3. ASSUME NEW p \in Purges, NEW l \in Leads, Visit(p, l) PROVE TypeOK'
  BY <1>3 DEF Visit
<1>4. ASSUME NEW p \in Purges, SaveErased(p) PROVE TypeOK'
  BY <1>4 DEF SaveErased, ErasedRow
<1>5. ASSUME NEW p \in Purges, LogAnonymized(p) PROVE TypeOK'
  BY <1>5 DEF LogAnonymized
<1>6. ASSUME NEW p \in Purges, FailOnDeleted(p) \/ CrashPurge(p) PROVE TypeOK'
  <2>1. left' \in 0 .. MaxDisturbances
    BY <1>0, <1>6 DEF FailOnDeleted, CrashPurge
  <2>2. Stop(p) /\ UNCHANGED <<row, due, files, editVars>>
    BY <1>6 DEF FailOnDeleted, CrashPurge
  <2>3. disk' \in [Leads -> SUBSET Docs] /\ refused' \in [Leads -> SUBSET Docs]
    BY <1>6 DEF FailOnDeleted, CrashPurge, RemoveDocuments
  <2> QED
    BY <2>1, <2>2, <2>3 DEF Stop
<1>7. ASSUME NEW e \in FormEditors, NEW l \in Leads, OpenForm(e, l) PROVE TypeOK'
  BY <1>0, <1>7 DEF OpenForm
<1>8. ASSUME NEW e \in FormEditors, SubmitForm(e) PROVE TypeOK'
  BY <1>8 DEF SubmitForm, Close
<1>9. ASSUME NEW e \in ListEditors, NEW l \in Leads, SubmitList(e, l) PROVE TypeOK'
  BY <1>0, <1>9 DEF SubmitList
<1>10. ASSUME NEW e \in Editors, SaveRow(e) PROVE TypeOK'
  BY <1>10 DEF SaveRow, Close
<1>11. CASE UNCHANGED vars
  BY <1>11 DEF vars
<1> QED
  BY <1>1, <1>2, <1>3, <1>4, <1>5, <1>6, <1>7, <1>8, <1>9, <1>10, <1>11 DEF Next, PurgeStep

\* The state keeps its type.
THEOREM RetentionTypeCorrect == Spec => []TypeOK
<1>1. Init => TypeOK
  BY RetentionAssumption DEF Init, TypeOK, Row, Data, Form
<1>2. QED
  BY <1>1, RetentionTypeStep, PTL DEF Spec

-----------------------------------------------------------------------------
\* A document leaves the disk with its row, before it, or not at all and then
\* by name.
LEMMA DocumentStep == TypeOK /\ NoDocumentLost /\ [Next]_vars => NoDocumentLost'
<1> SUFFICES ASSUME TypeOK, NoDocumentLost, [Next]_vars PROVE NoDocumentLost'
  OBVIOUS
<1> USE DEF TypeOK, NoDocumentLost
<1>1. CASE UNCHANGED docVars
  BY <1>1 DEF docVars
<1>2. ASSUME NEW l \in Leads, NEW docs \in SUBSET files[l], RemoveDocuments(l, docs),
             files' \in {files, [files EXCEPT ![l] = @ \ docs]}
      PROVE  NoDocumentLost'
  BY <1>2 DEF RemoveDocuments
<1>3. ASSUME NEW l \in Leads, DeleteLead(l) PROVE NoDocumentLost'
  <2>1. RemoveDocuments(l, files[l]) /\ files' \in {files, [files EXCEPT ![l] = @ \ files[l]]}
    BY <1>3 DEF DeleteLead
  <2> QED
    BY <1>2, <2>1
<1>4. ASSUME NEW p \in Purges, EraseFile(p) PROVE NoDocumentLost'
  BY <1>2, <1>4, RetentionAssumption DEF EraseFile
<1>5. ASSUME NEW p \in Purges, CrashPurge(p) PROVE NoDocumentLost'
  BY <1>2, <1>5, RetentionAssumption DEF CrashPurge
<1> QED
  BY <1>1, <1>3, <1>4, <1>5
  DEF Next, PurgeStep, Mature, BeginPurge, Visit, SaveErased, LogAnonymized, FailOnDeleted,
      OpenForm, SubmitForm, SubmitList, SaveRow, vars, docVars

\* Whatever dies and is rolled back, a document on disk is found by its row or
\* named by the log.
THEOREM NoDocumentLostHolds == Spec => []NoDocumentLost
<1>1. Init => NoDocumentLost
  BY DEF Init, NoDocumentLost
<1>2. QED
  BY <1>1, DocumentStep, RetentionTypeCorrect, PTL DEF Spec

-----------------------------------------------------------------------------
\* Attachments are never added, so a clean row stays clean while it is the row.
LEMMA FilesShrink ==
  ASSUME TypeOK, NoDocumentLost, [Next]_vars
  PROVE  /\ \A l \in Leads : files'[l] \subseteq files[l]
         /\ \A l \in Leads : files[l] = {} => DocumentsErased(l)'
<1>1. \A l \in Leads : files'[l] \subseteq files[l]
  <2>1. CASE \E l \in Leads : DeleteLead(l)
    BY <2>1 DEF TypeOK, DeleteLead
  <2>2. CASE \E p \in Purges : EraseFile(p)
    BY <2>2 DEF TypeOK, EraseFile
  <2>3. CASE UNCHANGED files
    BY <2>3
  <2> QED
    BY <2>1, <2>2, <2>3
    DEF Next, PurgeStep, Mature, BeginPurge, Visit, SaveErased, LogAnonymized, FailOnDeleted,
        CrashPurge, OpenForm, SubmitForm, SubmitList, SaveRow, vars, docVars
<1> QED
  BY <1>1, DocumentStep DEF NoDocumentLost, DocumentsErased

\* Rows come from the purge, which has emptied the files before, or from an
\* editor's copy, whose read-only columns were read as one row.
LEMMA TraceStep ==
  TypeOK /\ NoDocumentLost /\ TraceIsClean /\ CopyTraceIsClean /\ [Next]_vars => TraceIsClean' /\ CopyTraceIsClean'
<1> SUFFICES ASSUME TypeOK, NoDocumentLost, TraceIsClean, CopyTraceIsClean, [Next]_vars
             PROVE  TraceIsClean' /\ CopyTraceIsClean'
  OBVIOUS
<1>0. \A l \in Leads : DocumentsErased(l) => DocumentsErased(l)'
  BY FilesShrink DEF DocumentsErased
<1>9. \A l \in Leads : files[l] = {} => DocumentsErased(l)'
  BY FilesShrink
<1> USE RetentionAssumption, GoneIsNoRow
    DEF TypeOK, TraceIsClean, CopyTraceIsClean, Editors, purgeVars, editVars
<1>1. CASE UNCHANGED <<row, open, copy>>
  BY <1>0, <1>1
<1>2. ASSUME NEW l \in Leads, DeleteLead(l) PROVE TraceIsClean' /\ CopyTraceIsClean'
  BY <1>0, <1>2, <1>9 DEF DeleteLead
<1>3. ASSUME NEW p \in Purges, SaveErased(p) PROVE TraceIsClean' /\ CopyTraceIsClean'
  BY <1>0, <1>3, <1>9 DEF SaveErased, ErasedRow
<1>4. ASSUME NEW e \in ListEditors, NEW l \in Leads, SubmitList(e, l)
      PROVE  TraceIsClean' /\ CopyTraceIsClean'
  BY <1>0, <1>4 DEF SubmitList
<1>5. ASSUME NEW e \in FormEditors, NEW l \in Leads, OpenForm(e, l)
      PROVE  TraceIsClean' /\ CopyTraceIsClean'
  BY <1>0, <1>5 DEF OpenForm
<1>6. ASSUME NEW e \in FormEditors, SubmitForm(e) PROVE TraceIsClean' /\ CopyTraceIsClean'
  BY <1>0, <1>6 DEF SubmitForm, Close, Row
<1>7. ASSUME NEW e \in Editors, SaveRow(e) PROVE TraceIsClean' /\ CopyTraceIsClean'
  BY <1>0, <1>7 DEF SaveRow, Close
<1> QED
  BY <1>1, <1>2, <1>3, <1>4, <1>5, <1>6, <1>7
  DEF Next, PurgeStep, Mature, BeginPurge, EraseFile, Visit, LogAnonymized, FailOnDeleted,
      CrashPurge, vars

\* The trace of the visitor (labels, addresses, documents) never stands behind
\* the flag, whatever crashes, overlaps, is deleted or edited anywhere.
THEOREM TraceIsCleanHolds == Spec => []TraceIsClean
<1>1. Init => TraceIsClean /\ CopyTraceIsClean
  BY DEF Init, TraceIsClean, CopyTraceIsClean
<1>2. QED
  BY <1>1, TraceStep, RetentionTypeCorrect, NoDocumentLostHolds, PTL DEF Spec

-----------------------------------------------------------------------------
\* The same for whole rows when no form is used.
LEMMA CleanStep ==
  ASSUME FormEditors = {}
  PROVE  TypeOK /\ NoDocumentLost /\ AnonymizedIsClean /\ CopyIsClean /\ [Next]_vars
           => AnonymizedIsClean' /\ CopyIsClean'
<1> SUFFICES ASSUME TypeOK, NoDocumentLost, AnonymizedIsClean, CopyIsClean, [Next]_vars
             PROVE  AnonymizedIsClean' /\ CopyIsClean'
  OBVIOUS
<1>0. \A l \in Leads : DocumentsErased(l) => DocumentsErased(l)'
  BY FilesShrink DEF DocumentsErased
<1>9. \A l \in Leads : files[l] = {} => DocumentsErased(l)'
  BY FilesShrink
<1> USE RetentionAssumption, GoneIsNoRow
    DEF TypeOK, AnonymizedIsClean, CopyIsClean, Clean, Editors, purgeVars, editVars
<1>1. CASE UNCHANGED <<row, open, copy>>
  BY <1>0, <1>1
<1>2. ASSUME NEW l \in Leads, DeleteLead(l) PROVE AnonymizedIsClean' /\ CopyIsClean'
  BY <1>0, <1>2, <1>9 DEF DeleteLead
<1>3. ASSUME NEW p \in Purges, SaveErased(p) PROVE AnonymizedIsClean' /\ CopyIsClean'
  BY <1>0, <1>3, <1>9 DEF SaveErased, ErasedRow
<1>4. ASSUME NEW e \in ListEditors, NEW l \in Leads, SubmitList(e, l)
      PROVE  AnonymizedIsClean' /\ CopyIsClean'
  BY <1>0, <1>4 DEF SubmitList
<1>5. ASSUME NEW e \in Editors, SaveRow(e) PROVE AnonymizedIsClean' /\ CopyIsClean'
  BY <1>0, <1>5 DEF SaveRow, Close
<1> QED
  BY <1>1, <1>2, <1>3, <1>4, <1>5
  DEF Next, PurgeStep, Mature, BeginPurge, EraseFile, Visit, LogAnonymized, FailOnDeleted,
      CrashPurge, vars

\* A lead flagged as anonymized holds nothing of the visitor's, whatever
\* crashes, overlaps, is deleted or edited in the list.
THEOREM AnonymizedIsCleanHolds ==
  ASSUME FormEditors = {}
  PROVE  Spec => []AnonymizedIsClean
<1>1. Init => AnonymizedIsClean /\ CopyIsClean
  BY DEF Init, AnonymizedIsClean, CopyIsClean, Clean
<1>2. TypeOK /\ NoDocumentLost /\ AnonymizedIsClean /\ CopyIsClean /\ [Next]_vars => AnonymizedIsClean' /\ CopyIsClean'
  BY CleanStep
<1>3. QED
  BY <1>1, <1>2, RetentionTypeCorrect, NoDocumentLostHolds, PTL DEF Spec
=============================================================================
