----------------------------- MODULE Attachments -----------------------------
(***************************************************************************)
(* Attachments of messages: an upload session (AttachmentSessionService),  *)
(* the ingestion of its files (AttachmentService, MediaAssetService), the  *)
(* messages that take them (MessagesService) and everyone who removes      *)
(* unlinked ones: the user, and the daily AttachmentCleanupScheduler.  All *)
(* of them read rows and write them later; only the insert of a message    *)
(* and the link of its attachments share a transaction.  The objects in    *)
(* the media storage are left out.                                         *)
(***************************************************************************)
EXTENDS Naturals, FiniteSets

CONSTANTS
    Files,          \* attachments
    Sends,          \* messages with attachments
    Removers,       \* removals in flight at a time
    MaxRemovals     \* bound: removals of a behaviour

ASSUME AttachmentsAssumption ==
    IsFiniteSet(Files) /\ MaxRemovals \in Nat

VARIABLES
    session,    \* status of the stays_attachment_sessions row
    completing, \* completeSession has seen every attachment ready
    upload,     \* per attachment: step of the request that ingests it
    file,       \* rows of stays_message_attachments
    send,       \* per message: step, ids of its attachments
    remover,    \* per removal: {} or the rows it has read
    removals

attachmentVars == <<session, completing, upload, file, send, remover, removals>>

\* status: readers ask only whether it is READY, so UPLOADING, PROCESSING and
\* FAILED are one, and an upload that fails is one that never ends;
\* inSession: session_id is the session's, not null; message: {} or the message
\* it is linked to; evidence: kept for a report.
FileRow == [status : {"NONE", "NOT_READY", "READY"},
            inSession : BOOLEAN, message : SUBSET Sends, evidence : BOOLEAN]
NoFile == [status |-> "NONE", inSession |-> FALSE, message |-> {}, evidence |-> FALSE]

RowExists(f) == file[f].status # "NONE"
Unlinked == {f \in Files : RowExists(f) /\ file[f].message = {}}
SessionFiles == {f \in Files : RowExists(f) /\ file[f].inSession}

----------------------------------------------------------------------------
(* The session and its uploads *)

createSession ==
    /\ session = "NONE" /\ session' = "CREATED"
    /\ UNCHANGED <<completing, upload, file, send, remover, removals>>

\* uploadToSession: the session is checked, then moved on from the image.
UploadChecks(f) ==
    /\ upload[f] = "idle" /\ session \in {"CREATED", "UPLOADING", "READY"}
    /\ upload' = [upload EXCEPT ![f] = IF session = "CREATED" THEN "first" ELSE "later"]
    /\ UNCHANGED <<session, completing, file, send, remover, removals>>

\* An upload after expires_at closes the session, by id: also one that was
\* finalized since it was read.  The time may come any moment, and a send after
\* it is one that is not made.
UploadExpires ==
    /\ session \in {"CREATED", "UPLOADING", "READY", "COMPLETED"} /\ session' = "ABANDONED"
    /\ UNCHANGED <<completing, upload, file, send, remover, removals>>

UploadMarks(f) ==
    /\ upload[f] = "first"
    /\ session' = IF session = "DELETED" THEN session ELSE "UPLOADING"
    /\ upload' = [upload EXCEPT ![f] = "later"]
    /\ UNCHANGED <<completing, file, send, remover, removals>>

\* ingestFile: the row, which in a session needs the session's row; uploads of
\* evidence and createFromUpload have no session ...
InsertFile(f) ==
    /\ upload[f] = "idle" \/ (upload[f] = "later" /\ session # "DELETED")
    /\ upload' = [upload EXCEPT ![f] = "processing"]
    /\ file' = [file EXCEPT ![f] = [NoFile EXCEPT !.status = "NOT_READY",
                                                 !.inSession = upload[f] = "later"]]
    /\ UNCHANGED <<session, completing, send, remover, removals>>

\* ... then the object is stored and the row is READY; an update of a row that
\* was removed in the meantime writes nothing.
FinishFile(f) ==
    /\ upload[f] = "processing"
    /\ file' = IF RowExists(f) THEN [file EXCEPT ![f].status = "READY"] ELSE file
    /\ upload' = [upload EXCEPT ![f] = "ready"]
    /\ UNCHANGED <<session, completing, send, remover, removals>>

\* Reading the finished row back fails: the catch block marks it FAILED.
FailFile(f) ==
    /\ upload[f] = "ready"
    /\ file' = IF RowExists(f) THEN [file EXCEPT ![f].status = "NOT_READY"] ELSE file
    /\ upload' = [upload EXCEPT ![f] = "done"]
    /\ UNCHANGED <<session, completing, send, remover, removals>>

\* completeSession
CompleteChecks ==
    /\ session \in {"CREATED", "UPLOADING", "READY"} /\ ~completing
    /\ SessionFiles # {} /\ \A f \in SessionFiles : file[f].status = "READY"
    /\ completing' = TRUE
    /\ UNCHANGED <<session, upload, file, send, remover, removals>>

completeSession ==
    /\ completing /\ completing' = FALSE
    /\ session' = IF session = "DELETED" THEN session ELSE "READY"
    /\ UNCHANGED <<upload, file, send, remover, removals>>

\* Only the cleanup of rows without a session looks for the mark.
markAsReportEvidence(f) ==
    /\ f \in Unlinked \ SessionFiles /\ file[f].status = "READY"
    /\ file' = [file EXCEPT ![f].evidence = TRUE]
    /\ UNCHANGED <<session, completing, upload, send, remover, removals>>

----------------------------------------------------------------------------
(* Messages *)

\* sendWithSession, sendWithAttachments: the ids are settled before the
\* transaction.
SendsSession(m, ids) ==
    /\ send[m].pc = "idle" /\ ids # {}
    /\ send' = [send EXCEPT ![m] = [pc |-> "session", ids |-> ids]]
    /\ UNCHANGED <<session, completing, upload, file, remover, removals>>

SendsIds(m, ids) ==
    /\ send[m].pc = "idle"
    /\ send' = [send EXCEPT ![m] = [pc |-> "ids", ids |-> ids]]
    /\ UNCHANGED <<session, completing, upload, file, remover, removals>>

\* Mutant: a session that is READY is taken for its attachments.
SessionTrusted(m) ==
    /\ session = "READY"
    /\ SendsSession(m, Unlinked \cap SessionFiles)

\* assertSessionReadyForSend looks at every attachment again: one may have been
\* added since the session was completed.
assertSessionReadyForSend(m) ==
    /\ session = "READY"
    /\ \A f \in Unlinked \cap SessionFiles : file[f].status = "READY"
    /\ SendsSession(m, Unlinked \cap SessionFiles)

\* assertReadyForSend: attachments by id, linked already or not.
assertReadyForSend(m, f) ==
    file[f].status = "READY" /\ SendsIds(m, {f})

\* finalizeSession runs on a connection of its own, before the commit.
finalizeSession(m) ==
    /\ send[m].pc = "session"
    /\ session' = IF session = "DELETED" THEN session ELSE "COMPLETED"
    /\ send' = [send EXCEPT ![m].pc = "ids"]
    /\ UNCHANGED <<completing, upload, file, remover, removals>>

\* Mutant: the last message to come takes the attachments.
LinkedAlways(m) ==
    [f \in Files |-> IF f \in send[m].ids /\ RowExists(f)
                     THEN [file[f] EXCEPT !.message = {m}] ELSE file[f]]

\* linkToMessage: the rows that are still there and unlinked.
Linked(m) ==
    [f \in Files |-> IF f \in send[m].ids \cap Unlinked
                     THEN [file[f] EXCEPT !.message = {m}] ELSE file[f]]

\* The message commits with its rows and keeps their ids in its metadata ...
linkToMessage(m) ==
    /\ send[m].pc = "ids"
    /\ file' = Linked(m)
    /\ send' = [send EXCEPT ![m].pc = "sent"]
    /\ UNCHANGED <<session, completing, upload, remover, removals>>

\* ... from which every page of messages links them again.
loadForMessages(m) ==
    /\ send[m].pc = "sent"
    /\ file' = Linked(m)
    /\ UNCHANGED <<session, completing, upload, send, remover, removals>>

SendFails(m) ==
    /\ send[m].pc \in {"session", "ids"}
    /\ send' = [send EXCEPT ![m] = [pc |-> "idle", ids |-> {}]]
    /\ UNCHANGED <<session, completing, upload, file, remover, removals>>

----------------------------------------------------------------------------
(* Removal: rows are read, and deleted one by one from that image.         *)

Removes(k, rows, end) ==
    /\ remover[k] = {} /\ removals < MaxRemovals
    /\ remover' = [remover EXCEPT ![k] = {[rows |-> rows, end |-> end]}]
    /\ removals' = removals + 1
    /\ UNCHANGED <<session, completing, upload, file, send>>

\* abandonSession, markExpiredSessionsAbandoned, then stale sessions.
abandonSession(k) ==
    /\ session \in {"CREATED", "UPLOADING", "READY", "ABANDONED"}
    /\ Removes(k, Unlinked \cap SessionFiles, "ABANDONED")

CleanStaleSession(k) ==
    /\ session \in {"CREATED", "UPLOADING", "READY", "ABANDONED"}
    /\ Removes(k, Unlinked \cap SessionFiles, "DELETED")

deleteAttachmentFromSession(k, f) ==
    /\ session \notin {"NONE", "COMPLETED", "DELETED"} /\ f \in Unlinked \cap SessionFiles
    /\ Removes(k, {f}, "NONE")

\* cleanupOrphanAttachments: rows without session and message, evidence kept.
CleanOrphans(k) ==
    LET rows == {f \in Unlinked \ SessionFiles : ~file[f].evidence}
    IN  rows # {} /\ Removes(k, rows, "NONE")

\* By id: the row may have been linked since.
deleteUnlinkedAttachment(k) ==
    \E x \in remover[k] : \E f \in x.rows :
        /\ file' = [file EXCEPT ![f] = NoFile]
        /\ remover' = [remover EXCEPT ![k] = {[x EXCEPT !.rows = @ \ {f}]}]
        /\ UNCHANGED <<session, completing, upload, send, removals>>

EndRemoval(k) ==
    \E x \in remover[k] :
        /\ x.rows = {}
        /\ session' = IF x.end = "NONE" \/ session = "DELETED" THEN session ELSE x.end
        /\ remover' = [remover EXCEPT ![k] = {}]
        /\ UNCHANGED <<completing, upload, file, send, removals>>

----------------------------------------------------------------------------

AttachmentsInit ==
    /\ session = "NONE" /\ completing = FALSE
    /\ upload = [f \in Files |-> "idle"]
    /\ file = [f \in Files |-> NoFile]
    /\ send = [m \in Sends |-> [pc |-> "idle", ids |-> {}]]
    /\ remover = [k \in Removers |-> {}]
    /\ removals = 0

AttachmentsNext ==
    \/ createSession \/ UploadExpires \/ CompleteChecks \/ completeSession
    \/ \E f \in Files :
          \/ UploadChecks(f) \/ UploadMarks(f) \/ InsertFile(f)
          \/ FinishFile(f) \/ FailFile(f)
          \/ markAsReportEvidence(f)
    \/ \E m \in Sends :
          \/ assertSessionReadyForSend(m)
          \/ \E f \in Files : assertReadyForSend(m, f)
          \/ finalizeSession(m) \/ linkToMessage(m) \/ loadForMessages(m) \/ SendFails(m)
    \/ \E k \in Removers :
          \/ abandonSession(k) \/ CleanStaleSession(k) \/ CleanOrphans(k)
          \/ \E f \in Files : deleteAttachmentFromSession(k, f)
          \/ deleteUnlinkedAttachment(k) \/ EndRemoval(k)

AttachmentsSpec == AttachmentsInit /\ [][AttachmentsNext]_attachmentVars

----------------------------------------------------------------------------

AttachmentsTypeOK ==
    /\ session \in {"NONE", "CREATED", "UPLOADING", "READY", "COMPLETED", "ABANDONED", "DELETED"}
    /\ file \in [Files -> FileRow]
    /\ removals \in 0..MaxRemovals

\* A message takes only attachments whose ingestion was completed, although
\* uploads go on after a session was completed, rows are linked by ids read
\* before the transaction, and removals run against both.
SentWereIngested == \A f \in Files : file[f].message # {} => upload[f] \in {"ready", "done"}

\* An attachment stays with the message that took it: of two sends of the same
\* session, or of the same ids, the second gets none of them.
AttachmentKeepsMessage ==
    [][\A f \in Files : file[f].message # {} /\ file'[f].status # "NONE"
          => file'[f].message = file[f].message]_file

----------------------------------------------------------------------------
(* The inductive invariant behind the two above. *)

\* Its ingestion is over: the row of an attachment is not inserted again.
Ingested(f) == upload[f] \in {"ready", "done"}

\* A row is READY, chosen for a message or linked to one only when ingested.
AttachmentsInv ==
    /\ upload \in [Files -> {"idle", "first", "later", "processing", "ready", "done"}]
    /\ file \in [Files -> FileRow]
    /\ send \in [Sends -> [pc : {"idle", "session", "ids", "sent"}, ids : SUBSET Files]]
    /\ \A f \in Files : file[f].status = "READY" => Ingested(f)
    /\ \A m \in Sends : \A f \in send[m].ids : Ingested(f)
    /\ SentWereIngested
=============================================================================
