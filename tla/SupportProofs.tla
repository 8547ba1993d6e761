---------------------------- MODULE SupportProofs ----------------------------
(***************************************************************************)
(* What is proved about the support side: attachments of messages, the     *)
(* operational signals of a ticket, and the support desk.  Each part shows *)
(* that the inductive invariant of its module holds initially and is kept  *)
(* by every step, and reads its properties off it.  The last part shows    *)
(* that a behaviour of their composition, with the accounts of the         *)
(* identity service, is one of each of them.                               *)
(***************************************************************************)
EXTENDS MCSupport, IdentityProofs, FiniteSetTheorems, TLAPS

----------------------------------------------------------------------------
(* Attachments *)

\* Session, removal and completion steps touch neither rows nor uploads.
LEMMA AttachmentsFrame ==
    ASSUME AttachmentsInv, UNCHANGED <<upload, file, send>>
    PROVE  AttachmentsInv'
BY DEF AttachmentsInv, SentWereIngested, Ingested

\* Every step keeps the invariant: a row is marked ready by the step that ends
\* its ingestion, and chosen or linked only while it is ready.
LEMMA AttachmentsStep ==
    ASSUME AttachmentsInv, [AttachmentsNext]_attachmentVars
    PROVE  AttachmentsInv'
<1> USE DEF AttachmentsInv, SentWereIngested, Ingested
<1>1. CASE UNCHANGED attachmentVars
  BY <1>1, AttachmentsFrame DEF attachmentVars
<1>2. CASE createSession \/ UploadExpires \/ CompleteChecks \/ completeSession
  BY <1>2, AttachmentsFrame DEF createSession, UploadExpires, CompleteChecks, completeSession
<1>3. ASSUME NEW f \in Files, UploadChecks(f) \/ UploadMarks(f)
      PROVE  AttachmentsInv'
  BY <1>3 DEF UploadChecks, UploadMarks
<1>4. ASSUME NEW f \in Files, InsertFile(f)
      PROVE  AttachmentsInv'
  <2>1. upload[f] \in {"idle", "later"} /\ upload' = [upload EXCEPT ![f] = "processing"] /\ send' = send
    BY <1>4 DEF InsertFile
  <2>2. \A b \in BOOLEAN :
            LET row == [NoFile EXCEPT !.status = "NOT_READY", !.inSession = b]
            IN  row \in FileRow /\ row.status = "NOT_READY" /\ row.message = {}
    BY DEF NoFile, FileRow
  <2>3. PICK row \in FileRow : /\ row.status = "NOT_READY" /\ row.message = {}
                               /\ file' = [file EXCEPT ![f] = row]
    <3>1. PICK b \in BOOLEAN : b = (upload[f] = "later")
      OBVIOUS
    <3>2. QED
      BY <1>4, <2>2, <3>1 DEF InsertFile
  <2>4. QED
    BY <2>1, <2>3
<1>5. ASSUME NEW f \in Files, FinishFile(f) \/ FailFile(f)
      PROVE  AttachmentsInv'
  <2>1. upload' = [upload EXCEPT ![f] = "ready"] \/ upload' = [upload EXCEPT ![f] = "done"]
    BY <1>5 DEF FinishFile, FailFile
  <2>2. PICK s \in {"READY", "NOT_READY"} : file' = file \/ file' = [file EXCEPT ![f].status = s]
    BY <1>5 DEF FinishFile, FailFile
  <2>3. send' = send
    BY <1>5 DEF FinishFile, FailFile
  <2>4. file' \in [Files -> FileRow]
    BY <2>2 DEF FileRow
  <2>5. \A g \in Files : /\ g # f => file'[g] = file[g] /\ upload'[g] = upload[g]
                        /\ file'[g].message = file[g].message
    BY <2>1, <2>2 DEF FileRow
  <2>6. upload' \in [Files -> {"idle", "first", "later", "processing", "ready", "done"}] /\ Ingested(f)'
    BY <2>1
  <2>7. QED
    BY <2>3, <2>4, <2>5, <2>6
<1>6. ASSUME NEW f \in Files, markAsReportEvidence(f)
      PROVE  AttachmentsInv'
  BY <1>6 DEF markAsReportEvidence, FileRow
<1>7. ASSUME NEW m \in Sends, NEW ids \in SUBSET Files, \A f \in ids : file[f].status = "READY",
             SendsSession(m, ids) \/ SendsIds(m, ids)
      PROVE  AttachmentsInv'
  BY <1>7 DEF SendsSession, SendsIds
<1>8. ASSUME NEW m \in Sends, assertSessionReadyForSend(m) \/ \E f \in Files : assertReadyForSend(m, f)
      PROVE  AttachmentsInv'
  <2>1. Unlinked \cap SessionFiles \subseteq Files
    BY DEF Unlinked
  <2>2. CASE assertSessionReadyForSend(m)
    <3> DEFINE ids == Unlinked \cap SessionFiles
    <3>1. ids \in SUBSET Files /\ (\A f \in ids : file[f].status = "READY") /\ SendsSession(m, ids)
      BY <2>1, <2>2 DEF assertSessionReadyForSend
    <3> HIDE DEF ids
    <3>2. QED
      BY <1>7, <3>1
  <2>3. ASSUME NEW f \in Files, assertReadyForSend(m, f)
        PROVE  AttachmentsInv'
    <3>1. file[f].status = "READY" /\ SendsIds(m, {f})
      BY <2>3 DEF assertReadyForSend
    <3>2. QED
      BY <1>7, <3>1
  <2>4. QED
    BY <1>8, <2>2, <2>3
<1>9. ASSUME NEW m \in Sends, finalizeSession(m) \/ SendFails(m)
      PROVE  AttachmentsInv'
  BY <1>9 DEF finalizeSession, SendFails
<1>10. ASSUME NEW m \in Sends, linkToMessage(m) \/ loadForMessages(m)
       PROVE  AttachmentsInv'
  <2>1. /\ upload' = upload /\ (send' = send \/ send' = [send EXCEPT ![m].pc = "sent"])
        /\ file' = [f \in Files |-> IF f \in send[m].ids \cap Unlinked
                                    THEN [file[f] EXCEPT !.message = {m}] ELSE file[f]]
    BY <1>10 DEF linkToMessage, loadForMessages, Linked
  <2>2. /\ send' \in [Sends -> [pc : {"idle", "session", "ids", "sent"}, ids : SUBSET Files]]
        /\ \A n \in Sends : send'[n].ids = send[n].ids
    BY <2>1
  <2>3. QED
    BY <2>1, <2>2 DEF FileRow, Unlinked
<1>11. ASSUME NEW k \in Removers, NEW rows, NEW end, Removes(k, rows, end)
       PROVE  AttachmentsInv'
  BY <1>11, AttachmentsFrame DEF Removes
<1>12. ASSUME NEW k \in Removers, deleteUnlinkedAttachment(k)
       PROVE  AttachmentsInv'
  <2>1. /\ UNCHANGED <<upload, send>>
        /\ \E f : file' = [file EXCEPT ![f] = NoFile]
    BY <1>12 DEF deleteUnlinkedAttachment
  <2>2. NoFile \in FileRow /\ NoFile.status = "NONE" /\ NoFile.message = {}
    BY DEF FileRow, NoFile
  <2>3. \A g \in Files : file'[g] = file[g] \/ file'[g] = NoFile
    BY <2>1
  <2>4. file' \in [Files -> FileRow]
    BY <2>1, <2>2
  <2>5. QED
    BY <2>1, <2>2, <2>3, <2>4
<1>13. ASSUME NEW k \in Removers, EndRemoval(k)
       PROVE  AttachmentsInv'
  BY <1>13, AttachmentsFrame DEF EndRemoval
<1>14. QED
  BY <1>1, <1>2, <1>3, <1>4, <1>5, <1>6, <1>8, <1>9, <1>10, <1>11, <1>12, <1>13
  DEF AttachmentsNext, abandonSession, CleanStaleSession, CleanOrphans, deleteAttachmentFromSession

\* The inductive invariant holds in every behaviour.
LEMMA AttachmentsInvHolds == AttachmentsSpec => []AttachmentsInv
<1>1. AttachmentsInit => AttachmentsInv
  BY DEF AttachmentsInit, AttachmentsInv, SentWereIngested, Ingested, FileRow, NoFile
<1>2. AttachmentsInv /\ [AttachmentsNext]_attachmentVars => AttachmentsInv'
  BY AttachmentsStep
<1>3. QED
  BY <1>1, <1>2, PTL DEF AttachmentsSpec

\* A message takes only attachments whose ingestion was completed
\* (linkToMessage against uploadToSession, completeSession and removals).
THEOREM SentAttachmentsWereIngested == AttachmentsSpec => []SentWereIngested
<1>1. AttachmentsInv => SentWereIngested
  BY DEF AttachmentsInv
<1>2. QED
  BY <1>1, AttachmentsInvHolds, PTL

\* An attachment stays with the message that took it (linkToMessage takes
\* unlinked rows only, and a linked row is never inserted again).
THEOREM AttachmentsStayWithMessage == AttachmentsSpec => AttachmentKeepsMessage
<1>1. ASSUME AttachmentsInv, [AttachmentsNext]_attachmentVars
      PROVE  [\A f \in Files : file[f].message # {} /\ file'[f].status # "NONE"
                => file'[f].message = file[f].message]_file
  <2> SUFFICES ASSUME NEW g \in Files, file' # file, file[g].message # {}, file'[g].status # "NONE"
               PROVE  file'[g].message = file[g].message
    OBVIOUS
  <2> USE DEF AttachmentsInv, SentWereIngested, Ingested
  <2>1. ASSUME NEW f \in Files, InsertFile(f)
        PROVE  file'[g].message = file[g].message
    <3>1. f # g
      BY <1>1, <2>1 DEF InsertFile
    <3>2. QED
      BY <1>1, <2>1, <3>1 DEF InsertFile
  <2>2. ASSUME NEW f \in Files, FinishFile(f) \/ FailFile(f) \/ markAsReportEvidence(f)
        PROVE  file'[g].message = file[g].message
    BY <1>1, <2>2 DEF FinishFile, FailFile, markAsReportEvidence, FileRow
  <2>3. ASSUME NEW m \in Sends, linkToMessage(m) \/ loadForMessages(m)
        PROVE  file'[g].message = file[g].message
    BY <1>1, <2>3 DEF linkToMessage, loadForMessages, Linked, Unlinked
  <2>4. ASSUME NEW k \in Removers, deleteUnlinkedAttachment(k)
        PROVE  file'[g].message = file[g].message
    BY <1>1, <2>4 DEF deleteUnlinkedAttachment, NoFile
  <2>5. QED
    BY <1>1, <2>1, <2>2, <2>3, <2>4
    DEF AttachmentsNext, attachmentVars, createSession, UploadExpires, CompleteChecks, completeSession,
        UploadChecks, UploadMarks, assertSessionReadyForSend, assertReadyForSend, SendsSession,
        SendsIds, finalizeSession, SendFails, abandonSession, CleanStaleSession, CleanOrphans,
        deleteAttachmentFromSession, Removes, EndRemoval
<1>2. QED
  BY <1>1, AttachmentsInvHolds, PTL DEF AttachmentsSpec, AttachmentKeepsMessage

----------------------------------------------------------------------------
(* Operational signals *)

\* One leg of the SLA: slaLegSql is slaStateFor, on the target and on 80% of it
\* too, one millisecond late where the ticket was opened between two.
LEMMA SlaLegsAgree ==
    ASSUME NEW h \in Nat, NEW now \in Nat, NEW done \in SUBSET Nat, \A d1, d2 \in done : d1 = d2,
           NEW micros \in Micros, NEW at \in Int, at = IF micros = 0 THEN now ELSE now - 1
    PROVE  slaLegSql(h, micros, done, now) = slaStateFor(HourMs * h, done, at)
<1>1. CASE done = {}
  BY <1>1 DEF slaStateFor, slaLegSql, HourMs
<1>2. CASE done # {}
  <2>1. PICK d \in Nat : done = {d}
    <3>1. PICK d \in done : TRUE
      BY <1>2
    <3>2. done = {d} /\ d \in Nat
      BY <3>1
    <3>3. QED
      BY <3>2
  <2>2. CASE d <= HourMs * h
    BY <2>1, <2>2 DEF slaStateFor, slaLegSql
  <2>3. CASE ~(d <= HourMs * h)
    BY <2>1, <2>3 DEF slaStateFor, slaLegSql
  <2>4. QED
    BY <2>2, <2>3
<1>3. QED
  BY <1>1, <1>2

\* The targets of SUPPORT_SLA are those in hours of liveSlaStateSql.
LEMMA SlaViews ==
    ASSUME CaseShape
    PROVE  SlaViewsAgree
<1>1. /\ case.urgency \in {"LOW", "NORMAL", "HIGH", "URGENT"} /\ clock \in Nat
      /\ case.micros \in Micros
      /\ case.answered \in SUBSET Nat /\ \A d1, d2 \in case.answered : d1 = d2
      /\ case.resolved \in SUBSET Nat /\ \A d1, d2 \in case.resolved : d1 = d2
  <2>1. /\ case.urgency \in Urgencies /\ case.micros \in Micros
        /\ case.answered \in SUBSET Nat /\ case.resolved \in SUBSET Nat
    BY DEF CaseShape
  <2>2. /\ \A d1, d2 \in case.answered : d1 = d2
        /\ \A d1, d2 \in case.resolved : d1 = d2
    BY Zenon DEF CaseShape
  <2>3. QED
    BY <2>1, <2>2, SignalsAssumption DEF CaseShape
<1>2. PICK at \in Int : at = IF case.micros = 0 THEN clock ELSE clock - 1
  BY <1>1
<1>3. \A h \in Nat : /\ slaLegSql(h, case.micros, case.answered, clock) = slaStateFor(HourMs * h, case.answered, at)
                     /\ slaLegSql(h, case.micros, case.resolved, clock) = slaStateFor(HourMs * h, case.resolved, at)
  <2>1. ASSUME NEW h \in Nat, NEW done \in SUBSET Nat, \A d1, d2 \in done : d1 = d2
        PROVE  slaLegSql(h, case.micros, done, clock) = slaStateFor(HourMs * h, done, at)
    <3>1. PICK n \in Micros, now \in Nat : n = case.micros /\ now = clock
      BY <1>1
    <3>2. at = IF n = 0 THEN now ELSE now - 1
      BY <1>2, <3>1
    <3>3. slaLegSql(h, n, done, now) = slaStateFor(HourMs * h, done, at)
      BY <2>1, <3>2, SlaLegsAgree DEF HourMs
    <3>4. QED
      BY <3>1, <3>3, Zenon
  <2>2. QED
    BY <1>1, <2>1, Zenon
<1> DEFINE hours == CASE case.urgency = "LOW" -> <<24, 120>> [] case.urgency = "HIGH" -> <<4, 24>>
                      [] case.urgency = "URGENT" -> <<1, 8>> [] OTHER -> <<12, 72>>
<1>4. /\ hours[1] \in Nat /\ SUPPORT_SLA[case.urgency].firstResponse = HourMs * hours[1]
      /\ hours[2] \in Nat /\ SUPPORT_SLA[case.urgency].resolution = HourMs * hours[2]
  <2>1. CASE case.urgency = "LOW"
    BY <2>1 DEF SUPPORT_SLA, HourMs
  <2>2. CASE case.urgency = "NORMAL"
    BY <2>2 DEF SUPPORT_SLA, HourMs
  <2>3. CASE case.urgency = "HIGH"
    BY <2>3 DEF SUPPORT_SLA, HourMs
  <2>4. CASE case.urgency = "URGENT"
    BY <2>4 DEF SUPPORT_SLA, HourMs
  <2>5. QED
    BY <1>1, <2>1, <2>2, <2>3, <2>4
<1>5. computeSupportSla(case, at) =
        {slaLegSql(hours[1], case.micros, case.answered, clock),
         slaLegSql(hours[2], case.micros, case.resolved, clock)}
  BY <1>3, <1>4 DEF computeSupportSla
<1>6. liveSlaStateSql(case, clock) = Worst(computeSupportSla(case, at))
  BY <1>5, Zenon DEF liveSlaStateSql
<1>7. QED
  BY <1>2, <1>6, Zenon DEF SlaViewsAgree

\* What an undisturbed evaluation saves leaves standing exactly what it wants.
LEMMA SavedStands ==
    ASSUME NEW x \in EvaluationRecords, signal \in [SignalType -> SignalStatus], x.rows = signal
    PROVE  /\ Saved(x) \in [SignalType -> SignalStatus]
           /\ {k \in SignalType : Saved(x)[k] \in Standing} = x.want
  BY DEF Saved, Applied, Raised, EvaluationRecords, SignalStatus, Standing

\* Whatever an evaluation saves, the rows keep their form.
LEMMA SavedTyped ==
    ASSUME NEW x \in EvaluationRecords, signal \in [SignalType -> SignalStatus]
    PROVE  Saved(x) \in [SignalType -> SignalStatus]
  BY DEF Saved, Applied, Raised, EvaluationRecords, SignalStatus, Standing

\* A ticket event sets a time only where none is set.
LEMMA CaseStep ==
    ASSUME CaseShape, CaseEvent
    PROVE  CaseShape'
<1> DEFINE Shape(c) ==
      /\ c \in [urgency : Urgencies, open : BOOLEAN, owned : BOOLEAN, others : {0, 2, 3},
                 answered : SUBSET Nat, resolved : SUBSET Nat, micros : Micros]
      /\ \A done \in {c.answered, c.resolved} : \A d1, d2 \in done : d1 = d2
<1>1. Shape(case) /\ clock \in Nat
  BY DEF CaseShape
<1>2. clock' = clock
  BY DEF CaseEvent, CaseChanges
<1>3. Shape(case')
  <2>1. ASSUME NEW u \in Urgencies, case' = [case EXCEPT !.urgency = u] PROVE Shape(case')
    BY <1>1, <2>1
  <2>2. ASSUME NEW o \in BOOLEAN, case' = [case EXCEPT !.owned = o] PROVE Shape(case')
    BY <1>1, <2>2
  <2>3. ASSUME NEW a \in SUBSET Nat, \A d1, d2 \in a : d1 = d2, case' = [case EXCEPT !.answered = a]
        PROVE Shape(case')
    BY <1>1, <2>3
  <2>4. ASSUME NEW a \in SUBSET Nat, \A d1, d2 \in a : d1 = d2,
               case' = [case EXCEPT !.open = FALSE, !.resolved = a]
        PROVE Shape(case')
    BY <1>1, <2>4
  <2>5. ASSUME case' = [case EXCEPT !.open = TRUE] PROVE Shape(case')
    BY <1>1, <2>5
  <2>6. ASSUME NEW n \in {0, 2, 3}, case' = [case EXCEPT !.others = n] PROVE Shape(case')
    BY <1>1, <2>6
  <2>7. PICK a : a = IF case.answered = {} THEN {clock} ELSE case.answered
    OBVIOUS
  <2>8. PICK b : b = IF case.resolved = {} THEN {clock} ELSE case.resolved
    OBVIOUS
  <2>9. /\ a \in SUBSET Nat /\ \A d1, d2 \in a : d1 = d2
        /\ b \in SUBSET Nat /\ \A d1, d2 \in b : d1 = d2
    BY <1>1, <2>7, <2>8
  <2> HIDE DEF Shape
  <2>10. QED
    BY <2>1, <2>2, <2>3, <2>4, <2>5, <2>6, <2>7, <2>8, <2>9 DEF CaseEvent, CaseChanges
<1>4. QED
  BY <1>1, <1>2, <1>3 DEF CaseShape

\* A write of rows makes the evaluations under way count as disturbed.
LEMMA Disturbed ==
    ASSUME NEW f \in [Evaluations -> SUBSET EvaluationRecords]
    PROVE  /\ Disturb(f) \in [Evaluations -> SUBSET EvaluationRecords]
           /\ \A e \in Evaluations : \A y \in Disturb(f)[e] : ~y.calm
<1>1. \A x \in EvaluationRecords : /\ [x EXCEPT !.calm = FALSE] \in EvaluationRecords
                                   /\ ~[x EXCEPT !.calm = FALSE].calm
  BY DEF EvaluationRecords
<1>2. QED
  BY <1>1 DEF Disturb

\* Every step keeps what the signals are written from: rows change only with
\* all evaluations disturbed, and a calm one settles what it wants.
LEMMA SignalsStep ==
    ASSUME SignalsInv, [SignalsNext]_signalVars
    PROVE  SignalsInv'
<1>0. CaseShape /\ EvaluationsSound /\ SignalsSettle
  BY DEF SignalsInv
<1>1. CaseShape'
  <2>1. CASE \E t \in Instants : Tick(t)
    BY <1>0, <2>1, SignalsAssumption DEF Tick, CaseShape
  <2>2. CASE CaseEvent
    BY <1>0, <2>2, CaseStep
  <2>3. CASE UNCHANGED <<clock, case>>
    BY <1>0, <2>3 DEF CaseShape
  <2>4. QED
    BY <2>1, <2>2, <2>3 DEF SignalsNext, signalVars, evaluateTicket, ReadSignals, SaveSignals,
       RetryOrGiveUp, EvaluationFails, PatchReads, patchSignal
<1>2. EvaluationsSound' /\ SignalsSettle'
  <2>1. CASE UNCHANGED <<signal, evaluation, patch, settled>>
    BY <1>0, <2>1 DEF EvaluationsSound, SignalsSettle
  <2>2. ASSUME NEW e \in Evaluations, NEW n \in SUBSET EvaluationRecords,
               \A x \in n : x.read /\ x.calm => x.rows = signal,
               evaluation' = [evaluation EXCEPT ![e] = n], UNCHANGED <<signal, patch, settled>>
        PROVE  EvaluationsSound' /\ SignalsSettle'
    BY <1>0, <2>2 DEF EvaluationsSound, SignalsSettle
  <2>3. ASSUME NEW e \in Evaluations, evaluateTicket(e)
        PROVE  EvaluationsSound' /\ SignalsSettle'
    <3>1. PICK x : x = [want |-> Desires(case, clock), rows |-> signal, read |-> FALSE,
                        retried |-> FALSE, calm |-> TRUE]
      OBVIOUS
    <3>2. Desires(case, clock) \subseteq SignalType
      BY DEF Desires
    <3>3. x \in EvaluationRecords /\ x.rows = signal
      BY <1>0, <3>1, <3>2 DEF EvaluationRecords, EvaluationsSound
    <3>4. evaluation' = [evaluation EXCEPT ![e] = {x}] /\ UNCHANGED <<signal, patch, settled>>
      BY <2>3, <3>1 DEF evaluateTicket
    <3>5. QED
      BY <2>2, <3>3, <3>4
  <2>4. ASSUME NEW e \in Evaluations, ReadSignals(e) \/ RetryOrGiveUp(e) \/ EvaluationFails(e)
        PROVE  EvaluationsSound' /\ SignalsSettle'
    <3>1. UNCHANGED <<signal, patch, settled>>
      BY <2>4 DEF ReadSignals, RetryOrGiveUp, EvaluationFails
    <3>2. CASE evaluation' = [evaluation EXCEPT ![e] = {}]
      BY <2>2, <3>1, <3>2
    <3>3. CASE ReadSignals(e)
      <4>1. PICK x \in evaluation[e] :
                evaluation' = [evaluation EXCEPT ![e] = {[x EXCEPT !.rows = signal, !.read = TRUE]}]
        BY <3>3 DEF ReadSignals
      <4>2. x \in EvaluationRecords /\ signal \in [SignalType -> SignalStatus]
        BY <1>0 DEF EvaluationsSound
      <4>3. PICK y : y = [x EXCEPT !.rows = signal, !.read = TRUE]
        OBVIOUS
      <4>4. y \in EvaluationRecords /\ y.rows = signal
        BY <4>2, <4>3 DEF EvaluationRecords
      <4>5. evaluation' = [evaluation EXCEPT ![e] = {y}] /\ {y} \in SUBSET EvaluationRecords
        BY <4>1, <4>3, <4>4
      <4>6. QED
        BY <2>2, <3>1, <4>4, <4>5
    <3>4. CASE RetryOrGiveUp(e) /\ evaluation' # [evaluation EXCEPT ![e] = {}]
      <4>1. PICK x \in evaluation[e] :
                evaluation' = [evaluation EXCEPT ![e] = {[x EXCEPT !.read = FALSE, !.retried = TRUE]}]
        BY <3>4 DEF RetryOrGiveUp
      <4>2. x \in EvaluationRecords
        BY <1>0 DEF EvaluationsSound
      <4>3. PICK y : y = [x EXCEPT !.read = FALSE, !.retried = TRUE]
        OBVIOUS
      <4>4. y \in EvaluationRecords /\ ~y.read
        BY <4>2, <4>3 DEF EvaluationRecords
      <4>5. evaluation' = [evaluation EXCEPT ![e] = {y}] /\ {y} \in SUBSET EvaluationRecords
        BY <4>1, <4>3, <4>4
      <4>6. QED
        BY <2>2, <3>1, <4>4, <4>5
    <3>5. QED
      BY <2>4, <3>2, <3>3, <3>4 DEF EvaluationFails
  <2>5. ASSUME NEW e \in Evaluations, SaveSignals(e)
        PROVE  EvaluationsSound' /\ SignalsSettle'
    <3>1. PICK x \in evaluation[e] :
              /\ x.read /\ signal' = Saved(x)
              /\ evaluation' = [Disturb(evaluation) EXCEPT ![e] = {}]
              /\ settled' = IF x.calm THEN {x.want} ELSE {}
              /\ patch' = patch
      BY <2>5 DEF SaveSignals
    <3>2. x \in EvaluationRecords /\ signal \in [SignalType -> SignalStatus]
      BY <1>0 DEF EvaluationsSound
    <3>3. signal' \in [SignalType -> SignalStatus]
      BY <3>1, <3>2, SavedTyped
    <3>4. evaluation \in [Evaluations -> SUBSET EvaluationRecords]
      BY <1>0 DEF EvaluationsSound
    <3>5. evaluation' \in [Evaluations -> SUBSET EvaluationRecords]
          /\ \A f \in Evaluations : \A y \in evaluation'[f] : ~y.calm
      BY <3>1, <3>4, Disturbed
    <3>6. EvaluationsSound'
      BY <1>0, <3>1, <3>3, <3>5 DEF EvaluationsSound
    <3>7. ASSUME x.calm PROVE {k \in SignalType : Saved(x)[k] \in Standing} = x.want
      <4>1. x.rows = signal
        BY <1>0, <3>1, <3>7 DEF EvaluationsSound
      <4>2. QED
        BY <3>2, <4>1, SavedStands
    <3>8. SignalsSettle'
      BY <3>1, <3>7 DEF SignalsSettle
    <3>9. QED
      BY <3>6, <3>8
  <2>6. ASSUME NEW p \in Patches, NEW k \in SignalType, NEW s \in {"ACKNOWLEDGED", "RESOLVED"},
               PatchReads(p, k, s)
        PROVE  EvaluationsSound' /\ SignalsSettle'
    <3>1. /\ UNCHANGED <<signal, evaluation, settled>>
          /\ patch' = [patch EXCEPT ![p] = {<<k, s>>}] /\ <<k, s>> \in SignalType \X SignalStatus
      BY <2>6 DEF PatchReads, SignalStatus
    <3>2. QED
      BY <1>0, <3>1 DEF EvaluationsSound, SignalsSettle
  <2>7. ASSUME NEW p \in Patches, patchSignal(p)
        PROVE  EvaluationsSound' /\ SignalsSettle'
    <3>1. evaluation \in [Evaluations -> SUBSET EvaluationRecords]
      BY <1>0 DEF EvaluationsSound
    <3>2. PICK x \in patch[p] :
              /\ signal' = [signal EXCEPT ![x[1]] = x[2]] /\ patch' = [patch EXCEPT ![p] = {}]
              /\ evaluation' = Disturb(evaluation) /\ settled' = {}
      BY <2>7 DEF patchSignal
    <3>3. x[1] \in SignalType /\ x[2] \in SignalStatus
      BY <1>0 DEF EvaluationsSound
    <3>4. QED
      BY <1>0, <3>1, <3>2, <3>3, Disturbed DEF EvaluationsSound, SignalsSettle
  <2>8. QED
    BY <2>1, <2>3, <2>4, <2>5, <2>6, <2>7
    DEF SignalsNext, signalVars, Tick, CaseEvent, CaseChanges
<1>3. QED
  BY <1>1, <1>2 DEF SignalsInv

\* The inductive invariant holds in every behaviour.
LEMMA SignalsInvHolds == SignalsSpec => []SignalsInv
<1>1. SignalsInit => SignalsInv
  <2> SUFFICES ASSUME SignalsInit PROVE SignalsInv
    OBVIOUS
  <2>1. CaseShape
    <3>1. PICK u \in Urgencies, o \in BOOLEAN, d \in {{}, {0}}, n \in OpenedMicros :
              case = [urgency |-> u, open |-> o, owned |-> FALSE, others |-> 0,
                      answered |-> {}, resolved |-> d, micros |-> n]
      BY DEF SignalsInit
    <3>2. QED
      BY <3>1, SignalsAssumption DEF SignalsInit, CaseShape
  <2>2. QED
    BY <2>1 DEF SignalsInit, SignalsInv, EvaluationsSound, SignalsSettle, SignalStatus
<1>2. SignalsInv /\ [SignalsNext]_signalVars => SignalsInv'
  BY SignalsStep
<1>3. QED
  BY <1>1, <1>2, PTL DEF SignalsSpec

\* The SLA that lists are filtered by (liveSlaStateSql) is the one a ticket shows
\* (computeSupportSla), or showed one millisecond earlier if it was opened between
\* two, whatever the instants are.
THEOREM SlaShownIsSlaFiltered == SignalsSpec => []SlaViewsAgree
<1>1. SignalsInv => SlaViewsAgree
  BY SlaViews DEF SignalsInv
<1>2. QED
  BY <1>1, SignalsInvHolds, PTL

\* After an evaluation nobody disturbed, the signals standing are those it
\* wanted (applyDesires), for any number of evaluations and changes in flight.
THEOREM SignalsStandAsWanted == SignalsSpec => []SignalsSettle
<1>1. SignalsInv => SignalsSettle
  BY DEF SignalsInv
<1>2. QED
  BY <1>1, SignalsInvHolds, PTL

----------------------------------------------------------------------------
(* The support desk: rows of tickets *)

\* A row as ClosedThreadMatches wants it.
RowSound(row) ==
    /\ row \in StaysSupportTicket /\ row.status # "NONE"
    /\ (row.status = "CLOSED") <=> row.closedAt
    /\ ~row.closedAt => row.thread # "ARCHIVED"

\* row may follow old: the report of a ticket and the agent noted for its survey
\* are never replaced.
RowFollows(old, row) ==
    /\ old.status # "NONE" => row.report = old.report
    /\ old.reviewAgent # Nobody => row.reviewAgent = old.reviewAgent

\* A write of the ticket brings no thread of a closed ticket back.
ThreadFollows(old, row) ==
    row.closedAt /\ row.thread = "ACTIVE" => old.status # "NONE" /\ old.closedAt /\ old.thread = "ACTIVE"

\* Whether a participant has brought the thread of t back is noted with its row.
ThreadNoted(t, row) ==
    /\ broughtBack' \subseteq Tickets
    /\ row.closedAt /\ row.thread = "ACTIVE" => t \in broughtBack'
    /\ ~row.closedAt => t \notin broughtBack'
    /\ \A u \in Tickets : u # t => (u \in broughtBack' <=> u \in broughtBack)

\* The rows of existing tickets are sound; those of others are empty of an agent.
LEMMA RowsAreSound ==
    ASSUME DeskInv, NEW t \in Tickets
    PROVE  /\ ticket[t] \in StaysSupportTicket
           /\ Exists(t) => RowSound(ticket[t])
           /\ ~Exists(t) => ticket[t].reviewAgent = Nobody
BY DEF DeskInv, DeskTypeOK, ClosedThreadMatches, SurveysSound, RowSound, Exists

\* A new ticket has a sound row.
LEMMA NewTicketSound ==
    ASSUME NEW r \in Reports \cup {Nobody}, NEW p \in TicketPriority
    PROVE  /\ RowSound(NewTicket(r, p)) /\ NewTicket(r, p).report = r
           /\ NewTicket(r, p).priority = p /\ ~NewTicket(r, p).closedAt
BY DEF NewTicket, NoTicket, RowSound, StaysSupportTicket, TicketStatus, TicketPriority, Staff

\* What the writes of an existing ticket save.
LEMMA PatchedRow ==
    ASSUME NEW o, RowSound(o), NEW s \in TicketStatus, NEW p \in TicketPriority,
           NEW x \in Staff \cup {Nobody}, NEW row,
           row = [o EXCEPT !.status = s, !.priority = p, !.assigned = x],
           o.status = "CLOSED" => s = "CLOSED"
    PROVE  /\ RowSound(PatchedStatus(row, row.status))
           /\ RowFollows(o, PatchedStatus(row, row.status))
           /\ ThreadFollows(o, PatchedStatus(row, row.status))
<1>0. o \in StaysSupportTicket
  BY DEF RowSound
<1>1. /\ row \in StaysSupportTicket /\ row.status = s /\ row.priority = p /\ row.assigned = x
      /\ row.closedAt = o.closedAt /\ row.thread = o.thread /\ row.report = o.report
      /\ row.reviewAgent = o.reviewAgent
  BY <1>0 DEF StaysSupportTicket
<1>2. CASE s # "CLOSED"
  <2>1. PICK q : q = [row EXCEPT !.status = s]
    OBVIOUS
  <2>2. /\ q \in StaysSupportTicket /\ q.status = s /\ q.closedAt = o.closedAt
        /\ q.thread = o.thread /\ q.report = o.report /\ q.reviewAgent = o.reviewAgent
    BY <1>1, <2>1 DEF StaysSupportTicket
  <2>3. PatchedStatus(row, row.status) = q
    BY <1>1, <1>2, <2>1 DEF PatchedStatus
  <2>4. QED
    BY <1>2, <2>2, <2>3 DEF RowSound, RowFollows, ThreadFollows, TicketStatus
<1>3. CASE s = "CLOSED" /\ o.closedAt
  <2>1. PICK q : q = [row EXCEPT !.status = "CLOSED"]
    OBVIOUS
  <2>2. /\ q \in StaysSupportTicket /\ q.status = "CLOSED" /\ q.closedAt = o.closedAt
        /\ q.thread = o.thread /\ q.report = o.report /\ q.reviewAgent = o.reviewAgent
    BY <1>1, <2>1 DEF StaysSupportTicket, TicketStatus
  <2>3. PatchedStatus(row, row.status) = q
    BY <1>1, <1>3, <2>1 DEF PatchedStatus, Close
  <2>4. QED
    BY <1>3, <2>2, <2>3 DEF RowSound, RowFollows, ThreadFollows
<1>4. CASE s = "CLOSED" /\ ~o.closedAt
  <2>0. PICK g \in Staff \cup {Nobody} : g = IF row.reviewAgent = Nobody THEN row.assigned ELSE row.reviewAgent
    BY <1>1 DEF StaysSupportTicket
  <2>1. PICK q : q = [row EXCEPT !.status = "CLOSED", !.closedAt = TRUE, !.thread = "ARCHIVED",
                                 !.reviewAgent = g]
    OBVIOUS
  <2>2. /\ q \in StaysSupportTicket /\ q.status = "CLOSED" /\ q.closedAt
        /\ q.thread = "ARCHIVED" /\ q.report = o.report /\ q.reviewAgent = g
    BY <1>1, <2>1 DEF StaysSupportTicket, TicketStatus
  <2>3. PatchedStatus(row, row.status) = q
    BY <1>1, <1>4, <2>0, <2>1 DEF PatchedStatus, Close
  <2>4. QED
    BY <1>1, <1>4, <2>0, <2>2, <2>3 DEF RowSound, RowFollows, ThreadFollows
<1>5. QED
  BY <1>2, <1>3, <1>4

\* A step that writes a sound row which may follow the one it replaces.
RowWritten(t, row) ==
    /\ RowSound(row) /\ RowFollows(ticket[t], row) /\ ThreadNoted(t, row)
    /\ ticket' = [ticket EXCEPT ![t] = row] /\ Held(t, row)

WritesRow(t) == \E row : RowWritten(t, row)

\* UpdateTicket notes a thread as it should.
LEMMA UpdateWrites ==
    ASSUME DeskInv, NEW t \in Tickets, NEW row, RowSound(row), RowFollows(ticket[t], row),
           ThreadFollows(ticket[t], row), UpdateTicket(t, row)
    PROVE  RowWritten(t, row)
<1>1. broughtBack \subseteq Tickets /\ row.closedAt \in BOOLEAN
  BY DEF DeskInv, DeskTypeOK, RowSound, StaysSupportTicket
<1>2. broughtBack' = IF row.closedAt THEN broughtBack ELSE broughtBack \ {t}
  BY DEF UpdateTicket
<1>3. row.closedAt /\ row.thread = "ACTIVE" => t \in broughtBack
  BY DEF ThreadFollows, DeskInv, ClosedThreadMatches, Exists
<1>4. ThreadNoted(t, row)
  BY <1>1, <1>2, <1>3 DEF ThreadNoted
<1>5. QED
  BY <1>4 DEF RowWritten, UpdateTicket

\* Patches, reopenings, messages and blocks each write such a row.
LEMMA PatchWritesRow ==
    ASSUME DeskInv, NEW t \in Tickets, NEW a \in Staff,
           NEW s \in PatchStatus \cup {ticket[t].status}, NEW p \in PatchPriority \cup {ticket[t].priority},
           NEW x \in Staff \cup {Nobody},
           patchForAdmin(t, a, [ticket[t] EXCEPT !.status = s, !.priority = p, !.assigned = x])
    PROVE  Exists(t) /\ WritesRow(t)
<1>1. PICK o, row : o = ticket[t] /\ row = [o EXCEPT !.status = s, !.priority = p, !.assigned = x]
  OBVIOUS
<1>2. patchForAdmin(t, a, row)
  BY <1>1
<1>3. Exists(t) /\ (o.status = "CLOSED" => row.status = "CLOSED") /\ UpdateTicket(t, PatchedStatus(row, row.status))
  BY <1>1, <1>2 DEF patchForAdmin, SaveTicket
<1>4. RowSound(o) /\ o \in StaysSupportTicket
  BY <1>1, <1>3, RowsAreSound
<1>5. row.status = s
  BY <1>1, <1>4 DEF StaysSupportTicket
<1>6. s \in TicketStatus /\ p \in TicketPriority
  BY <1>1, <1>4, DeskAssumption DEF RowSound, StaysSupportTicket, TicketStatus, TicketPriority
<1>7. /\ RowSound(PatchedStatus(row, row.status)) /\ RowFollows(o, PatchedStatus(row, row.status))
      /\ ThreadFollows(o, PatchedStatus(row, row.status))
  <2>1. row = [o EXCEPT !.status = s, !.priority = p, !.assigned = x] /\ (o.status = "CLOSED" => s = "CLOSED")
    BY <1>1, <1>3, <1>5
  <2>2. QED
    BY <1>4, <1>6, <2>1, PatchedRow, Zenon
<1>8. QED
  BY <1>1, <1>3, <1>7, UpdateWrites DEF WritesRow

\* Reopening takes the closing date back and makes the thread active.
LEMMA ReopenWritesRow ==
    ASSUME DeskInv, NEW t \in Tickets, reopenForAdmin(t)
    PROVE  Exists(t) /\ WritesRow(t)
<1>1. PICK o : o = ticket[t]
  OBVIOUS
<1>2. Exists(t) /\ o.status = "CLOSED"
  BY <1>1 DEF reopenForAdmin, Exists
<1>3. RowSound(o) /\ o \in StaysSupportTicket
  BY <1>1, <1>2, RowsAreSound
<1>4. PICK s \in {"OPEN", "IN_PROGRESS"} : s = IF o.assigned = Nobody THEN "OPEN" ELSE "IN_PROGRESS"
  OBVIOUS
<1>5. PICK row : row = [o EXCEPT !.status = s, !.closedAt = FALSE, !.thread = "ACTIVE"]
  OBVIOUS
<1>6. UpdateTicket(t, row)
  BY <1>1, <1>4, <1>5 DEF reopenForAdmin, SaveTicket
<1>7. /\ row \in StaysSupportTicket /\ row.status = s /\ row.closedAt = FALSE
      /\ row.thread = "ACTIVE" /\ row.report = o.report /\ row.reviewAgent = o.reviewAgent
  BY <1>3, <1>5 DEF StaysSupportTicket, TicketStatus
<1>8. RowSound(row) /\ RowFollows(o, row) /\ ThreadFollows(o, row)
  BY <1>4, <1>7 DEF RowSound, RowFollows, ThreadFollows
<1>9. QED
  BY <1>1, <1>2, <1>6, <1>8, UpdateWrites DEF WritesRow

\* A message changes at most who is assigned and, short of closing, the status.
LEMMA OpenRowWritten ==
    ASSUME DeskInv, NEW t \in Tickets, Exists(t), ticket[t].status # "CLOSED",
           NEW s \in TicketStatus \ {"CLOSED"}, NEW x \in Staff \cup {Nobody}, NEW row,
           row = [ticket[t] EXCEPT !.assigned = x, !.status = s] \/ (x = ticket[t].assigned /\ row = [ticket[t] EXCEPT !.status = s]),
           UpdateTicket(t, row)
    PROVE  WritesRow(t)
<1>1. PICK o : o = ticket[t]
  OBVIOUS
<1>2. RowSound(o) /\ o \in StaysSupportTicket
  BY <1>1, RowsAreSound
<1>3. /\ row \in StaysSupportTicket /\ row.status = s /\ row.closedAt = o.closedAt
      /\ row.thread = o.thread /\ row.report = o.report /\ row.reviewAgent = o.reviewAgent
  BY <1>1, <1>2 DEF StaysSupportTicket
<1>4. RowSound(row) /\ RowFollows(o, row) /\ ThreadFollows(o, row)
  BY <1>1, <1>2, <1>3 DEF RowSound, RowFollows, ThreadFollows, TicketStatus
<1>5. QED
  BY <1>1, <1>4, UpdateWrites DEF WritesRow

\* Staff and customers write to tickets that are not closed, and close none.
LEMMA MessageWritesRow ==
    ASSUME DeskInv, NEW t \in Tickets,
           CustomerMessage(t) \/ \E a \in Staff : sendAdminMessage(t, a)
    PROVE  Exists(t) /\ WritesRow(t)
<1>1. Exists(t) /\ ticket[t].status # "CLOSED"
  BY DEF CustomerMessage, sendAdminMessage
<1>2. ticket[t].status \in TicketStatus \ {"CLOSED"} /\ ticket[t].assigned \in Staff \cup {Nobody}
  BY <1>1, RowsAreSound DEF StaysSupportTicket, Exists
<1>3. CASE CustomerMessage(t)
  <2>1. PICK s : s = nextStatusAfterCustomerMessage(t)
    OBVIOUS
  <2>2. s \in TicketStatus \ {"CLOSED"}
    BY <1>2, <2>1 DEF nextStatusAfterCustomerMessage, TicketStatus
  <2>3. UpdateTicket(t, [ticket[t] EXCEPT !.status = s])
    BY <1>3, <2>1 DEF CustomerMessage, SaveTicket
  <2>4. QED
    BY <1>1, <1>2, <2>2, <2>3, OpenRowWritten
<1>4. ASSUME NEW a \in Staff, sendAdminMessage(t, a) PROVE WritesRow(t)
  <2>1. PICK x, s : /\ x = IF ticket[t].assigned = Nobody THEN a ELSE ticket[t].assigned
                    /\ s = IF ticket[t].status \in {"OPEN", "WAITING_FOR_CUSTOMER"} THEN "IN_PROGRESS"
                           ELSE ticket[t].status
    OBVIOUS
  <2>2. s \in TicketStatus \ {"CLOSED"} /\ x \in Staff \cup {Nobody}
    BY <1>2, <2>1 DEF TicketStatus
  <2>3. UpdateTicket(t, [ticket[t] EXCEPT !.assigned = x, !.status = s])
    <3>1. [ticket[t] EXCEPT !.assigned = IF @ = Nobody THEN a ELSE @,
                            !.status = IF @ \in {"OPEN", "WAITING_FOR_CUSTOMER"} THEN "IN_PROGRESS" ELSE @]
          = [ticket[t] EXCEPT !.assigned = x, !.status = s]
      BY <2>1, RowsAreSound DEF StaysSupportTicket
    <3>2. QED
      BY <1>4, <3>1 DEF sendAdminMessage, SaveTicket
  <2>4. QED
    BY <1>1, <1>2, <2>2, <2>3, OpenRowWritten
<1>5. QED
  BY <1>1, <1>3, <1>4

\* A block locks the thread and a reopening by a participant makes it active;
\* both leave the rest of the row, and the latter is noted for a closed ticket.
LEMMA ThreadWritesRow ==
    ASSUME DeskInv, NEW t \in Tickets, BlockThread(t) \/ reopenConversation(t)
    PROVE  Exists(t) /\ WritesRow(t)
<1>1. PICK o, s, row : /\ o = ticket[t] /\ row = [o EXCEPT !.thread = s]
                       /\ \/ s = "LOCKED" /\ BlockThread(t)
                          \/ s = "ACTIVE" /\ reopenConversation(t)
  OBVIOUS
<1>2. Exists(t) /\ ticket' = [ticket EXCEPT ![t] = row] /\ held' = held
  BY <1>1 DEF BlockThread, reopenConversation
<1>3. RowSound(o) /\ o \in StaysSupportTicket
  BY <1>1, <1>2, RowsAreSound
<1>4. /\ row \in StaysSupportTicket /\ row.status = o.status /\ row.closedAt = o.closedAt
      /\ row.assigned = o.assigned
      /\ row.thread = s /\ row.report = o.report /\ row.reviewAgent = o.reviewAgent
  BY <1>1, <1>3 DEF StaysSupportTicket
<1>5. held \in [Tickets -> Agents \cup {Nobody}] /\ broughtBack \subseteq Tickets
  BY DEF DeskInv, DeskTypeOK
<1>6. held[t] # Nobody => o.assigned = held[t] /\ o.status \in OPEN_TICKET_STATUSES
  BY <1>1 DEF DeskInv, RoutingSound
<1>7. Held(t, row)
  BY <1>2, <1>4, <1>5, <1>6 DEF Held
<1>8. ThreadNoted(t, row)
  <2>1. ~o.closedAt => t \notin broughtBack
    BY <1>1, <1>2 DEF DeskInv, ClosedThreadMatches
  <2>2. CASE s = "LOCKED" /\ BlockThread(t)
    BY <1>4, <1>5, <2>1, <2>2 DEF BlockThread, ThreadNoted
  <2>3. CASE s = "ACTIVE" /\ reopenConversation(t)
    <3>1. broughtBack' = IF o.closedAt THEN broughtBack \cup {t} ELSE broughtBack
      BY <1>1, <2>3 DEF reopenConversation
    <3>2. QED
      BY <1>4, <1>5, <2>1, <3>1 DEF ThreadNoted
  <2>4. QED
    BY <1>1, <2>2, <2>3
<1>9. RowSound(row) /\ RowFollows(o, row)
  BY <1>1, <1>3, <1>4 DEF RowSound, RowFollows
<1>10. QED
  BY <1>1, <1>2, <1>7, <1>8, <1>9 DEF WritesRow, RowWritten

\* What a row write keeps, about all tickets.
LEMMA RowWriteKeeps ==
    ASSUME DeskInv, NEW t \in Tickets, NEW row, RowSound(row), RowFollows(ticket[t], row),
           ticket' = [ticket EXCEPT ![t] = row]
    PROVE  /\ ticket' \in [Tickets -> StaysSupportTicket]
           /\ ThreadNoted(t, row) => ClosedThreadMatches' /\ broughtBack' \subseteq Tickets
           /\ Exists(t)' /\ ticket'[t] = row
           /\ \A u \in Tickets : u # t => ticket'[u] = ticket[u]
           /\ \A u \in Tickets : Exists(u) => Exists(u)' /\ ticket'[u].report = ticket[u].report
           /\ \A u \in Tickets : ~Exists(u)' => ticket'[u].reviewAgent = Nobody
           /\ \A u \in Tickets : ticket[u].reviewAgent \in {ticket'[u].reviewAgent, Nobody}
<1>1. ticket \in [Tickets -> StaysSupportTicket] /\ row \in StaysSupportTicket
  BY DEF DeskInv, DeskTypeOK, RowSound
<1>2. ticket' \in [Tickets -> StaysSupportTicket] /\ ticket'[t] = row /\ \A u \in Tickets : u # t => ticket'[u] = ticket[u]
  BY <1>1
<1>3. ThreadNoted(t, row) => ClosedThreadMatches' /\ broughtBack' \subseteq Tickets
  BY <1>2 DEF DeskInv, ClosedThreadMatches, RowSound, ThreadNoted, Exists
<1>4. \A u \in Tickets : Exists(u) => Exists(u)' /\ ticket'[u].report = ticket[u].report
  BY <1>2 DEF RowSound, RowFollows, Exists
<1>5. \A u \in Tickets : ~Exists(u)' => ticket'[u].reviewAgent = Nobody
  BY <1>2 DEF RowSound, Exists, DeskInv, SurveysSound
<1>6. \A u \in Tickets : ticket[u].reviewAgent \in {ticket'[u].reviewAgent, Nobody}
  BY <1>2 DEF RowFollows
<1>7. QED
  BY <1>2, <1>3, <1>4, <1>5, <1>6 DEF RowSound, Exists

\* Surveys stay sound over such a write.
LEMMA SurveysKept ==
    ASSUME DeskInv, UNCHANGED <<survey, csat>>,
           \A u \in Tickets : ~Exists(u)' => ticket'[u].reviewAgent = Nobody,
           \A u \in Tickets : ticket[u].reviewAgent \in {ticket'[u].reviewAgent, Nobody}
    PROVE  SurveysSound'
<1>1. /\ csat \in [Tickets -> SUBSET (Staff \cup {Nobody})]
      /\ survey \in [Callers -> SUBSET (Tickets \X (Staff \cup {Nobody}))]
  BY DEF DeskInv, DeskTypeOK
<1>2. \A p \in Callers : \A x \in survey'[p] : x[2] \in {ticket'[x[1]].reviewAgent, Nobody}
  BY <1>1 DEF DeskInv, SurveysSound
<1>3. CsatRatesReviewAgent'
  BY <1>1 DEF DeskInv, SurveysSound, CsatRatesReviewAgent
<1>4. QED
  BY <1>2, <1>3 DEF SurveysSound

\* Reports stay sound while no ticket is opened.
LEMMA ReportsKept ==
    ASSUME DeskInv, UNCHANGED <<report, review>>,
           \A u \in Tickets : /\ Exists(u)' <=> Exists(u)
                              /\ Exists(u) => ticket'[u].report = ticket[u].report
    PROVE  ReportsSound'
<1>1. \A r : TicketsOf(r)' = TicketsOf(r)
  BY DEF TicketsOf
<1>2. QED
  BY <1>1 DEF DeskInv, ReportsSound

\* The tickets an agent holds are a finite set; a subset of it is no larger.
LEMMA HoldingsFinite ==
    ASSUME NEW S \in SUBSET Tickets, NEW U \in SUBSET S
    PROVE  /\ IsFiniteSet(S) /\ IsFiniteSet(U)
           /\ Cardinality(U) \in Nat /\ Cardinality(S) \in Nat
           /\ Cardinality(U) <= Cardinality(S)
<1>1. IsFiniteSet(Tickets)
  BY DeskAssumption
<1>2. IsFiniteSet(S) /\ IsFiniteSet(U)
  BY <1>1, FS_Subset
<1>3. QED
  BY <1>2, FS_Subset, FS_CardinalityType

\* While tickets only leave the agents, no agent holds more.
LEMMA HeldShrinks ==
    ASSUME DeskInv, \A u \in Tickets : held'[u] \in {held[u], Nobody}, NEW a \in Agents
    PROVE  /\ Cardinality({u \in Tickets : held'[u] = a}) \in Nat
           /\ Cardinality({u \in Tickets : held[u] = a}) \in Nat
           /\ Cardinality({u \in Tickets : held'[u] = a}) <= Cardinality({u \in Tickets : held[u] = a})
<1>1. PICK S, U : S = {u \in Tickets : held[u] = a} /\ U = {u \in Tickets : held'[u] = a}
  OBVIOUS
<1>2. a # Nobody
  BY DeskAssumption
<1>3. S \in SUBSET Tickets /\ U \in SUBSET S
  BY <1>1, <1>2
<1>4. QED
  BY <1>1, <1>3, HoldingsFinite

\* A write of a row that no routing transaction is about to change.
LEMMA RoutingKept ==
    ASSUME DeskInv, NEW t \in Tickets, NEW row, row \in StaysSupportTicket,
           ticket' = [ticket EXCEPT ![t] = row], Held(t, row), routing' = routing
    PROVE  RoutingSound' /\ held' \in [Tickets -> Agents \cup {Nobody}]
<1>1. /\ ticket \in [Tickets -> StaysSupportTicket] /\ held \in [Tickets -> Agents \cup {Nobody}]
      /\ routing \in [Tickets -> SUBSET [Agents -> Nat]]
  BY DEF DeskInv, DeskTypeOK
<1>2. /\ ticket' = [ticket EXCEPT ![t] = row] 
      /\ held' = [held EXCEPT ![t] = IF row.status \in OPEN_TICKET_STATUSES /\ row.assigned = held[t]
                                THEN held[t] ELSE Nobody]
  BY DEF Held
<1>3. held' \in [Tickets -> Agents \cup {Nobody}] /\ \A u \in Tickets : held'[u] \in {held[u], Nobody}
  BY <1>1, <1>2
<1>4. \A u \in Tickets : held'[u] # Nobody =>
         ticket'[u].assigned = held'[u] /\ ticket'[u].status \in OPEN_TICKET_STATUSES
  BY <1>1, <1>2 DEF DeskInv, RoutingSound
<1>5. ASSUME NEW a \in Agents
      PROVE  /\ Cardinality({u \in Tickets : held'[u] = a}) <= MaxActive
             /\ \A u \in Tickets : \A load \in routing[u] : Cardinality({w \in Tickets : held'[w] = a}) <= load[a]
  <2>1. PICK m, n : m = Cardinality({u \in Tickets : held[u] = a}) /\ n = Cardinality({u \in Tickets : held'[u] = a})
    OBVIOUS
  <2>2. m \in Nat /\ n \in Nat /\ n <= m
    BY <1>3, <2>1, HeldShrinks
  <2>3. m <= MaxActive
    BY <2>1 DEF DeskInv, RoutingSound, AutoLoadBounded
  <2>4. \A u \in Tickets : \A load \in routing[u] : m <= load[a] /\ load[a] \in Nat
    BY <1>1, <2>1 DEF DeskInv, RoutingSound
  <2>5. QED
    <3>1. MaxActive \in Nat
      BY DeskAssumption
    <3>2. n <= MaxActive
      BY <2>2, <2>3, <3>1
    <3>3. \A u \in Tickets : \A load \in routing[u] : n <= load[a]
      BY <2>2, <2>4
    <3>4. QED
      BY <2>1, <3>2, <3>3
<1>6. \A u, w \in Tickets : ~Unlocked(u)' /\ ~Unlocked(w)' => u = w
  BY DEF DeskInv, RoutingSound, Unlocked
<1>7. QED
  BY <1>3, <1>4, <1>5, <1>6 DEF RoutingSound, AutoLoadBounded

\* assignLocked: the workload read counts at least the tickets routed, since a
\* ticket held by an agent is open and assigned to them.
LEMMA AssignReads ==
    ASSUME DeskInv, NEW t \in Tickets, assignLocked(t)
    PROVE  RoutingSound' /\ routing' \in [Tickets -> SUBSET [Agents -> Nat]]
<1>1. /\ held \in [Tickets -> Agents \cup {Nobody}]
      /\ routing \in [Tickets -> SUBSET [Agents -> Nat]]
  BY DEF DeskInv, DeskTypeOK
<1>2. PICK load, n : /\ load = queryAssignedAgentWorkload
                     /\ n = IF ticket[t].assigned # Nobody THEN {} ELSE {load}
  OBVIOUS
<1>3. /\ routing' = [routing EXCEPT ![t] = n] /\ \A u \in Tickets : routing[u] = {}
      /\ UNCHANGED <<ticket, held, broughtBack>>
  BY <1>2 DEF assignLocked, Unlocked
<1>4. ASSUME NEW a \in Agents
      PROVE  load[a] \in Nat /\ Cardinality({u \in Tickets : held[u] = a}) <= load[a]
  <2>1. PICK S, U : /\ U = {u \in Tickets : held[u] = a}
                    /\ S = {u \in Tickets : ticket[u].assigned = a /\ ticket[u].status \in OPEN_TICKET_STATUSES}
    OBVIOUS
  <2>2. a # Nobody
    BY DeskAssumption
  <2>3. S \in SUBSET Tickets /\ U \in SUBSET S
    BY <2>1, <2>2 DEF DeskInv, RoutingSound
  <2>4. load[a] = Cardinality(S)
    BY <1>2, <2>1 DEF queryAssignedAgentWorkload
  <2>5. QED
    BY <2>1, <2>3, <2>4, HoldingsFinite
<1>5. load \in [Agents -> Nat]
  BY <1>2, <1>4 DEF queryAssignedAgentWorkload
<1>6. routing' \in [Tickets -> SUBSET [Agents -> Nat]]
  BY <1>1, <1>2, <1>3, <1>5
<1>7. \A u \in Tickets : \A l \in routing'[u] : l = load /\ u = t
  BY <1>1, <1>2, <1>3
<1>8. \A u, w \in Tickets : ~Unlocked(u)' /\ ~Unlocked(w)' => u = w
  BY <1>6, <1>7 DEF Unlocked
<1>9. \A u \in Tickets : \A l \in routing'[u] : \A a \in Agents :
         Cardinality({w \in Tickets : held'[w] = a}) <= l[a]
  BY <1>3, <1>4, <1>7
<1>10. QED
  BY <1>3, <1>6, <1>8, <1>9 DEF DeskInv, RoutingSound, AutoLoadBounded

\* CommitAssignment: the agent chosen is below the cap by the workload read,
\* which still bounds what they hold; so they hold at most the cap.
LEMMA AssignCommits ==
    ASSUME DeskInv, NEW t \in Tickets, CommitAssignment(t)
    PROVE  /\ RoutingSound' /\ routing' \in [Tickets -> SUBSET [Agents -> Nat]]
           /\ held' \in [Tickets -> Agents \cup {Nobody}]
           /\ \E a \in Agents : ticket' = [ticket EXCEPT ![t].assigned = a]
<1>1. /\ held \in [Tickets -> Agents \cup {Nobody}] /\ ticket \in [Tickets -> StaysSupportTicket]
      /\ routing \in [Tickets -> SUBSET [Agents -> Nat]]
  BY DEF DeskInv, DeskTypeOK
<1>2. PICK load, a :
          /\ load \in routing[t] /\ a \in capacityEligibleAgentIds(load, ticket[t].priority)
          /\ ticket' = [ticket EXCEPT ![t].assigned = a]
          /\ held' = [held EXCEPT ![t] = IF ticket[t].status \in OPEN_TICKET_STATUSES
                                         THEN a ELSE Nobody]
  BY DEF CommitAssignment
<1>3. a \in Agents /\ load[a] < MaxActive /\ load[a] \in Nat
  BY <1>1, <1>2 DEF capacityEligibleAgentIds
<1>4. routing' = [routing EXCEPT ![t] = {}] /\ ~Unlocked(t)
  BY DEF CommitAssignment
<1>5. \A u \in Tickets : routing'[u] = {}
  BY <1>1, <1>4 DEF DeskInv, RoutingSound, Unlocked
<1>6. held' \in [Tickets -> Agents \cup {Nobody}] /\ \A u \in Tickets : u # t => held'[u] = held[u]
  BY <1>1, <1>2, <1>3
<1>7. held'[t] \in {a, Nobody} /\ (held'[t] # Nobody => ticket[t].status \in OPEN_TICKET_STATUSES)
  BY <1>1, <1>2
<1>8. \A u \in Tickets : /\ ticket'[u].status = ticket[u].status
                         /\ u # t => ticket'[u].assigned = ticket[u].assigned
                         /\ ticket'[t].assigned = a
  BY <1>1, <1>2 DEF StaysSupportTicket
<1>9. \A u \in Tickets : held'[u] # Nobody =>
         ticket'[u].assigned = held'[u] /\ ticket'[u].status \in OPEN_TICKET_STATUSES
  BY <1>6, <1>7, <1>8 DEF DeskInv, RoutingSound
<1>10. ASSUME NEW b \in Agents
       PROVE  Cardinality({u \in Tickets : held'[u] = b}) <= MaxActive
  <2>1. PICK S, U : S = {u \in Tickets : held[u] = b} /\ U = {u \in Tickets : held'[u] = b}
    OBVIOUS
  <2>2. S \in SUBSET Tickets /\ U \in SUBSET Tickets /\ IsFiniteSet(S) /\ Cardinality(S) \in Nat
    BY <2>1, HoldingsFinite
  <2>3. Cardinality(S) <= MaxActive
    BY <2>1 DEF DeskInv, RoutingSound, AutoLoadBounded
  <2>4. CASE U \subseteq S
    BY <2>1, <2>2, <2>3, <2>4, HoldingsFinite, DeskAssumption
  <2>5. CASE ~(U \subseteq S)
    <3>1. b = a /\ U \subseteq S \cup {t}
      BY <2>1, <2>5, <1>6, <1>7, DeskAssumption
    <3>2. Cardinality(S) <= load[a]
      BY <1>2, <2>1, <3>1 DEF DeskInv, RoutingSound
    <3>3. IsFiniteSet(S \cup {t}) /\ Cardinality(S \cup {t}) \in Nat /\ Cardinality(S \cup {t}) <= Cardinality(S) + 1
      <4>1. /\ IsFiniteSet(S \cup {t})
            /\ t \in S => S \cup {t} = S
            /\ t \notin S => Cardinality(S \cup {t}) = Cardinality(S) + 1
        BY <2>2, FS_AddElement
      <4>2. QED
        BY <2>2, <4>1
    <3>4. Cardinality(U) <= Cardinality(S \cup {t}) /\ Cardinality(U) \in Nat
      BY <3>1, <3>3, FS_Subset, FS_CardinalityType
    <3>5. QED
      BY <1>3, <2>1, <2>2, <3>2, <3>3, <3>4, DeskAssumption
  <2>6. QED
    BY <2>4, <2>5
<1>11. routing' \in [Tickets -> SUBSET [Agents -> Nat]]
  BY <1>1, <1>4
<1>12. RoutingSound'
  BY <1>5, <1>9, <1>10 DEF RoutingSound, AutoLoadBounded, Unlocked
<1>13. QED
  BY <1>2, <1>3, <1>6, <1>11, <1>12

\* A routing transaction that ends without an agent.
LEMMA AssignGivesUp ==
    ASSUME DeskInv, NEW t \in Tickets, routing' = [routing EXCEPT ![t] = {}], UNCHANGED <<ticket, held, broughtBack>>
    PROVE  RoutingSound' /\ routing' \in [Tickets -> SUBSET [Agents -> Nat]]
<1>1. routing \in [Tickets -> SUBSET [Agents -> Nat]]
  BY DEF DeskInv, DeskTypeOK
<1>2. \A u \in Tickets : routing'[u] \subseteq routing[u]
  BY <1>1
<1>3. QED
  BY <1>1, <1>2 DEF DeskInv, RoutingSound, AutoLoadBounded, Unlocked

\* Reports stay sound when a ticket is opened for a report without one, or is
\* written as before, and only its own report becomes escalated.
LEMMA ReportsFollow ==
    ASSUME DeskInv, NEW t \in Tickets, NEW row, RowSound(row), RowFollows(ticket[t], row),
           ticket' = [ticket EXCEPT ![t] = row],
           ~Exists(t) => TicketsOf(row.report) = {} \/ row.report = Nobody,
           \A r \in Reports : report'[r] = "ESCALATED" => report[r] = "ESCALATED" \/ row.report = r,
           \A r \in Reports : report'[r] = "NONE" => report[r] = "NONE" /\ row.report # r,
           \A v \in Callers : review'[v] \subseteq review[v]
    PROVE  ReportsSound'
<1>1. /\ Exists(t)' /\ ticket'[t] = row
      /\ \A u \in Tickets : u # t => ticket'[u] = ticket[u]
      /\ \A u \in Tickets : Exists(u) => Exists(u)' /\ ticket'[u].report = ticket[u].report
  BY RowWriteKeeps
<1>2. review \in [Callers -> SUBSET [report : Reports, seen : SUBSET (Tickets \X TicketPriority)]]
  BY DEF DeskInv, DeskTypeOK
<1>3. \A r : TicketsOf(r) \subseteq TicketsOf(r)'
  BY <1>1 DEF TicketsOf
<1>4. \A r : \A u \in TicketsOf(r)' : u \in TicketsOf(r) \/ (u = t /\ row.report = r /\ ~Exists(t))
  BY <1>1 DEF TicketsOf, Exists
<1>5. t \in TicketsOf(row.report)'
  BY <1>1 DEF TicketsOf
<1>6. Nobody \notin Reports
  BY DeskAssumption
<1>7. ASSUME NEW r \in Reports
      PROVE  /\ \A u, w \in TicketsOf(r)' : u = w
             /\ report'[r] = "ESCALATED" => TicketsOf(r)' # {}
             /\ report'[r] = "NONE" => TicketsOf(r)' = {}
  <2>1. \A u, w \in TicketsOf(r)' : u = w
    BY <1>4, <1>6 DEF DeskInv, ReportsSound
  <2>2. report'[r] = "ESCALATED" => TicketsOf(r)' # {}
    BY <1>3, <1>5 DEF DeskInv, ReportsSound
  <2>3. report'[r] = "NONE" => TicketsOf(r)' = {}
    BY <1>4 DEF DeskInv, ReportsSound
  <2>4. QED
    BY <2>1, <2>2, <2>3
<1>8. ASSUME NEW v \in Callers, NEW e \in review'[v]
      PROVE  report'[e.report] # "NONE" /\ \A x \in e.seen : x[1] \in TicketsOf(e.report)'
  <2>1. e \in review[v]
    OBVIOUS
  <2>2. e.report \in Reports /\ report[e.report] # "NONE" /\ \A x \in e.seen : x[1] \in TicketsOf(e.report)
    BY <1>2, <2>1 DEF DeskInv, ReportsSound
  <2>3. QED
    BY <1>3, <2>2
<1>9. QED
  BY <1>7, <1>8 DEF ReportsSound

\* A write of an existing ticket that touches nothing else keeps the invariant.
LEMMA RowWriteStep ==
    ASSUME DeskInv, NEW t \in Tickets, Exists(t), WritesRow(t), writes' \in Nat,
           followUp' \in [Tickets -> {"NONE", "ACTIVE", "RESOLVED"}],
           UNCHANGED <<queued, routing, report, review, survey, csat>>
    PROVE  DeskInv'
<1>1. PICK row : RowWritten(t, row)
  BY DEF WritesRow
<1>2. /\ RowSound(row) /\ RowFollows(ticket[t], row) /\ ThreadNoted(t, row) /\ Held(t, row)
      /\ ticket' = [ticket EXCEPT ![t] = row] /\ row \in StaysSupportTicket
  BY <1>1 DEF RowWritten, RowSound
<1>3. /\ ticket' \in [Tickets -> StaysSupportTicket] /\ ClosedThreadMatches'
      /\ broughtBack' \subseteq Tickets
      /\ Exists(t)' /\ ticket'[t] = row
      /\ \A u \in Tickets : u # t => ticket'[u] = ticket[u]
      /\ \A u \in Tickets : Exists(u) => Exists(u)' /\ ticket'[u].report = ticket[u].report
      /\ \A u \in Tickets : ~Exists(u)' => ticket'[u].reviewAgent = Nobody
      /\ \A u \in Tickets : ticket[u].reviewAgent \in {ticket'[u].reviewAgent, Nobody}
  BY <1>2, RowWriteKeeps
<1>4. SurveysSound'
  BY <1>3, SurveysKept
<1>5. \A u \in Tickets : Exists(u)' <=> Exists(u)
  BY <1>3 DEF Exists
<1>6. ReportsSound'
  BY <1>3, <1>5, ReportsKept
<1>7. RoutingSound' /\ held' \in [Tickets -> Agents \cup {Nobody}]
  BY <1>2, RoutingKept
<1>8. DeskTypeOK'
  BY <1>3, <1>7 DEF DeskInv, DeskTypeOK
<1>9. QED
  BY <1>3, <1>4, <1>6, <1>7, <1>8 DEF DeskInv

\* Staff and customers: patches, reopenings, messages, and threads blocked or reopened.
LEMMA StaffAndCustomerStep ==
    ASSUME DeskInv, NEW t \in Tickets,
           \/ \E a \in Staff : StaffStep(t, a)
           \/ reopenForAdmin(t) \/ CustomerMessage(t) \/ BlockThread(t) \/ reopenConversation(t)
    PROVE  DeskInv'
<1>0. writes \in Nat /\ followUp \in [Tickets -> {"NONE", "ACTIVE", "RESOLVED"}]
  BY DEF DeskInv, DeskTypeOK
<1>1. ASSUME NEW a \in Staff, NEW s \in PatchStatus \cup {ticket[t].status},
             NEW p \in PatchPriority \cup {ticket[t].priority}, NEW x \in Staff \cup {Nobody},
             patchForAdmin(t, a, [ticket[t] EXCEPT !.status = s, !.priority = p, !.assigned = x])
      PROVE  DeskInv'
  <2>1. Exists(t) /\ WritesRow(t)
    BY <1>1, PatchWritesRow
  <2>2. /\ writes' = writes + 1
        /\ UNCHANGED <<queued, routing, report, review, survey, csat, followUp>>
    BY <1>1 DEF patchForAdmin, SaveTicket, Write
  <2>3. QED
    BY <1>0, <2>1, <2>2, RowWriteStep
<1>2. CASE CustomerMessage(t) \/ \E a \in Staff : sendAdminMessage(t, a)
  <2>1. Exists(t) /\ WritesRow(t)
    BY <1>2, MessageWritesRow
  <2>2. /\ writes' = writes + 1
        /\ UNCHANGED <<queued, routing, report, review, survey, csat, followUp>>
    BY <1>2 DEF CustomerMessage, sendAdminMessage, SaveTicket, Write
  <2>3. QED
    BY <1>0, <2>1, <2>2, RowWriteStep
<1>3. CASE reopenForAdmin(t)
  <2>1. Exists(t) /\ WritesRow(t)
    BY <1>3, ReopenWritesRow
  <2>2. /\ writes' = writes + 1 /\ followUp' = [followUp EXCEPT ![t] = resolveActiveFollowUpRequired(@)]
        /\ UNCHANGED <<queued, routing, report, review, survey, csat>>
    BY <1>3 DEF reopenForAdmin, SaveTicket, Write
  <2>3. followUp' \in [Tickets -> {"NONE", "ACTIVE", "RESOLVED"}]
    BY <1>0, <2>2 DEF resolveActiveFollowUpRequired
  <2>4. QED
    BY <1>0, <2>1, <2>2, <2>3, RowWriteStep
<1>4. CASE BlockThread(t) \/ reopenConversation(t)
  <2>1. Exists(t) /\ WritesRow(t)
    BY <1>4, ThreadWritesRow
  <2>2. /\ writes' = writes + 1
        /\ UNCHANGED <<queued, routing, report, review, survey, csat, followUp>>
    BY <1>4 DEF BlockThread, reopenConversation, Write
  <2>3. QED
    BY <1>0, <2>1, <2>2, RowWriteStep
<1>5. QED
  BY <1>1, <1>2, <1>3, <1>4 DEF StaffStep

\* Creation: the ticket is new, and so is its report, if it has one.
LEMMA CreationStep ==
    ASSUME DeskInv, NEW t \in Tickets,
           createTicketForUser(t) \/ \E r \in Reports : provisionReportWithTicket(t, r)
    PROVE  DeskInv'
<1>1. /\ report \in [Reports -> {"NONE", "OPEN", "REVIEWED", "ESCALATED", "DISMISSED"}] 
      /\ Nobody \notin Reports
  BY DeskAssumption DEF DeskInv, DeskTypeOK
<1>2. PICK r \in Reports \cup {Nobody}, p \in TicketPriority :
          /\ InsertTicket(t, NewTicket(r, p))
          /\ \/ r = Nobody /\ report' = report
             \/ r \in Reports /\ report[r] = "NONE" /\ report' = [report EXCEPT ![r] = "OPEN"]
  BY DEF createTicketForUser, provisionReportWithTicket, TicketPriority
<1>3. PICK row : row = NewTicket(r, p)
  OBVIOUS
<1>4. /\ ~Exists(t) /\ UpdateTicket(t, row) /\ queued' = queued \cup {t} /\ writes' = writes + 1
      /\ UNCHANGED <<routing, review, survey, csat, followUp>>
  BY <1>2, <1>3 DEF InsertTicket, SaveTicket, Write
<1>5. RowSound(row) /\ row.report = r /\ row \in StaysSupportTicket
  BY <1>3, NewTicketSound DEF RowSound
<1>6. RowFollows(ticket[t], row)
  BY <1>4, RowsAreSound DEF RowFollows, Exists
<1>7. ticket' = [ticket EXCEPT ![t] = row] /\ ThreadNoted(t, row) /\ Held(t, row)
  <2>1. ThreadFollows(ticket[t], row)
    BY <1>3, NewTicketSound DEF ThreadFollows
  <2>2. QED
    BY <1>4, <1>5, <1>6, <2>1, UpdateWrites DEF RowWritten
<1>8. report' \in [Reports -> {"NONE", "OPEN", "REVIEWED", "ESCALATED", "DISMISSED"}]
  BY <1>1, <1>2
<1>9. ReportsSound'
  <2>1. TicketsOf(row.report) = {} \/ row.report = Nobody
    BY <1>2, <1>5 DEF DeskInv, ReportsSound
  <2>2. \A q \in Reports : /\ report'[q] = "ESCALATED" => report[q] = "ESCALATED"
                           /\ report'[q] = "NONE" => report[q] = "NONE" /\ row.report # q
    BY <1>1, <1>2, <1>5
  <2>3. QED
    BY <1>4, <1>5, <1>6, <1>7, <2>1, <2>2, ReportsFollow
<1>10. /\ ticket' \in [Tickets -> StaysSupportTicket] /\ ClosedThreadMatches'
       /\ broughtBack' \subseteq Tickets
       /\ \A u \in Tickets : ~Exists(u)' => ticket'[u].reviewAgent = Nobody
       /\ \A u \in Tickets : ticket[u].reviewAgent \in {ticket'[u].reviewAgent, Nobody}
  BY <1>5, <1>6, <1>7, RowWriteKeeps
<1>11. SurveysSound'
  BY <1>4, <1>10, SurveysKept
<1>12. RoutingSound' /\ held' \in [Tickets -> Agents \cup {Nobody}]
  BY <1>4, <1>5, <1>7, RoutingKept
<1>13. DeskTypeOK'
  BY <1>4, <1>8, <1>10, <1>12 DEF DeskInv, DeskTypeOK
<1>14. QED
  BY <1>9, <1>10, <1>11, <1>12, <1>13 DEF DeskInv

\* Steps that leave the tickets alone.
LEMMA TicketsUntouched ==
    ASSUME DeskInv, UNCHANGED <<ticket, broughtBack>>
    PROVE  /\ ClosedThreadMatches' /\ \A r : TicketsOf(r)' = TicketsOf(r)
           /\ UNCHANGED <<report, review>> => ReportsSound'
           /\ UNCHANGED <<survey, csat>> => SurveysSound'
           /\ UNCHANGED <<routing, held>> => RoutingSound'
<1>1. \A u : Exists(u)' <=> Exists(u)
  BY DEF Exists
<1>2. ClosedThreadMatches' /\ \A r : TicketsOf(r)' = TicketsOf(r)
  BY <1>1 DEF DeskInv, ClosedThreadMatches, TicketsOf
<1>3. UNCHANGED <<report, review>> => ReportsSound'
  BY <1>2 DEF DeskInv, ReportsSound
<1>4. UNCHANGED <<survey, csat>> => SurveysSound'
  BY <1>1 DEF DeskInv, SurveysSound, CsatRatesReviewAgent
<1>5. UNCHANGED <<routing, held>> => RoutingSound'
  BY DEF DeskInv, RoutingSound, AutoLoadBounded, Unlocked
<1>6. QED
  BY <1>2, <1>3, <1>4, <1>5

\* The routing transaction of a ticket, and its loss.
LEMMA RoutingStepKeeps ==
    ASSUME DeskInv, NEW t \in Tickets, RoutingStep(t)
    PROVE  DeskInv'
<1>1. CASE assignLocked(t)
  <2>1. RoutingSound' /\ routing' \in [Tickets -> SUBSET [Agents -> Nat]]
    BY <1>1, AssignReads
  <2>2. /\ queued' = queued \ {t}
        /\ UNCHANGED <<ticket, held, broughtBack, report, review, survey, csat, followUp, writes>>
    BY <1>1 DEF assignLocked
  <2>3. DeskTypeOK'
    BY <2>1, <2>2 DEF DeskInv, DeskTypeOK
  <2>4. QED
    BY <2>1, <2>2, <2>3, TicketsUntouched DEF DeskInv
<1>2. CASE CommitAssignment(t)
  <2>1. /\ RoutingSound' /\ routing' \in [Tickets -> SUBSET [Agents -> Nat]]
        /\ held' \in [Tickets -> Agents \cup {Nobody}]
    BY <1>2, AssignCommits
  <2>2. UNCHANGED <<queued, broughtBack, report, review, survey, csat, followUp, writes>>
    BY <1>2 DEF CommitAssignment
  <2>3. PICK a \in Agents : ticket' = [ticket EXCEPT ![t].assigned = a]
    BY <1>2, AssignCommits
  <2>4. ticket \in [Tickets -> StaysSupportTicket]
    BY DEF DeskInv, DeskTypeOK
  <2>5. /\ ticket' \in [Tickets -> StaysSupportTicket]
        /\ \A u \in Tickets : /\ ticket'[u].status = ticket[u].status
                              /\ ticket'[u].closedAt = ticket[u].closedAt
                              /\ ticket'[u].thread = ticket[u].thread
                              /\ ticket'[u].report = ticket[u].report
                              /\ ticket'[u].reviewAgent = ticket[u].reviewAgent
    BY <2>3, <2>4 DEF StaysSupportTicket, Staff
  <2>6. \A u \in Tickets : Exists(u)' <=> Exists(u)
    BY <2>5 DEF Exists
  <2>7. ClosedThreadMatches'
    BY <2>2, <2>5, <2>6 DEF DeskInv, ClosedThreadMatches
  <2>8. ReportsSound'
    BY <2>2, <2>5, <2>6, ReportsKept
  <2>9. SurveysSound'
    <3>1. \A u \in Tickets : /\ ~Exists(u)' => ticket'[u].reviewAgent = Nobody
                             /\ ticket[u].reviewAgent \in {ticket'[u].reviewAgent, Nobody}
      BY <2>5, <2>6 DEF DeskInv, SurveysSound
    <3>2. QED
      BY <2>2, <3>1, SurveysKept
  <2>10. DeskTypeOK'
    BY <2>1, <2>2, <2>5 DEF DeskInv, DeskTypeOK
  <2>11. QED
    BY <2>1, <2>7, <2>8, <2>9, <2>10 DEF DeskInv
<1>3. CASE GiveUpAssignment(t)
  <2>1. /\ routing' = [routing EXCEPT ![t] = {}]
        /\ UNCHANGED <<ticket, queued, held, broughtBack, report, review, survey, csat, followUp, writes>>
    BY <1>3 DEF GiveUpAssignment
  <2>2. RoutingSound' /\ routing' \in [Tickets -> SUBSET [Agents -> Nat]]
    BY <2>1, AssignGivesUp
  <2>3. DeskTypeOK'
    BY <2>1, <2>2 DEF DeskInv, DeskTypeOK
  <2>4. QED
    BY <2>1, <2>2, <2>3, TicketsUntouched DEF DeskInv
<1>4. CASE RoutingLost(t)
  <2>1. /\ queued' = queued \ {t}
        /\ UNCHANGED <<ticket, routing, held, broughtBack, report, review, survey, csat, followUp, writes>>
    BY <1>4 DEF RoutingLost
  <2>2. DeskTypeOK'
    BY <2>1 DEF DeskInv, DeskTypeOK
  <2>3. QED
    BY <2>1, <2>2, TicketsUntouched DEF DeskInv
<1>5. QED
  BY <1>1, <1>2, <1>3, <1>4 DEF RoutingStep

\* Escalations: what was found stays the ticket of its report until the commit,
\* and ensureTicketForReport opens one only where there is none.
LEMMA EscalateFindKeeps ==
    ASSUME DeskInv, NEW v \in Callers, NEW r \in Reports, EscalateFind(v, r)
    PROVE  DeskInv'
<1>1. PICK e : e = [report |-> r, seen |-> {<<t, ticket[t].priority>> : t \in TicketsOf(r)}]
  OBVIOUS
<1>2. /\ review' = [review EXCEPT ![v] = {e}] /\ report[r] # "NONE" /\ writes' = writes + 1
      /\ UNCHANGED <<ticket, queued, routing, held, broughtBack, report, survey, csat, followUp>>
  BY <1>1 DEF EscalateFind, Write
<1>3. /\ e \in [report : Reports, seen : SUBSET (Tickets \X TicketPriority)] /\ e.report = r
      /\ \A x \in e.seen : x[1] \in TicketsOf(r)
  BY <1>1 DEF TicketsOf, DeskInv, DeskTypeOK, StaysSupportTicket
<1>4. review \in [Callers -> SUBSET [report : Reports, seen : SUBSET (Tickets \X TicketPriority)]]
  BY DEF DeskInv, DeskTypeOK
<1>5. /\ review' \in [Callers -> SUBSET [report : Reports, seen : SUBSET (Tickets \X TicketPriority)]]
      /\ \A w \in Callers : \A d \in review'[w] : d = e \/ d \in review[w]
  BY <1>2, <1>3, <1>4
<1>6. DeskTypeOK'
  BY <1>2, <1>5 DEF DeskInv, DeskTypeOK
<1>7. \A q : TicketsOf(q)' = TicketsOf(q)
  BY <1>2, TicketsUntouched
<1>8. ReportsSound'
  BY <1>2, <1>3, <1>5, <1>7 DEF DeskInv, ReportsSound
<1>9. QED
  BY <1>2, <1>6, <1>8, TicketsUntouched DEF DeskInv

\* The commit raises the priority of that ticket, or opens it, and escalates.
LEMMA EscalateCommitKeeps ==
    ASSUME DeskInv, NEW v \in Callers, EscalateCommit(v)
    PROVE  DeskInv'
<1>1. PICK e \in review[v], t \in Tickets :
        LET found == e.seen # {}
            urgent == IF found THEN <<t, "URGENT">> \in e.seen ELSE ticket[t].priority = "URGENT"
            row == IF Exists(t) THEN ticket[t] ELSE NewTicket(e.report, "HIGH")
        IN  /\ IF found THEN \E x \in e.seen : x[1] = t ELSE EnsureTicket(e.report, t)
            /\ UpdateTicket(t, [row EXCEPT !.priority = IF urgent THEN @ ELSE "HIGH"])
            /\ report' = [report EXCEPT ![e.report] = "ESCALATED"]
            /\ queued' = IF found THEN queued ELSE queued \cup {t}
            /\ review' = [review EXCEPT ![v] = {}]
            /\ UNCHANGED <<routing, survey, csat, followUp, writes>>
  BY DEF EscalateCommit
<1>2. /\ review \in [Callers -> SUBSET [report : Reports, seen : SUBSET (Tickets \X TicketPriority)]]
      /\ report \in [Reports -> {"NONE", "OPEN", "REVIEWED", "ESCALATED", "DISMISSED"}]
  BY DEF DeskInv, DeskTypeOK
<1>3. e.report \in Reports /\ \A x \in e.seen : x[1] \in TicketsOf(e.report)
  BY <1>2 DEF DeskInv, ReportsSound
<1>4. \/ Exists(t) /\ ticket[t].report = e.report
      \/ ~Exists(t) /\ TicketsOf(e.report) = {}
  BY <1>1, <1>3 DEF EnsureTicket, TicketsOf
<1>5. PICK o : o = IF Exists(t) THEN ticket[t] ELSE NewTicket(e.report, "HIGH")
  OBVIOUS
<1>6. RowSound(o) /\ o.report = e.report /\ RowFollows(ticket[t], o)
  BY <1>3, <1>4, <1>5, RowsAreSound, NewTicketSound DEF RowFollows, Exists, TicketPriority
<1>7. o \in StaysSupportTicket
  BY <1>6 DEF RowSound
<1>8. PICK p \in TicketPriority : UpdateTicket(t, [o EXCEPT !.priority = p])
  <2>1. CASE (e.seen # {} /\ <<t, "URGENT">> \in e.seen) \/ (e.seen = {} /\ ticket[t].priority = "URGENT")
    <3>1. UpdateTicket(t, [o EXCEPT !.priority = o.priority])
      BY <1>1, <1>5, <2>1
    <3>2. QED
      BY <1>7, <3>1 DEF StaysSupportTicket
  <2>2. CASE ~((e.seen # {} /\ <<t, "URGENT">> \in e.seen) \/ (e.seen = {} /\ ticket[t].priority = "URGENT"))
    BY <1>1, <1>5, <2>2 DEF TicketPriority
  <2>3. QED
    BY <2>1, <2>2
<1>9. PICK row : row = [o EXCEPT !.priority = p]
  OBVIOUS
<1>10. /\ row \in StaysSupportTicket /\ row.status = o.status /\ row.closedAt = o.closedAt
       /\ row.thread = o.thread /\ row.report = o.report /\ row.reviewAgent = o.reviewAgent
  BY <1>7, <1>9 DEF StaysSupportTicket
<1>11. RowSound(row) /\ RowFollows(ticket[t], row) /\ row.report = e.report
  BY <1>6, <1>10 DEF RowSound, RowFollows
<1>12. ticket' = [ticket EXCEPT ![t] = row] /\ ThreadNoted(t, row) /\ Held(t, row)
  <2>1. ThreadFollows(ticket[t], row)
    BY <1>3, <1>5, <1>10, NewTicketSound DEF ThreadFollows, Exists, TicketPriority
  <2>2. QED
    BY <1>8, <1>9, <1>11, <2>1, UpdateWrites DEF RowWritten
<1>13. /\ report' = [report EXCEPT ![e.report] = "ESCALATED"] /\ review' = [review EXCEPT ![v] = {}]
       /\ queued' \in {queued, queued \cup {t}}
       /\ UNCHANGED <<routing, survey, csat, followUp, writes>>
  BY <1>1
<1>14. ReportsSound'
  <2>1. \A q \in Reports : /\ report'[q] = "ESCALATED" => report[q] = "ESCALATED" \/ row.report = q
                           /\ report'[q] = "NONE" => report[q] = "NONE" /\ row.report # q
    BY <1>2, <1>3, <1>11, <1>13
  <2>2. \A w \in Callers : review'[w] \subseteq review[w]
    BY <1>2, <1>13
  <2>3. ~Exists(t) => TicketsOf(row.report) = {}
    BY <1>4, <1>11
  <2>4. QED
    BY <1>11, <1>12, <2>1, <2>2, <2>3, ReportsFollow
<1>15. /\ ticket' \in [Tickets -> StaysSupportTicket] /\ ClosedThreadMatches'
       /\ broughtBack' \subseteq Tickets
       /\ \A u \in Tickets : ~Exists(u)' => ticket'[u].reviewAgent = Nobody
       /\ \A u \in Tickets : ticket[u].reviewAgent \in {ticket'[u].reviewAgent, Nobody}
  BY <1>11, <1>12, RowWriteKeeps
<1>16. SurveysSound'
  BY <1>13, <1>15, SurveysKept
<1>17. RoutingSound' /\ held' \in [Tickets -> Agents \cup {Nobody}]
  BY <1>10, <1>12, <1>13, RoutingKept
<1>18. review' \in [Callers -> SUBSET [report : Reports, seen : SUBSET (Tickets \X TicketPriority)]]
  BY <1>2, <1>13
<1>19. report' \in [Reports -> {"NONE", "OPEN", "REVIEWED", "ESCALATED", "DISMISSED"}]
  BY <1>2, <1>13
<1>20. DeskTypeOK'
  BY <1>13, <1>15, <1>17, <1>18, <1>19 DEF DeskInv, DeskTypeOK
<1>21. QED
  BY <1>14, <1>15, <1>16, <1>17, <1>20 DEF DeskInv

\* An escalation in all: found, committed or given up.
LEMMA ReviewStepKeeps ==
    ASSUME DeskInv, NEW v \in Callers, ReviewStep(v)
    PROVE  DeskInv'
<1>1. ASSUME EscalateAbort(v) PROVE DeskInv'
  <2>1. /\ review' = [review EXCEPT ![v] = {}]
        /\ UNCHANGED <<ticket, queued, routing, held, broughtBack, report, survey, csat, followUp, writes>>
    BY <1>1 DEF EscalateAbort
  <2>2. review \in [Callers -> SUBSET [report : Reports, seen : SUBSET (Tickets \X TicketPriority)]]
    BY DEF DeskInv, DeskTypeOK
  <2>3. /\ review' \in [Callers -> SUBSET [report : Reports, seen : SUBSET (Tickets \X TicketPriority)]]
        /\ \A w \in Callers : review'[w] \subseteq review[w]
    BY <2>1, <2>2
  <2>4. DeskTypeOK'
    BY <2>1, <2>3 DEF DeskInv, DeskTypeOK
  <2>5. \A q : TicketsOf(q)' = TicketsOf(q)
    BY <2>1, TicketsUntouched
  <2>6. ReportsSound'
    BY <2>1, <2>3, <2>5 DEF DeskInv, ReportsSound
  <2>7. QED
    BY <2>1, <2>4, <2>6, TicketsUntouched DEF DeskInv
<1>2. QED
  BY <1>1, EscalateFindKeeps, EscalateCommitKeeps DEF ReviewStep

\* An admin's verdict on a report neither escalates it nor forgets it.
LEMMA TrustStatusKeeps ==
    ASSUME DeskInv, NEW r \in Reports, NEW s \in TrustStatus, SetTrustStatus(r, s)
    PROVE  DeskInv'
<1>1. /\ report' = [report EXCEPT ![r] = s] /\ report[r] # "NONE" /\ writes' = writes + 1
      /\ UNCHANGED <<ticket, queued, routing, held, broughtBack, review, survey, csat, followUp>>
  BY DEF SetTrustStatus, Write
<1>2. /\ report \in [Reports -> {"NONE", "OPEN", "REVIEWED", "ESCALATED", "DISMISSED"}]
      /\ s \in {"OPEN", "REVIEWED", "DISMISSED"}
      /\ review \in [Callers -> SUBSET [report : Reports, seen : SUBSET (Tickets \X TicketPriority)]]
  BY DeskAssumption DEF DeskInv, DeskTypeOK
<1>3. /\ report' \in [Reports -> {"NONE", "OPEN", "REVIEWED", "ESCALATED", "DISMISSED"}]
      /\ \A q \in Reports : /\ report'[q] = "ESCALATED" => report[q] = "ESCALATED"
                            /\ report'[q] = "NONE" => report[q] = "NONE"
  BY <1>1, <1>2
<1>4. DeskTypeOK'
  BY <1>1, <1>3 DEF DeskInv, DeskTypeOK
<1>5. \A q : TicketsOf(q)' = TicketsOf(q)
  BY <1>1, TicketsUntouched
<1>6. \A w \in Callers : \A e \in review[w] : e.report \in Reports
  BY <1>2
<1>7. ReportsSound'
  BY <1>1, <1>3, <1>5, <1>6 DEF DeskInv, ReportsSound
<1>8. QED
  BY <1>1, <1>4, <1>7, TicketsUntouched DEF DeskInv

\* The survey: what a submission read is what the ticket notes, or nobody.
LEMMA SurveyStepKeeps ==
    ASSUME DeskInv, NEW p \in Callers, SurveyStep(p)
    PROVE  DeskInv'
<1>0. /\ survey \in [Callers -> SUBSET (Tickets \X (Staff \cup {Nobody}))]
      /\ csat \in [Tickets -> SUBSET (Staff \cup {Nobody})]
      /\ followUp \in [Tickets -> {"NONE", "ACTIVE", "RESOLVED"}]
  BY DEF DeskInv, DeskTypeOK
<1>1. ASSUME NEW t \in Tickets, SubmitCsat(p, t) PROVE DeskInv'
  <2>1. /\ survey' = [survey EXCEPT ![p] = {<<t, ticket[t].reviewAgent>>}]
        /\ UNCHANGED <<ticket, queued, routing, held, broughtBack, report, review, csat, followUp, writes>>
    BY <1>1 DEF SubmitCsat
  <2>2. PICK g \in Staff \cup {Nobody} : g = ticket[t].reviewAgent
    BY RowsAreSound DEF StaysSupportTicket
  <2>3. /\ survey' \in [Callers -> SUBSET (Tickets \X (Staff \cup {Nobody}))]
        /\ \A q \in Callers : \A x \in survey'[q] : x = <<t, g>> \/ x \in survey[q]
    BY <1>0, <2>1, <2>2
  <2>4. DeskTypeOK'
    BY <2>1, <2>3 DEF DeskInv, DeskTypeOK
  <2>5. \A q \in Callers : \A x \in survey'[q] : x[2] \in {ticket[x[1]].reviewAgent, Nobody}
    BY <2>2, <2>3 DEF DeskInv, SurveysSound
  <2>6. SurveysSound'
    BY <2>1, <2>5 DEF DeskInv, SurveysSound, CsatRatesReviewAgent, Exists
  <2>7. QED
    BY <2>1, <2>4, <2>6, TicketsUntouched DEF DeskInv
<1>2. ASSUME NEW solved \in BOOLEAN, SaveCsat(p, solved) PROVE DeskInv'
  <2>1. PICK s \in survey[p] :
          IF csat[s[1]] # {} THEN UNCHANGED <<csat, followUp>>
          ELSE /\ csat' = [csat EXCEPT ![s[1]] = {s[2]}]
               /\ followUp' = [followUp EXCEPT ![s[1]] = upsertFollowUpRequired(@, solved)]
    BY <1>2 DEF SaveCsat
  <2>2. /\ survey' = [survey EXCEPT ![p] = {}]
        /\ UNCHANGED <<ticket, queued, routing, held, broughtBack, report, review, writes>>
    BY <1>2 DEF SaveCsat
  <2>3. PICK t \in Tickets, g \in Staff \cup {Nobody} : s = <<t, g>> /\ g \in {ticket[t].reviewAgent, Nobody}
    BY <1>0, <2>1 DEF DeskInv, SurveysSound
  <2>4. /\ csat' \in [Tickets -> SUBSET (Staff \cup {Nobody})]
        /\ \A u \in Tickets : csat'[u] = csat[u] \/ (u = t /\ csat'[u] = {g})
    BY <1>0, <2>1, <2>3
  <2>5. followUp' \in [Tickets -> {"NONE", "ACTIVE", "RESOLVED"}]
    BY <1>0, <2>1, <2>3 DEF upsertFollowUpRequired
  <2>6. /\ survey' \in [Callers -> SUBSET (Tickets \X (Staff \cup {Nobody}))]
        /\ \A q \in Callers : survey'[q] \subseteq survey[q]
    BY <1>0, <2>2
  <2>7. DeskTypeOK'
    BY <2>2, <2>4, <2>5, <2>6 DEF DeskInv, DeskTypeOK
  <2>8. CsatRatesReviewAgent'
    BY <2>2, <2>3, <2>4 DEF DeskInv, SurveysSound, CsatRatesReviewAgent
  <2>9. SurveysSound'
    BY <2>2, <2>6, <2>8 DEF DeskInv, SurveysSound, Exists
  <2>10. QED
    BY <2>2, <2>7, <2>9, TicketsUntouched DEF DeskInv
<1>3. QED
  BY <1>1, <1>2 DEF SurveyStep

\* The inductive invariant of the desk holds in every behaviour.
LEMMA DeskInvHolds == DeskSpec => []DeskInv
<1>1. DeskInit => DeskInv
  <2> SUFFICES ASSUME DeskInit PROVE DeskInv
    OBVIOUS
  <2>1. NoTicket \in StaysSupportTicket /\ NoTicket.status = "NONE" /\ NoTicket.reviewAgent = Nobody
    BY DEF NoTicket, StaysSupportTicket, TicketPriority
  <2>2. DeskTypeOK
    BY <2>1 DEF DeskInit, DeskTypeOK
  <2>3. \A t \in Tickets : ~Exists(t)
    BY <2>1 DEF DeskInit, Exists
  <2>4. \A r : TicketsOf(r) = {}
    BY <2>3 DEF TicketsOf
  <2>5. ClosedThreadMatches /\ ReportsSound /\ SurveysSound
    BY <2>1, <2>3, <2>4 DEF DeskInit, ClosedThreadMatches, ReportsSound, SurveysSound, CsatRatesReviewAgent
  <2>6. ASSUME NEW a \in Agents PROVE Cardinality({t \in Tickets : held[t] = a}) <= MaxActive
    <3>1. {t \in Tickets : held[t] = a} = {}
      BY DeskAssumption DEF DeskInit
    <3>2. QED
      BY <3>1, FS_EmptySet, DeskAssumption
  <2>7. RoutingSound
    BY <2>6 DEF DeskInit, RoutingSound, AutoLoadBounded, Unlocked
  <2>8. QED
    BY <2>2, <2>5, <2>7 DEF DeskInv
<1>2. ASSUME DeskInv, [DeskNext]_deskVars PROVE DeskInv'
  <2>1. CASE UNCHANGED deskVars
    <3>1. UNCHANGED <<ticket, queued, routing, held, broughtBack, report, review, survey, csat, followUp, writes>>
      BY <2>1 DEF deskVars
    <3>2. DeskTypeOK'
      BY <1>2, <3>1 DEF DeskInv, DeskTypeOK
    <3>3. QED
      BY <1>2, <3>1, <3>2, TicketsUntouched DEF DeskInv
  <2>2. ASSUME NEW t \in Tickets, ResolveFollowUp(t) PROVE DeskInv'
    <3>1. /\ followUp' = [followUp EXCEPT ![t] = "RESOLVED"]
          /\ UNCHANGED <<ticket, queued, routing, held, broughtBack, report, review, survey, csat, writes>>
      BY <2>2 DEF ResolveFollowUp
    <3>2. DeskTypeOK'
      BY <1>2, <3>1 DEF DeskInv, DeskTypeOK
    <3>3. QED
      BY <1>2, <3>1, <3>2, TicketsUntouched DEF DeskInv
  <2>3. QED
    BY <1>2, <2>1, <2>2, StaffAndCustomerStep, CreationStep, RoutingStepKeeps, ReviewStepKeeps,
       TrustStatusKeeps, SurveyStepKeeps DEF DeskNext
<1>3. QED
  BY <1>1, <1>2, PTL DEF DeskSpec

\* The tables of the desk keep their types (SupportTicketsService,
\* SupportAssignmentService, CSAT).
THEOREM DeskIsTyped == DeskSpec => []DeskTypeOK
<1>1. DeskInv => DeskTypeOK
  BY DEF DeskInv
<1>2. QED
  BY <1>1, DeskInvHolds, PTL

\* A ticket is closed exactly while it has a closing date, with its thread
\* read-only unless a participant has reopened it (reopenConversation), under
\* patchForAdmin, reopenForAdmin, messages, blocks and escalations.
THEOREM ClosedTicketsMatchThreads == DeskSpec => []ClosedThreadMatches
<1>1. DeskInv => ClosedThreadMatches
  BY DEF DeskInv
<1>2. QED
  BY <1>1, DeskInvHolds, PTL

\* Routing never takes an agent over the cap, for any number of agents, tickets
\* and any cap (assignLocked, under the advisory lock).
THEOREM RoutedLoadIsBounded == DeskSpec => []AutoLoadBounded
<1>1. DeskInv => AutoLoadBounded
  BY DEF DeskInv, RoutingSound
<1>2. QED
  BY <1>1, DeskInvHolds, PTL

\* A report has at most one ticket and an escalated one has it, whoever
\* escalates it together (applyTrustStatus, ensureTicketForReport).
THEOREM ReportsHaveTheirTicket == DeskSpec => []ReportHasItsTicket
<1>1. ASSUME DeskInv PROVE ReportHasItsTicket
  <2>1. ASSUME NEW r \in Reports
        PROVE  Cardinality(TicketsOf(r)) <= 1 /\ (report[r] = "ESCALATED" => TicketsOf(r) # {})
    <3>1. \A t, u \in TicketsOf(r) : t = u
      BY <1>1 DEF DeskInv, ReportsSound
    <3>2. TicketsOf(r) = {} \/ \E t : TicketsOf(r) = {t}
      BY <3>1
    <3>3. Cardinality(TicketsOf(r)) <= 1
      <4>1. \A t : Cardinality({t}) = 1
        BY FS_Singleton
      <4>2. Cardinality({}) = 0
        BY FS_EmptySet
      <4>3. PICK S : S = TicketsOf(r)
        OBVIOUS
      <4>4. CASE S = {}
        BY <4>2, <4>3, <4>4
      <4>5. ASSUME NEW t, S = {t} PROVE Cardinality(S) <= 1
        <5>1. Cardinality(S) = 1
          BY <4>1, <4>5, Zenon
        <5>2. QED
          BY <5>1
      <4>6. QED
        BY <3>2, <4>3, <4>4, <4>5
    <3>4. QED
      BY <1>1, <3>3 DEF DeskInv, ReportsSound
  <2>2. QED
    BY <2>1 DEF ReportHasItsTicket
<1>2. QED
  BY <1>1, DeskInvHolds, PTL

\* A survey rates the agent noted at the close (submitCsatForUser against
\* reopening, reassignment and closing again).
THEOREM SurveysRateNotedAgent == DeskSpec => []CsatRatesReviewAgent
<1>1. DeskInv => CsatRatesReviewAgent
  BY DEF DeskInv, SurveysSound
<1>2. QED
  BY <1>1, DeskInvHolds, PTL

----------------------------------------------------------------------------
(* What the type invariants of the composed run need beyond the invariants  *)
(* above.                                                                   *)

\* The status of the session and the number of removals.
SessionTyped ==
    /\ session \in {"NONE", "CREATED", "UPLOADING", "READY", "COMPLETED", "ABANDONED", "DELETED"}
    /\ removals \in 0..MaxRemovals
    /\ remover \in [Removers -> SUBSET [rows : SUBSET Files, end : {"NONE", "ABANDONED", "DELETED"}]]

LEMMA AttachmentsAreTyped == AttachmentsSpec => []AttachmentsTypeOK
<1>1. AttachmentsInit => SessionTyped
  BY AttachmentsAssumption DEF AttachmentsInit, SessionTyped
<1>2. SessionTyped /\ [AttachmentsNext]_attachmentVars => SessionTyped'
  <2> SUFFICES ASSUME SessionTyped, [AttachmentsNext]_attachmentVars PROVE SessionTyped'
    OBVIOUS
  <2>1. CASE UNCHANGED attachmentVars
    BY <2>1 DEF attachmentVars, SessionTyped
  <2>2. CASE createSession \/ UploadExpires \/ CompleteChecks \/ completeSession
    BY <2>2 DEF createSession, UploadExpires, CompleteChecks, completeSession, SessionTyped
  <2>3. ASSUME NEW f \in Files, UploadChecks(f) \/ UploadMarks(f) \/ InsertFile(f) \/ FinishFile(f)
                                \/ FailFile(f) \/ markAsReportEvidence(f)
        PROVE  SessionTyped'
    BY <2>3 DEF UploadChecks, UploadMarks, InsertFile, FinishFile, FailFile, markAsReportEvidence, SessionTyped
  <2>4. ASSUME NEW m \in Sends, assertSessionReadyForSend(m) \/ (\E f \in Files : assertReadyForSend(m, f))
                                \/ finalizeSession(m) \/ linkToMessage(m) \/ loadForMessages(m) \/ SendFails(m)
        PROVE  SessionTyped'
    BY <2>4 DEF assertSessionReadyForSend, SendsSession, assertReadyForSend, SendsIds, finalizeSession,
                linkToMessage, loadForMessages, SendFails, SessionTyped
  <2>5. ASSUME NEW k \in Removers, NEW rows \in SUBSET Files, NEW e \in {"NONE", "ABANDONED", "DELETED"},
               Removes(k, rows, e)
        PROVE  SessionTyped'
    <3>1. [rows |-> rows, end |-> e] \in [rows : SUBSET Files, end : {"NONE", "ABANDONED", "DELETED"}]
      OBVIOUS
    <3>2. QED
      BY <2>5, <3>1, AttachmentsAssumption DEF Removes, SessionTyped
  <2>6. ASSUME NEW k \in Removers, abandonSession(k) \/ CleanStaleSession(k) \/ CleanOrphans(k)
                                   \/ \E f \in Files : deleteAttachmentFromSession(k, f)
        PROVE  SessionTyped'
    <3>1. Unlinked \subseteq Files
      BY DEF Unlinked
    <3>2. QED
      BY <2>5, <2>6, <3>1 DEF abandonSession, CleanStaleSession, CleanOrphans, deleteAttachmentFromSession
  <2>7. ASSUME NEW k \in Removers, deleteUnlinkedAttachment(k) PROVE SessionTyped'
    <3>1. PICK x \in remover[k] : \E f \in x.rows : remover' = [remover EXCEPT ![k] = {[x EXCEPT !.rows = @ \ {f}]}]
      BY <2>7 DEF deleteUnlinkedAttachment
    <3>2. \A f : [x EXCEPT !.rows = @ \ {f}] \in [rows : SUBSET Files, end : {"NONE", "ABANDONED", "DELETED"}]
      BY DEF SessionTyped
    <3>3. QED
      BY <2>7, <3>1, <3>2 DEF deleteUnlinkedAttachment, SessionTyped
  <2>8. ASSUME NEW k \in Removers, EndRemoval(k) PROVE SessionTyped'
    <3>1. PICK x \in remover[k] :
             /\ session' = IF x.end = "NONE" \/ session = "DELETED" THEN session ELSE x.end
             /\ remover' = [remover EXCEPT ![k] = {}] /\ UNCHANGED removals
      BY <2>8 DEF EndRemoval
    <3>2. QED
      BY <3>1 DEF SessionTyped
  <2>9. QED
    BY <2>1, <2>2, <2>3, <2>4, <2>6, <2>7, <2>8 DEF AttachmentsNext
<1>3. AttachmentsInv /\ SessionTyped => AttachmentsTypeOK
  BY DEF AttachmentsInv, SessionTyped, AttachmentsTypeOK
<1>4. QED
  BY <1>1, <1>2, <1>3, AttachmentsInvHolds, PTL DEF AttachmentsSpec

\* An evaluation under way has one record.
OneRecord ==
    /\ clock \in Instants
    /\ \A e \in Evaluations : evaluation[e] = {} \/ \E x : evaluation[e] = {x}

LEMMA SignalsAreTyped == SignalsSpec => []SignalsTypeOK
<1>1. SignalsInit => OneRecord
  BY SignalsAssumption DEF SignalsInit, OneRecord
<1>2. SignalsInv /\ OneRecord /\ [SignalsNext]_signalVars => OneRecord'
  <2> SUFFICES ASSUME SignalsInv, OneRecord, [SignalsNext]_signalVars PROVE OneRecord'
    OBVIOUS
  <2>1. CASE UNCHANGED signalVars
    BY <2>1 DEF signalVars, OneRecord
  <2>2. ASSUME NEW t \in Instants, Tick(t) PROVE OneRecord'
    BY <2>2 DEF Tick, OneRecord
  <2>3. ASSUME NEW next, CaseChanges(next) PROVE OneRecord'
    BY <2>3 DEF CaseChanges, OneRecord
  <2>4. ASSUME NEW e \in Evaluations, NEW S, S = {} \/ \E x : S = {x},
               evaluation' = [evaluation EXCEPT ![e] = S], UNCHANGED clock
        PROVE  OneRecord'
    <3>1. \A d \in Evaluations : evaluation'[d] \in {evaluation[d], S}
      BY <2>4
    <3>2. QED
      BY <2>4, <3>1 DEF OneRecord
  <2>5. \A d \in Evaluations : Disturb(evaluation)[d] = {} \/ \E x : Disturb(evaluation)[d] = {x}
    <3> SUFFICES ASSUME NEW d \in Evaluations
                 PROVE  Disturb(evaluation)[d] = {} \/ \E x : Disturb(evaluation)[d] = {x}
      OBVIOUS
    <3>1. Disturb(evaluation)[d] = {[x EXCEPT !.calm = FALSE] : x \in evaluation[d]}
      BY DEF Disturb
    <3>2. CASE evaluation[d] = {}
      BY <3>1, <3>2
    <3>3. ASSUME NEW x, evaluation[d] = {x} PROVE Disturb(evaluation)[d] = {[x EXCEPT !.calm = FALSE]}
      BY <3>1, <3>3
    <3>4. QED
      BY <3>2, <3>3 DEF OneRecord
  <2>6. ASSUME NEW e \in Evaluations, evaluateTicket(e) \/ EvaluationFails(e) PROVE OneRecord'
    <3>1. PICK S : /\ S = {} \/ S = {[want |-> Desires(case, clock), rows |-> signal, read |-> FALSE,
                                      retried |-> FALSE, calm |-> TRUE]}
                   /\ evaluation' = [evaluation EXCEPT ![e] = S] /\ UNCHANGED clock
      BY <2>6 DEF evaluateTicket, EvaluationFails
    <3>2. QED
      BY <3>1, <2>4
  <2>7. ASSUME NEW e \in Evaluations, ReadSignals(e) PROVE OneRecord'
    <3>1. PICK x \in evaluation[e] :
             evaluation' = [evaluation EXCEPT ![e] = {[x EXCEPT !.rows = signal, !.read = TRUE]}] /\ UNCHANGED clock
      BY <2>7 DEF ReadSignals
    <3>2. PICK S : S = {[x EXCEPT !.rows = signal, !.read = TRUE]} /\ evaluation' = [evaluation EXCEPT ![e] = S]
      BY <3>1
    <3>3. QED
      BY <3>1, <3>2, <2>4
  <2>8. ASSUME NEW e \in Evaluations, RetryOrGiveUp(e) PROVE OneRecord'
    <3>1. PICK x \in evaluation[e] :
             /\ evaluation' = [evaluation EXCEPT ![e] =
                    IF x.retried THEN {} ELSE {[x EXCEPT !.read = FALSE, !.retried = TRUE]}]
             /\ UNCHANGED clock
      BY <2>8 DEF RetryOrGiveUp
    <3>2. PICK S : /\ S = {} \/ S = {[x EXCEPT !.read = FALSE, !.retried = TRUE]}
                   /\ evaluation' = [evaluation EXCEPT ![e] = S]
      BY <3>1
    <3>3. QED
      BY <3>1, <3>2, <2>4
  <2>9. ASSUME NEW e \in Evaluations, SaveSignals(e) PROVE OneRecord'
    <3>1. evaluation' = [Disturb(evaluation) EXCEPT ![e] = {}] /\ UNCHANGED clock
      BY <2>9 DEF SaveSignals
    <3>2. DOMAIN Disturb(evaluation) = Evaluations
      BY DEF Disturb
    <3>3. \A d \in Evaluations : evaluation'[d] \in {Disturb(evaluation)[d], {}}
      BY <3>1, <3>2
    <3>4. QED
      BY <3>1, <3>3, <2>5 DEF OneRecord
  <2>10. ASSUME NEW p \in Patches, patchSignal(p) \/ (\E k \in SignalType : \E s : PatchReads(p, k, s)) PROVE OneRecord'
    <3>1. evaluation' \in {evaluation, Disturb(evaluation)} /\ UNCHANGED clock
      BY <2>10 DEF patchSignal, PatchReads
    <3>2. QED
      BY <3>1, <2>5 DEF OneRecord
  <2>11. QED
    BY <2>1, <2>2, <2>3, <2>6, <2>7, <2>8, <2>9, <2>10 DEF SignalsNext, CaseEvent
<1>3. SignalsInv /\ OneRecord => SignalsTypeOK
  <2> SUFFICES ASSUME SignalsInv, OneRecord PROVE SignalsTypeOK
    OBVIOUS
  <2>1. Cardinality({}) = 0 /\ \A x : Cardinality({x}) = 1
    BY FS_EmptySet, FS_Singleton
  <2>2. \A e \in Evaluations : Cardinality(evaluation[e]) <= 1
    BY <2>1 DEF OneRecord
  <2>3. QED
    BY <2>2 DEF SignalsInv, EvaluationsSound, SignalStatus, OneRecord, SignalsTypeOK
<1>4. QED
  BY <1>1, <1>2, <1>3, SignalsInvHolds, PTL DEF SignalsSpec

----------------------------------------------------------------------------
(* The composition *)

\* A component that does not run takes no step, and the one that runs only steps
\* of its own: nothing of one part is written by another.
LEMMA SupportStep ==
    [SupportNext]_<<deskVars, signalVars, attachmentVars, phoneVars, part>> =>
        /\ [DeskNext]_deskVars /\ [SignalsNext]_signalVars
        /\ [AttachmentsNext]_attachmentVars /\ [PhoneNext]_phoneVars
BY DEF SupportNext

\* A behaviour of the composition is a behaviour of each component, so that what is
\* proved of them holds of it (SupportTicketsService, OperationalSignalsService,
\* AttachmentsService and the identity service write disjoint tables).
THEOREM SupportComposes == SupportSpec => DeskSpec /\ SignalsSpec /\ AttachmentsSpec /\ PhoneSpec
<1>1. SupportInit => DeskInit /\ SignalsInit /\ AttachmentsInit /\ PhoneInit
  BY DEF SupportInit
<1>2. QED
  BY <1>1, SupportStep, PTL DEF SupportSpec, DeskSpec, SignalsSpec, AttachmentsSpec, PhoneSpec

\* The rows and counters of the composition have their types, whatever entities read
\* earlier are saved and whichever rows they are saved over.
THEOREM SupportTyped == SupportSpec => []SupportTypeOK
<1>1. DeskTypeOK /\ SignalsTypeOK /\ AttachmentsTypeOK /\ PhoneInv => SupportTypeOK
  BY DEF SupportTypeOK, PhoneInv
<1>2. QED
  BY <1>1, SupportComposes, DeskIsTyped, SignalsAreTyped, AttachmentsAreTyped, PhoneInvHolds, PTL
=============================================================================
