---------------------------- MODULE BookingThread ----------------------------
(***************************************************************************)
(* The conversation of one booking: its row in stays_conversations, its    *)
(* messages, and everybody who writes them.  Requests of guest and host    *)
(* (MessagesService, ConversationsService), the jobs that follow the       *)
(* booking (MessagingStateService) and the snapshot repair of the outbox   *)
(* worker all read the row first and write it some awaits later; only      *)
(* insertMessage takes the row lock.                                       *)
(***************************************************************************)
EXTENDS Integers, Sequences, FiniteSets

CONSTANTS
    Requests,       \* requests of guest and host in flight
    Jobs,           \* runs of the jobs that follow the booking, at a time
    Repairers,      \* outbox workers that repair a snapshot
    Ops,            \* operations the requests may be
    Keys,           \* client_message_id values
    NoKey,          \* no client_message_id
    MaxSent,        \* bound on messages sent by guest and host
    MaxActors       \* bound on the actors of a behaviour, repairers included

ASSUME ThreadAssumption ==
    /\ Ops \subseteq {"send", "read", "list", "hide", "block", "reopen"}
    /\ NoKey \notin Keys
    /\ MaxSent \in Nat /\ MaxActors \in Nat
    /\ Requests \cap Jobs = {}

VARIABLES
    booking,        \* status of the booking, written by the booking core
    graceOver,      \* the post-stay grace period has passed
    thread,         \* the row of stays_conversations
    messages,       \* the rows of stays_messages, in the order of insertion
    proc,           \* progress of each request and job
    repair          \* the row each repairer has read, if any

vars == <<booking, graceOver, thread, messages, proc, repair>>

Users == {"guest", "host"}
Other(u) == CHOOSE v \in Users : v # u

\* A job run is syncMessagingStates or the call after a cancellation, the hourly
\* archive job, or what the completion jobs of the booking core do afterwards;
\* runs of one kind overlap on two instances.
Procs == Requests \cup Jobs

MessagingState == {"ACTIVE", "LOCKED", "ARCHIVED"}
ParticipantVisibility == {"ACTIVE", "ARCHIVED", "DELETED"}
MessageStatus == {"PERSISTED", "DELIVERED", "READ"}

\* postStay: post_stay_ends_at is set; last: last_message_sequence; snapOk: the
\* reservation snapshot is complete.
StaysConversation ==
    [state : MessagingState, vis : [Users -> ParticipantVisibility],
     unread : [Users -> Nat], last : Nat, postStay : BOOLEAN, noArchive : BOOLEAN,
     blocked : [Users -> BOOLEAN], snapOk : BOOLEAN]

StaysMessage ==
    [seq : Nat, sender : Users \cup {"system"}, type : {"TEXT", "CARD", "REVIEW_CARD", "SYSTEM_NOTICE"},
     status : MessageStatus, key : Keys \cup {NoKey}]

\* flag: what the step before found or was asked for; grace: post_stay_ends_at
\* as a reopening read it; seen: messages listed.
Idle == [pc |-> "idle", user |-> "guest", key |-> NoKey, value |-> "ACTIVE",
         flag |-> FALSE, grace |-> FALSE, seen |-> {}]
Absent == [Idle EXCEPT !.pc = "absent"]
PCs == {"absent", "idle", "lookup", "insert", "markRead", "deliver", "hide", "block", "reopen",
        "lock", "postStay", "reviewCheck", "enter", "archive", "noticeCheck", "store"}
ProcStates ==
    [pc : PCs, user : Users, key : Keys \cup {NoKey}, value : ParticipantVisibility,
     flag : BOOLEAN, grace : BOOLEAN, seen : SUBSET Nat]

Goto(p, rec) == proc' = [proc EXCEPT ![p] = rec]
Finish(p) == Goto(p, Idle)

----------------------------------------------------------------------------
(* MessagingPermissionsService and TimelineSeederService *)

canSend(u) == thread.state = "ACTIVE" /\ ~thread.blocked[Other(u)]

\* COALESCE(MAX(conversation_sequence), 0)
maxSequence ==
    LET S == {messages[i].seq : i \in DOMAIN messages} \cup {0}
    IN  CHOOSE x \in S : \A y \in S : y <= x

\* Mutant: the counter of the row is trusted.
StoredSeq == thread.last + 1

\* The row may carry an older counter than the messages.
nextSeq == (IF thread.last > maxSequence THEN thread.last ELSE maxSequence) + 1

NewMessage(seq, sender, type, key) ==
    [seq |-> seq, sender |-> sender, type |-> type, status |-> "PERSISTED", key |-> key]

\* insertMessage: what a message of u does to the row.
insertMessage(u) ==
    [thread EXCEPT !.last = nextSeq,
                   !.unread[Other(u)] = thread.unread[Other(u)] + 1]

seedCheckoutComplete ==
    <<NewMessage(nextSeq, "system", "CARD", NoKey),
      NewMessage(nextSeq + 1, "system", "REVIEW_CARD", NoKey)>>

seedConversationArchived == NewMessage(nextSeq, "system", "SYSTEM_NOTICE", NoKey)

----------------------------------------------------------------------------
(* MessagesService *)

\* Permissions are resolved on the row as it is now; nothing is locked.
SendBegin(p, u, k) ==
    /\ "send" \in Ops /\ proc[p].pc = "idle"
    /\ canSend(u)
    /\ Goto(p, [Idle EXCEPT !.pc = "lookup", !.user = u, !.key = k])
    /\ UNCHANGED <<booking, graceOver, thread, messages, repair>>

\* A known client_message_id is answered with the message it made.
SendLookup(p) ==
    LET k == proc[p].key
        known == k # NoKey /\ \E i \in DOMAIN messages : messages[i].key = k
    IN  /\ proc[p].pc = "lookup"
        /\ IF known THEN Finish(p) ELSE Goto(p, [proc[p] EXCEPT !.pc = "insert"])
        /\ UNCHANGED <<booking, graceOver, thread, messages, repair>>

\* The thread comes back into the recipient's inbox.
enqueueDeliveryEvents(row, r) ==
    [row EXCEPT !.vis[r] = IF row.vis[r] = "ARCHIVED" THEN "ACTIVE" ELSE row.vis[r]]

\* The transaction of sendText; the row lock of insertMessage is held to its end.
SendInsert(p) ==
    LET u == proc[p].user
    IN  /\ proc[p].pc = "insert"
        /\ Cardinality({i \in DOMAIN messages : messages[i].sender \in Users}) < MaxSent
        /\ messages' = Append(messages, NewMessage(nextSeq, u, "TEXT", proc[p].key))
        /\ thread' = enqueueDeliveryEvents(insertMessage(u), Other(u))
        /\ Finish(p)
        /\ UNCHANGED <<booking, graceOver, repair>>

MarkReadBegin(p, u) ==
    /\ "read" \in Ops /\ proc[p].pc = "idle"
    /\ Goto(p, [Idle EXCEPT !.pc = "markRead", !.user = u])
    /\ UNCHANGED <<booking, graceOver, thread, messages, repair>>

\* Mutant: only messages that were listed before are marked.
MarkReadDelivered(p) ==
    LET u == proc[p].user
    IN  /\ proc[p].pc = "markRead"
        /\ thread' = [thread EXCEPT !.unread[u] = 0]
        /\ messages' = [i \in DOMAIN messages |->
                          IF messages[i].sender = Other(u) /\ messages[i].status = "DELIVERED"
                          THEN [messages[i] EXCEPT !.status = "READ"] ELSE messages[i]]
        /\ Finish(p)
        /\ UNCHANGED <<booking, graceOver, repair>>

\* The update of the row takes its lock, so no message is inserted between
\* the reset of the counter and the marking of the messages.
MarkRead(p) ==
    LET u == proc[p].user
    IN  /\ proc[p].pc = "markRead"
        /\ thread' = [thread EXCEPT !.unread[u] = 0]
        /\ messages' = [i \in DOMAIN messages |->
                          IF messages[i].sender = Other(u)
                          THEN [messages[i] EXCEPT !.status = "READ"] ELSE messages[i]]
        /\ Finish(p)
        /\ UNCHANGED <<booking, graceOver, repair>>

\* listMessages: the page is read, then marked as delivered.
ListBegin(p, u) ==
    LET unreadFromOther == {i \in DOMAIN messages :
                              messages[i].sender = Other(u) /\ messages[i].status # "READ"}
    IN  /\ "list" \in Ops /\ proc[p].pc = "idle"
        /\ unreadFromOther # {}
        /\ Goto(p, [Idle EXCEPT !.pc = "deliver", !.user = u, !.seen = unreadFromOther])
        /\ UNCHANGED <<booking, graceOver, thread, messages, repair>>

\* Mutant: the listed messages are marked whatever became of them.
DeliverAll(p) ==
    /\ proc[p].pc = "deliver"
    /\ messages' = [i \in DOMAIN messages |->
                      IF i \in proc[p].seen
                      THEN [messages[i] EXCEPT !.status = "DELIVERED"] ELSE messages[i]]
    /\ Finish(p)
    /\ UNCHANGED <<booking, graceOver, thread, repair>>

Deliver(p) ==
    /\ proc[p].pc = "deliver"
    /\ messages' = [i \in DOMAIN messages |->
                      IF i \in proc[p].seen /\ messages[i].status = "PERSISTED"
                      THEN [messages[i] EXCEPT !.status = "DELIVERED"] ELSE messages[i]]
    /\ Finish(p)
    /\ UNCHANGED <<booking, graceOver, thread, repair>>

----------------------------------------------------------------------------
(* ConversationsService *)

updateVisibility(p, u, v) ==
    /\ "hide" \in Ops /\ proc[p].pc = "idle"
    /\ Goto(p, [Idle EXCEPT !.pc = "hide", !.user = u, !.value = v])
    /\ UNCHANGED <<booking, graceOver, thread, messages, repair>>

SetVisibility(p) ==
    /\ proc[p].pc = "hide"
    /\ thread' = [thread EXCEPT !.vis[proc[p].user] = proc[p].value]
    /\ Finish(p)
    /\ UNCHANGED <<booking, graceOver, messages, repair>>

block(p, u) ==
    /\ "block" \in Ops /\ proc[p].pc = "idle"
    /\ Goto(p, [Idle EXCEPT !.pc = "block", !.user = u])
    /\ UNCHANGED <<booking, graceOver, thread, messages, repair>>

SetBlocked(p) ==
    /\ proc[p].pc = "block"
    /\ thread' = [thread EXCEPT !.blocked[proc[p].user] = TRUE, !.state = "LOCKED"]
    /\ Finish(p)
    /\ UNCHANGED <<booking, graceOver, messages, repair>>

\* Mutant: the grace period is set whatever the status of the booking.
ReopenSetsGrace(p, disable) ==
    /\ "reopen" \in Ops /\ proc[p].pc = "idle"
    /\ Goto(p, [Idle EXCEPT !.pc = "reopen", !.flag = disable,
                            !.grace = ~disable \/ thread.postStay])
    /\ UNCHANGED <<booking, graceOver, thread, messages, repair>>

\* reopenConversation: a completed stay gets its grace period (anew).
reopenConversation(p, disable) ==
    /\ "reopen" \in Ops /\ proc[p].pc = "idle"
    /\ Goto(p, [Idle EXCEPT !.pc = "reopen", !.flag = disable,
                            !.grace = \/ booking = "COMPLETED" /\ ~disable
                                      \/ thread.postStay])
    /\ UNCHANGED <<booking, graceOver, thread, messages, repair>>

Reopen(p) ==
    /\ proc[p].pc = "reopen"
    /\ thread' = [thread EXCEPT !.state = "ACTIVE", !.vis = [u \in Users |-> "ACTIVE"],
                                !.postStay = proc[p].grace,
                                !.noArchive = proc[p].flag]
    /\ Finish(p)
    /\ UNCHANGED <<booking, graceOver, messages, repair>>

----------------------------------------------------------------------------
(* MessagingStateService *)

graceEnded == thread.postStay /\ graceOver

\* Mutant: the daily job leaves cancelled bookings alone.
SyncCompletedOnly(j) ==
    /\ proc[j].pc = "idle"
    /\ booking = "COMPLETED" /\ thread.state # "ARCHIVED"
    /\ Goto(j, [Idle EXCEPT !.pc = IF graceEnded /\ ~thread.noArchive THEN "archive" ELSE "postStay"])
    /\ UNCHANGED <<booking, graceOver, thread, messages, repair>>

syncFromBooking(j) ==
    /\ proc[j].pc = "idle"
    /\ \/ /\ booking = "CANCELLED"
          /\ Goto(j, [Idle EXCEPT !.pc = "lock"])
       \/ /\ booking = "COMPLETED" /\ thread.state # "ARCHIVED"
          /\ Goto(j, [Idle EXCEPT !.pc = IF graceEnded /\ ~thread.noArchive
                                         THEN "archive" ELSE "postStay"])
    /\ UNCHANGED <<booking, graceOver, thread, messages, repair>>

LockThread(j) ==
    /\ proc[j].pc = "lock"
    /\ thread' = [thread EXCEPT !.state = "LOCKED"]
    /\ Finish(j)
    /\ UNCHANGED <<booking, graceOver, messages, repair>>

\* A completion job has just completed the booking.
AfterCompletion(j) ==
    /\ proc[j].pc = "idle"
    /\ booking = "COMPLETED"
    /\ Goto(j, [Idle EXCEPT !.pc = "postStay"])
    /\ UNCHANGED <<booking, graceOver, thread, messages, repair>>

archiveDueConversations(j) ==
    /\ proc[j].pc = "idle"
    /\ thread.state = "ACTIVE" /\ graceEnded /\ ~thread.noArchive
    /\ Goto(j, [Idle EXCEPT !.pc = "archive"])
    /\ UNCHANGED <<booking, graceOver, thread, messages, repair>>

enterPostStay(j) ==
    /\ proc[j].pc = "postStay"
    /\ IF booking # "COMPLETED" \/ (thread.state = "ACTIVE" /\ thread.postStay)
       THEN Finish(j)
       ELSE Goto(j, [Idle EXCEPT !.pc = "reviewCheck"])
    /\ UNCHANGED <<booking, graceOver, thread, messages, repair>>

HasType(type) == \E i \in DOMAIN messages : messages[i].type = type

\* The check takes no lock; the row is locked by the first insert.
ReviewCardCheck(j) ==
    /\ proc[j].pc = "reviewCheck"
    /\ Goto(j, [proc[j] EXCEPT !.pc = "enter", !.flag = HasType("REVIEW_CARD")])
    /\ UNCHANGED <<booking, graceOver, thread, messages, repair>>

\* The update ends the transaction.
EnterPostStay(j) ==
    LET seeds == IF proc[j].flag THEN <<>> ELSE seedCheckoutComplete
    IN  /\ proc[j].pc = "enter"
        /\ messages' = messages \o seeds
        /\ thread' = [thread EXCEPT
                        !.last = IF proc[j].flag THEN thread.last ELSE nextSeq + 1,
                        !.state = "ACTIVE", !.vis = [u \in Users |-> "ACTIVE"],
                        !.postStay = TRUE]
        /\ Finish(j)
        /\ UNCHANGED <<booking, graceOver, repair>>

archiveConversation(j) ==
    /\ proc[j].pc = "archive"
    /\ IF thread.state = "ARCHIVED" THEN Finish(j)
       ELSE Goto(j, [Idle EXCEPT !.pc = "noticeCheck"])
    /\ UNCHANGED <<booking, graceOver, thread, messages, repair>>

ArchiveNoticeCheck(j) ==
    /\ proc[j].pc = "noticeCheck"
    /\ Goto(j, [proc[j] EXCEPT !.pc = "store", !.flag = HasType("SYSTEM_NOTICE")])
    /\ UNCHANGED <<booking, graceOver, thread, messages, repair>>

ArchiveThread(j) ==
    /\ proc[j].pc = "store"
    /\ messages' = IF proc[j].flag THEN messages
                   ELSE Append(messages, seedConversationArchived)
    /\ thread' = [thread EXCEPT !.last = IF proc[j].flag THEN thread.last ELSE nextSeq,
                                !.state = "ARCHIVED",
                                !.vis = [u \in Users |-> "ARCHIVED"]]
    /\ Finish(j)
    /\ UNCHANGED <<booking, graceOver, repair>>

----------------------------------------------------------------------------
(* SnapshotRepairService.repairConversation *)

RepairRead(w) ==
    /\ repair[w] = {} /\ ~thread.snapOk
    /\ repair' = [repair EXCEPT ![w] = {thread}]
    /\ UNCHANGED <<booking, graceOver, thread, messages, proc>>

\* convRepo.save(conv) writes every column in which the entity differs from
\* the row: the whole image is written back.  A listing without a photo leaves
\* the snapshot incomplete.
RepairSave(w) ==
    /\ \E row \in repair[w], complete \in BOOLEAN :
         thread' = [row EXCEPT !.snapOk = complete]
    /\ repair' = [repair EXCEPT ![w] = {}]
    /\ UNCHANGED <<booking, graceOver, messages, proc>>

----------------------------------------------------------------------------
(* The rest of the world *)

\* A request or job fails or its instance dies.
Lost(p) ==
    /\ proc[p].pc \notin {"absent", "idle"}
    /\ Finish(p)
    /\ UNCHANGED <<booking, graceOver, thread, messages, repair>>

\* Instances in which nobody looks at the booking leave its changes out.
Watched == Jobs # {} \/ "reopen" \in Ops

\* The booking core; a completion job may overwrite a cancellation.
BookingChanges ==
    /\ Watched
    /\ \/ booking = "CONFIRMED" /\ booking' = "CANCELLED"
       \/ booking # "COMPLETED" /\ booking' = "COMPLETED"
    /\ UNCHANGED <<graceOver, thread, messages, proc, repair>>

\* The end of the grace period is computed from the booking alone: a reopened
\* thread gets the same one again.
GraceEnds ==
    /\ Watched /\ ~graceOver /\ graceOver' = TRUE
    /\ UNCHANGED <<booking, thread, messages, proc, repair>>

----------------------------------------------------------------------------
\* The cards of a new thread; one stands for all.
seedBookingConfirmed == <<NewMessage(1, "system", "CARD", NoKey)>>

\* provisionWithinTransaction: the thread of a confirmed booking.
NewThread(snapOk) ==
    [state |-> "ACTIVE", vis |-> [u \in Users |-> "ACTIVE"],
     unread |-> [u \in Users |-> 0], last |-> Len(seedBookingConfirmed),
     postStay |-> FALSE, noArchive |-> FALSE,
     blocked |-> [u \in Users |-> FALSE], snapOk |-> snapOk]

Init ==
    /\ booking = "CONFIRMED"
    /\ graceOver = FALSE
    /\ thread \in {NewThread(b) : b \in BOOLEAN}
    /\ messages = seedBookingConfirmed
    /\ \E P \in SUBSET Procs :
         /\ P # {} /\ (Jobs # {} => P \cap Jobs # {})
         /\ Cardinality(P) + (IF thread.snapOk THEN 0 ELSE Cardinality(Repairers)) <= MaxActors
         /\ proc = [p \in Procs |-> IF p \in P THEN Idle ELSE Absent]
    /\ repair = [w \in Repairers |-> {}]

UserStarts(p) ==
    \/ \E u \in Users, k \in Keys \cup {NoKey} : SendBegin(p, u, k)
    \/ \E u \in Users : MarkReadBegin(p, u) \/ ListBegin(p, u) \/ block(p, u)
    \/ \E u \in Users, v \in ParticipantVisibility : updateVisibility(p, u, v)
    \/ \E disable \in BOOLEAN : reopenConversation(p, disable)

UserStep(p) ==
    \/ SendLookup(p) \/ SendInsert(p) \/ MarkRead(p) \/ Deliver(p)
    \/ SetVisibility(p) \/ SetBlocked(p) \/ Reopen(p)

JobContinues(j) ==
    \/ LockThread(j)
    \/ enterPostStay(j) \/ ReviewCardCheck(j) \/ EnterPostStay(j)
    \/ archiveConversation(j) \/ ArchiveNoticeCheck(j) \/ ArchiveThread(j)

JobStep(j) ==
    \/ syncFromBooking(j) \/ AfterCompletion(j) \/ archiveDueConversations(j)
    \/ JobContinues(j)

Next ==
    \/ \E p \in Requests : UserStarts(p) \/ UserStep(p)
    \/ \E j \in Jobs : JobStep(j)
    \/ \E p \in Procs : Lost(p)
    \/ \E w \in Repairers : RepairRead(w) \/ RepairSave(w)
    \/ BookingChanges
    \/ GraceEnds

Spec == Init /\ [][Next]_vars

\* A run goes on, the daily and the hourly job are started for ever (either may
\* find the others running) and time passes.  Jobs are not lost for ever, and
\* a snapshot is not repaired for ever: each repair may take back what a job
\* did since it read the row.  Nothing obliges a user or the booking core.
FairSpec ==
    /\ Spec
    /\ \A j \in Jobs : WF_vars(JobContinues(j)) /\ <>[][~Lost(j)]_vars
    /\ SF_vars(\E j \in Jobs : syncFromBooking(j))
    /\ SF_vars(\E j \in Jobs : archiveDueConversations(j))
    /\ \A w \in Repairers : <>[][~RepairSave(w)]_vars
    /\ WF_vars(GraceEnds)

----------------------------------------------------------------------------
(* Properties *)

\* Every variable has its type.
TypeOK ==
    /\ booking \in {"CONFIRMED", "CANCELLED", "COMPLETED"}
    /\ graceOver \in BOOLEAN
    /\ thread \in StaysConversation
    /\ messages \in Seq(StaysMessage)
    /\ proc \in [Procs -> ProcStates]
    /\ repair \in [Repairers -> SUBSET StaysConversation]

\* Messages are numbered 1, 2, 3, ... without gap or repetition, although the
\* counter of the row may be put back by a stale save (insertMessage).
SequencesDense == \A i \in DOMAIN messages : messages[i].seq = i

\* Without repairs, the unread counters of the row agree with the messages,
\* however sends and reads of both sides interleave (markRead, insertMessage).
UnreadMatchesMessages ==
    \A u \in Users :
        thread.unread[u] = Cardinality({i \in DOMAIN messages :
                              messages[i].sender = Other(u) /\ messages[i].status # "READ"})

\* A message that was read never counts as only delivered again, although
\* listMessages marks a page it read some time before.
ReadStaysRead ==
    [][\A i \in DOMAIN messages : messages[i].status = "READ" => messages'[i].status = "READ"]_vars

\* Only the thread of a completed stay is archived by the jobs, whatever stale
\* images reopen and repair write back (archiveConversation).
ArchivedOnlyAfterStay == thread.state = "ARCHIVED" => booking = "COMPLETED"

\* In the end the thread of a cancelled booking is locked, even if the call after the
\* cancellation is lost and others write the row (syncFromBooking), and the thread of a
\* completed stay is archived, unless a participant has switched that off
\* (archiveDueConversations).
ThreadsSettle ==
    /\ booking = "CANCELLED" ~> (thread.state = "LOCKED" \/ booking # "CANCELLED")
    /\ booking = "COMPLETED" ~> (thread.state = "ARCHIVED" \/ thread.noArchive)

\* With SequencesDense, an inductive invariant: no counter, in the row or in
\* an image that may be written back, is ahead of the messages.
CountersBehind ==
    /\ thread.last <= Len(messages)
    /\ \A w \in Repairers : \A row \in repair[w] : row.last <= Len(messages)

\* The inductive invariant behind ArchivedOnlyAfterStay: a grace period, in the
\* row or in an image, or an archive under way means the stay was completed.
GraceMeansCompleted ==
    booking # "COMPLETED" =>
        /\ ~thread.postStay /\ thread.state # "ARCHIVED"
        /\ \A p \in Procs : /\ ~proc[p].grace
                            /\ proc[p].pc \notin {"postStay", "reviewCheck", "enter",
                                                  "archive", "noticeCheck", "store"}
        /\ \A w \in Repairers : \A row \in repair[w] :
             ~row.postStay /\ row.state # "ARCHIVED"

==============================================================================
