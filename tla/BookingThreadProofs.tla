------------------------- MODULE BookingThreadProofs -------------------------
(***************************************************************************)
(* Proofs about BookingThread.  ThreadInv gives the types and the sequence *)
(* numbers, which need each other: the next number is a number because the *)
(* messages are numbered without gap.  GraceMeansCompleted then gives      *)
(* ArchivedOnlyAfterStay, and ThreadInv with the step lemmas of the unread *)
(* counters gives UnreadMatchesMessages.                                   *)
(***************************************************************************)
EXTENDS BookingThread, FiniteSetTheorems, TLAPS

ThreadInv == TypeOK /\ SequencesDense /\ CountersBehind

\* With messages numbered 1 .. n, MAX(conversation_sequence) is n, and with no
\* counter ahead of them insertMessage hands out n + 1.
LEMMA NextSequence ==
    ASSUME ThreadInv
    PROVE  nextSeq = Len(messages) + 1
<1> DEFINE S == {messages[i].seq : i \in DOMAIN messages} \cup {0}
<1>1. Len(messages) \in Nat /\ DOMAIN messages = 1 .. Len(messages)
    BY DEF ThreadInv, TypeOK
<1>2. Len(messages) \in S
    <2>1. CASE Len(messages) = 0
        BY <2>1
    <2>2. CASE Len(messages) > 0
        BY <1>1, <2>2 DEF ThreadInv, SequencesDense
    <2> QED BY <1>1, <2>1, <2>2
<1>3. \A y \in S : y \in Nat /\ y <= Len(messages)
    BY <1>1 DEF ThreadInv, SequencesDense
<1>4. maxSequence = Len(messages)
    <2> HIDE DEF S
    <2>1. \A x \in S : (\A y \in S : y <= x) => x = Len(messages)
        BY <1>1, <1>2, <1>3
    <2>2. \A y \in S : y <= Len(messages)
        BY <1>3
    <2>3. (CHOOSE x \in S : \A y \in S : y <= x) = Len(messages)
        BY <1>2, <2>1, <2>2
    <2> QED BY <2>3 DEF maxSequence, S
<1>5. thread.last \in Nat /\ thread.last <= Len(messages)
    BY DEF ThreadInv, TypeOK, StaysConversation, CountersBehind
<1> QED BY <1>1, <1>4, <1>5 DEF nextSeq

\* Other(u) is the other participant.
LEMMA OtherUser ==
    ASSUME NEW u \in Users
    PROVE  Other(u) \in Users
BY DEF Users, Other

\* An idle process has its type, and so has one that goes on.
LEMMA IdleType == Idle \in ProcStates
BY DEF Idle, ProcStates, PCs, Users, ParticipantVisibility

LEMMA GotoType ==
    ASSUME TypeOK, NEW p \in Procs, NEW rec \in ProcStates, Goto(p, rec)
    PROVE  proc' \in [Procs -> ProcStates]
BY DEF TypeOK, Goto

\* A step that leaves row, messages and repairers alone keeps ThreadInv if the
\* process it moves has its type.
LEMMA ProcStep ==
    ASSUME ThreadInv, NEW p \in Procs, NEW rec \in ProcStates, Goto(p, rec),
           UNCHANGED <<booking, graceOver, thread, messages, repair>>
    PROVE  ThreadInv'
<1>1. proc' \in [Procs -> ProcStates]
    BY GotoType DEF ThreadInv
<1> QED BY <1>1 DEF ThreadInv, TypeOK, SequencesDense, CountersBehind

\* A step that ends a process and writes a row whose counter is not ahead.
LEMMA RowStep ==
    ASSUME ThreadInv, NEW p \in Procs, Finish(p),
           thread' \in StaysConversation, thread'.last = thread.last,
           UNCHANGED <<booking, graceOver, messages, repair>>
    PROVE  ThreadInv'
<1>1. proc' \in [Procs -> ProcStates]
    BY GotoType, IdleType DEF ThreadInv, Finish
<1> QED BY <1>1 DEF ThreadInv, TypeOK, SequencesDense, CountersBehind

\* A step that ends a process and changes the status of messages.
LEMMA StatusStep ==
    ASSUME ThreadInv, NEW p \in Procs, Finish(p),
           thread' \in StaysConversation, thread'.last = thread.last,
           messages' \in Seq(StaysMessage), DOMAIN messages' = DOMAIN messages,
           \A i \in DOMAIN messages : messages'[i].seq = messages[i].seq,
           UNCHANGED <<booking, graceOver, repair>>
    PROVE  ThreadInv'
<1>1. proc' \in [Procs -> ProcStates]
    BY GotoType, IdleType DEF ThreadInv, Finish
<1>2. Len(messages') = Len(messages)
    BY DEF ThreadInv, TypeOK
<1> QED BY <1>1, <1>2 DEF ThreadInv, TypeOK, SequencesDense, CountersBehind

\* A step that ends a process and appends messages with the next numbers.
LEMMA AppendStep ==
    ASSUME ThreadInv, NEW p \in Procs, Finish(p),
           thread' \in StaysConversation,
           NEW new \in Seq(StaysMessage), messages' = messages \o new,
           \A i \in DOMAIN new : new[i].seq = Len(messages) + i,
           thread'.last <= Len(messages) + Len(new),
           UNCHANGED <<booking, graceOver, repair>>
    PROVE  ThreadInv'
<1>1. proc' \in [Procs -> ProcStates]
    BY GotoType, IdleType DEF ThreadInv, Finish
<1>2. /\ messages' \in Seq(StaysMessage)
      /\ Len(messages') = Len(messages) + Len(new)
      /\ Len(messages) \in Nat /\ Len(new) \in Nat
    BY DEF ThreadInv, TypeOK
<1>3. SequencesDense'
    <2> SUFFICES ASSUME NEW i \in DOMAIN messages'
                 PROVE  messages'[i].seq = i
        BY DEF SequencesDense
    <2>1. CASE i \in DOMAIN messages
        BY <2>1 DEF ThreadInv, TypeOK, SequencesDense
    <2>2. CASE i \notin DOMAIN messages
        <3>1. i \in Len(messages) + 1 .. Len(messages) + Len(new)
            BY <1>2, <2>2 DEF ThreadInv, TypeOK
        <3>2. i - Len(messages) \in DOMAIN new
            BY <1>2, <3>1
        <3>3. messages'[i] = new[i - Len(messages)]
            BY <1>2, <3>1 DEF ThreadInv, TypeOK
        <3> QED BY <1>2, <3>1, <3>2, <3>3
    <2> QED BY <2>1, <2>2
<1>4. CountersBehind'
    <2> SUFFICES ASSUME NEW w \in Repairers, NEW row \in repair[w]
                 PROVE  row.last <= Len(messages')
        BY <1>2 DEF CountersBehind
    <2>1. row.last \in Nat /\ row.last <= Len(messages)
        BY DEF ThreadInv, TypeOK, StaysConversation, CountersBehind
    <2> QED BY <1>2, <2>1
<1> QED BY <1>1, <1>2, <1>3, <1>4 DEF ThreadInv, TypeOK

\* The type of the row and of a message after the changes the actions make.
LEMMA RowTypes ==
    ASSUME ThreadInv
    PROVE  /\ thread \in StaysConversation
           /\ thread.last \in Nat
           /\ nextSeq \in Nat
<1>1. Len(messages) \in Nat
    BY DEF ThreadInv, TypeOK
<1>2. nextSeq \in Nat
    BY <1>1, NextSequence
<1>3. thread \in StaysConversation /\ thread.last \in Nat
    BY DEF ThreadInv, TypeOK, StaysConversation
<1> QED BY <1>2, <1>3

LEMMA NewMessageType ==
    ASSUME NEW seq \in Nat, NEW sender \in Users \cup {"system"},
           NEW type \in {"TEXT", "CARD", "REVIEW_CARD", "SYSTEM_NOTICE"},
           NEW key \in Keys \cup {NoKey}
    PROVE  NewMessage(seq, sender, type, key) \in StaysMessage
BY DEF NewMessage, StaysMessage, MessageStatus

\* A message with another status is a message with the same number.
LEMMA StatusType ==
    ASSUME NEW m \in StaysMessage, NEW s \in MessageStatus
    PROVE  [m EXCEPT !.status = s] \in StaysMessage /\ [m EXCEPT !.status = s].seq = m.seq
BY DEF StaysMessage

\* Requests of guest and host that start keep ThreadInv.
LEMMA UserStartsInv ==
    ASSUME ThreadInv, NEW p \in Requests, UserStarts(p)
    PROVE  ThreadInv'
<1> p \in Procs
    BY DEF Procs
<1> USE DEF ProcStates, PCs
<1>1. ASSUME NEW u \in Users, NEW k \in Keys \cup {NoKey}, SendBegin(p, u, k)
      PROVE  ThreadInv'
    <2>1. [Idle EXCEPT !.pc = "lookup", !.user = u, !.key = k] \in ProcStates
        BY IdleType
    <2> QED BY <1>1, <2>1, ProcStep DEF SendBegin
<1>2. ASSUME NEW u \in Users, MarkReadBegin(p, u)
      PROVE  ThreadInv'
    <2>1. [Idle EXCEPT !.pc = "markRead", !.user = u] \in ProcStates
        BY IdleType
    <2> QED BY <1>2, <2>1, ProcStep DEF MarkReadBegin
<1>3. ASSUME NEW u \in Users, ListBegin(p, u)
      PROVE  ThreadInv'
    <2> DEFINE L == {i \in DOMAIN messages :
                       messages[i].sender = Other(u) /\ messages[i].status # "READ"}
    <2>1. L \in SUBSET Nat
        BY DEF ThreadInv, TypeOK
    <2> HIDE DEF L
    <2>2. [Idle EXCEPT !.pc = "deliver", !.user = u, !.seen = L] \in ProcStates
        BY <2>1, IdleType
    <2> QED BY <1>3, <2>2, ProcStep DEF ListBegin, L
<1>4. ASSUME NEW u \in Users, block(p, u)
      PROVE  ThreadInv'
    <2>1. [Idle EXCEPT !.pc = "block", !.user = u] \in ProcStates
        BY IdleType
    <2> QED BY <1>4, <2>1, ProcStep DEF block
<1>5. ASSUME NEW u \in Users, NEW v \in ParticipantVisibility, updateVisibility(p, u, v)
      PROVE  ThreadInv'
    <2>1. [Idle EXCEPT !.pc = "hide", !.user = u, !.value = v] \in ProcStates
        BY IdleType
    <2> QED BY <1>5, <2>1, ProcStep DEF updateVisibility
<1>6. ASSUME NEW disable \in BOOLEAN, reopenConversation(p, disable)
      PROVE  ThreadInv'
    <2> DEFINE b == (booking = "COMPLETED" /\ ~disable) \/ thread.postStay
    <2>1. b \in BOOLEAN
        BY DEF ThreadInv, TypeOK, StaysConversation
    <2> HIDE DEF b
    <2>2. [Idle EXCEPT !.pc = "reopen", !.flag = disable, !.grace = b] \in ProcStates
        BY <2>1, IdleType
    <2> QED BY <1>6, <2>2, ProcStep DEF reopenConversation, b
<1> QED BY <1>1, <1>2, <1>3, <1>4, <1>5, <1>6 DEF UserStarts

\* The later steps of the requests keep ThreadInv.
LEMMA UserStepInv ==
    ASSUME ThreadInv, NEW p \in Requests, UserStep(p)
    PROVE  ThreadInv'
<1> p \in Procs
    BY DEF Procs
<1>p. proc[p] \in ProcStates
    BY DEF ThreadInv, TypeOK
<1>u. proc[p].user \in Users /\ Other(proc[p].user) \in Users
    BY <1>p, OtherUser DEF ProcStates
<1>1. CASE SendLookup(p)
    <2>1. [proc[p] EXCEPT !.pc = "insert"] \in ProcStates
        BY <1>p DEF ProcStates, PCs
    <2> QED BY <1>1, <2>1, IdleType, ProcStep DEF SendLookup, Finish
<1>2. CASE SendInsert(p)
    <2> DEFINE u == proc[p].user
               r == Other(u)
               new == <<NewMessage(nextSeq, u, "TEXT", proc[p].key)>>
    <2>1. NewMessage(nextSeq, u, "TEXT", proc[p].key) \in StaysMessage
        BY <1>p, <1>u, RowTypes, NewMessageType DEF ProcStates
    <2>2. /\ new \in Seq(StaysMessage) /\ Len(new) = 1
          /\ messages' = messages \o new
        BY <1>2, <2>1 DEF SendInsert, ThreadInv, TypeOK
    <2>3. \A i \in DOMAIN new : new[i].seq = Len(messages) + i
        BY NextSequence DEF NewMessage
    <2>4. /\ thread' \in StaysConversation
          /\ thread'.last = nextSeq
        <3>1. /\ thread.unread[r] + 1 \in Nat
              /\ thread.vis[r] \in ParticipantVisibility
            BY <1>u, RowTypes DEF StaysConversation
        <3>2. (IF thread.vis[r] = "ARCHIVED" THEN "ACTIVE" ELSE thread.vis[r])
                \in ParticipantVisibility
            BY <3>1 DEF ParticipantVisibility
        <3>3. insertMessage(u) \in StaysConversation /\ insertMessage(u).last = nextSeq
            BY <1>u, <3>1, RowTypes DEF insertMessage, StaysConversation
        <3>4. insertMessage(u).vis = thread.vis
            BY RowTypes DEF insertMessage, StaysConversation
        <3>5. thread' = [insertMessage(u) EXCEPT !.vis[r] =
                           IF thread.vis[r] = "ARCHIVED" THEN "ACTIVE" ELSE thread.vis[r]]
            BY <1>2, <3>4 DEF SendInsert, enqueueDeliveryEvents
        <3> HIDE DEF u, r
        <3> QED BY <3>2, <3>3, <3>5 DEF StaysConversation
    <2>5. thread'.last <= Len(messages) + Len(new)
        <3>1. Len(messages) \in Nat
            BY DEF ThreadInv, TypeOK
        <3> QED BY <2>2, <2>4, <3>1, NextSequence
    <2> HIDE DEF new
    <2> QED BY <1>2, <2>2, <2>3, <2>4, <2>5, AppendStep DEF SendInsert
<1>3. CASE MarkRead(p)
    <2>1. thread' \in StaysConversation /\ thread'.last = thread.last
        BY <1>3, <1>u, RowTypes DEF MarkRead, StaysConversation
    <2>2. /\ messages' \in Seq(StaysMessage) /\ DOMAIN messages' = DOMAIN messages
          /\ \A i \in DOMAIN messages : messages'[i].seq = messages[i].seq
        <3>0. ASSUME NEW i \in DOMAIN messages
              PROVE  messages'[i] \in StaysMessage /\ messages'[i].seq = messages[i].seq
            <4>1. messages[i] \in StaysMessage
                BY <3>0 DEF ThreadInv, TypeOK
            <4>2. "READ" \in MessageStatus
                BY DEF MessageStatus
            <4>3. \/ messages'[i] = messages[i]
                  \/ messages'[i] = [messages[i] EXCEPT !.status = "READ"]
                BY <1>3, <3>0 DEF MarkRead
            <4> QED BY <4>1, <4>2, <4>3, StatusType
        <3>1. \A i \in DOMAIN messages : messages'[i] \in StaysMessage
            BY <3>0
        <3>2. \A i \in DOMAIN messages : messages'[i].seq = messages[i].seq
            BY <3>0
        <3>3. messages' \in [1 .. Len(messages) -> StaysMessage] /\ Len(messages) \in Nat
            BY <1>3, <3>1 DEF MarkRead, ThreadInv, TypeOK
        <3> QED BY <3>2, <3>3 DEF ThreadInv, TypeOK
    <2> QED BY <1>3, <2>1, <2>2, StatusStep DEF MarkRead
<1>4. CASE Deliver(p)
    <2>1. thread' \in StaysConversation /\ thread'.last = thread.last
        BY <1>4, RowTypes DEF Deliver
    <2>2. /\ messages' \in Seq(StaysMessage) /\ DOMAIN messages' = DOMAIN messages
          /\ \A i \in DOMAIN messages : messages'[i].seq = messages[i].seq
        <3>0. ASSUME NEW i \in DOMAIN messages
              PROVE  messages'[i] \in StaysMessage /\ messages'[i].seq = messages[i].seq
            <4>1. messages[i] \in StaysMessage
                BY <3>0 DEF ThreadInv, TypeOK
            <4>2. "DELIVERED" \in MessageStatus
                BY DEF MessageStatus
            <4>3. \/ messages'[i] = messages[i]
                  \/ messages'[i] = [messages[i] EXCEPT !.status = "DELIVERED"]
                BY <1>4, <3>0 DEF Deliver
            <4> QED BY <4>1, <4>2, <4>3, StatusType
        <3>1. \A i \in DOMAIN messages : messages'[i] \in StaysMessage
            BY <3>0
        <3>2. \A i \in DOMAIN messages : messages'[i].seq = messages[i].seq
            BY <3>0
        <3>3. messages' \in [1 .. Len(messages) -> StaysMessage] /\ Len(messages) \in Nat
            BY <1>4, <3>1 DEF Deliver, ThreadInv, TypeOK
        <3> QED BY <3>2, <3>3 DEF ThreadInv, TypeOK
    <2> QED BY <1>4, <2>1, <2>2, StatusStep DEF Deliver
<1>5. CASE SetVisibility(p)
    <2>1. thread' \in StaysConversation /\ thread'.last = thread.last
        BY <1>5, <1>p, RowTypes DEF SetVisibility, StaysConversation, ProcStates
    <2> QED BY <1>5, <2>1, RowStep DEF SetVisibility
<1>6. CASE SetBlocked(p)
    <2>1. thread' \in StaysConversation /\ thread'.last = thread.last
        BY <1>6, <1>p, RowTypes DEF SetBlocked, StaysConversation, ProcStates, MessagingState
    <2> QED BY <1>6, <2>1, RowStep DEF SetBlocked
<1>7. CASE Reopen(p)
    <2>1. proc[p].grace \in BOOLEAN /\ proc[p].flag \in BOOLEAN
        BY <1>p DEF ProcStates
    <2>2. thread' \in StaysConversation /\ thread'.last = thread.last
        BY <1>7, <2>1, RowTypes DEF Reopen, StaysConversation, MessagingState, ParticipantVisibility
    <2> QED BY <1>7, <2>2, RowStep DEF Reopen
<1> QED BY <1>1, <1>2, <1>3, <1>4, <1>5, <1>6, <1>7 DEF UserStep

\* The jobs that follow the booking keep ThreadInv.
LEMMA JobStepInv ==
    ASSUME ThreadInv, NEW j \in Jobs, JobStep(j)
    PROVE  ThreadInv'
<1> j \in Procs
    BY DEF Procs
<1>p. proc[j] \in ProcStates
    BY DEF ThreadInv, TypeOK
<1>g. ASSUME NEW pc \in PCs
      PROVE  [Idle EXCEPT !.pc = pc] \in ProcStates
    BY <1>g, IdleType DEF ProcStates
<1>1. CASE syncFromBooking(j)
    <2>1. /\ [Idle EXCEPT !.pc = "lock"] \in ProcStates
          /\ [Idle EXCEPT !.pc = "archive"] \in ProcStates
          /\ [Idle EXCEPT !.pc = "postStay"] \in ProcStates
        BY <1>g DEF PCs
    <2>2. [Idle EXCEPT !.pc = IF graceEnded /\ ~thread.noArchive
                              THEN "archive" ELSE "postStay"] \in ProcStates
        BY <2>1
    <2> QED BY <1>1, <2>1, <2>2, ProcStep DEF syncFromBooking
<1>2. CASE AfterCompletion(j)
    <2>1. [Idle EXCEPT !.pc = "postStay"] \in ProcStates
        BY <1>g DEF PCs
    <2> QED BY <1>2, <2>1, ProcStep DEF AfterCompletion
<1>3. CASE archiveDueConversations(j)
    <2>1. [Idle EXCEPT !.pc = "archive"] \in ProcStates
        BY <1>g DEF PCs
    <2> QED BY <1>3, <2>1, ProcStep DEF archiveDueConversations
<1>4. CASE LockThread(j)
    <2>1. thread' \in StaysConversation /\ thread'.last = thread.last
        BY <1>4, RowTypes DEF LockThread, StaysConversation, MessagingState
    <2> QED BY <1>4, <2>1, RowStep DEF LockThread
<1>5. CASE enterPostStay(j)
    <2>1. [Idle EXCEPT !.pc = "reviewCheck"] \in ProcStates
        BY <1>g DEF PCs
    <2> QED BY <1>5, <2>1, IdleType, ProcStep DEF enterPostStay, Finish
<1>6. CASE ReviewCardCheck(j)
    <2>1. HasType("REVIEW_CARD") \in BOOLEAN
        BY DEF HasType
    <2>2. [proc[j] EXCEPT !.pc = "enter", !.flag = HasType("REVIEW_CARD")] \in ProcStates
        BY <1>p, <2>1 DEF ProcStates, PCs
    <2> QED BY <1>6, <2>2, ProcStep DEF ReviewCardCheck
<1>7. CASE EnterPostStay(j)
    <2> DEFINE new == IF proc[j].flag THEN <<>> ELSE seedCheckoutComplete
    <2>1. Len(messages) \in Nat /\ nextSeq = Len(messages) + 1
        BY NextSequence DEF ThreadInv, TypeOK
    <2>2. /\ NewMessage(nextSeq, "system", "CARD", NoKey) \in StaysMessage
          /\ NewMessage(nextSeq + 1, "system", "REVIEW_CARD", NoKey) \in StaysMessage
        BY <2>1, NewMessageType
    <2>3. seedCheckoutComplete \in Seq(StaysMessage) /\ Len(seedCheckoutComplete) = 2
        BY <2>2 DEF seedCheckoutComplete
    <2>4. \A i \in DOMAIN seedCheckoutComplete :
            seedCheckoutComplete[i].seq = Len(messages) + i
        BY <2>1 DEF seedCheckoutComplete, NewMessage
    <2>5. /\ new \in Seq(StaysMessage)
          /\ \A i \in DOMAIN new : new[i].seq = Len(messages) + i
        BY <2>3, <2>4
    <2>6. thread' \in StaysConversation
        <3>1. (IF proc[j].flag THEN thread.last ELSE nextSeq + 1) \in Nat
            BY <2>1, RowTypes
        <3> QED BY <1>7, <3>1, RowTypes
                DEF EnterPostStay, StaysConversation, MessagingState, ParticipantVisibility
    <2>7. thread'.last <= Len(messages) + Len(new)
        <3>1. thread'.last = IF proc[j].flag THEN thread.last ELSE nextSeq + 1
            BY <1>7, RowTypes DEF EnterPostStay, StaysConversation
        <3>2. thread.last <= Len(messages) /\ thread.last \in Nat
            BY RowTypes DEF ThreadInv, CountersBehind
        <3>3. CASE proc[j].flag
            BY <2>1, <3>1, <3>2, <3>3
        <3>4. CASE ~proc[j].flag
            <4>1. Len(new) = 2
                BY <2>3, <3>4
            <4>2. thread'.last = nextSeq + 1
                BY <3>1, <3>4
            <4> HIDE DEF new
            <4> QED BY <2>1, <4>1, <4>2
        <3> QED BY <3>3, <3>4
    <2>8. messages' = messages \o new
        BY <1>7 DEF EnterPostStay
    <2> HIDE DEF new
    <2> QED BY <1>7, <2>5, <2>6, <2>7, <2>8, AppendStep DEF EnterPostStay
<1>8. CASE archiveConversation(j)
    <2>1. [Idle EXCEPT !.pc = "noticeCheck"] \in ProcStates
        BY <1>g DEF PCs
    <2> QED BY <1>8, <2>1, IdleType, ProcStep DEF archiveConversation, Finish
<1>9. CASE ArchiveNoticeCheck(j)
    <2>1. HasType("SYSTEM_NOTICE") \in BOOLEAN
        BY DEF HasType
    <2>2. [proc[j] EXCEPT !.pc = "store", !.flag = HasType("SYSTEM_NOTICE")] \in ProcStates
        BY <1>p, <2>1 DEF ProcStates, PCs
    <2> QED BY <1>9, <2>2, ProcStep DEF ArchiveNoticeCheck
<1>10. CASE ArchiveThread(j)
    <2>1. Len(messages) \in Nat /\ nextSeq = Len(messages) + 1
        BY NextSequence DEF ThreadInv, TypeOK
    <2>t. thread' \in StaysConversation
        <3>1. (IF proc[j].flag THEN thread.last ELSE nextSeq) \in Nat
            BY <2>1, RowTypes
        <3> QED BY <1>10, <3>1, RowTypes
                DEF ArchiveThread, StaysConversation, MessagingState, ParticipantVisibility
    <2>l. thread'.last = IF proc[j].flag THEN thread.last ELSE nextSeq
        BY <1>10, RowTypes DEF ArchiveThread, StaysConversation
    <2>2. CASE proc[j].flag
        BY <1>10, <2>2, <2>t, <2>l, RowStep DEF ArchiveThread
    <2>3. CASE ~proc[j].flag
        <3> DEFINE new == <<seedConversationArchived>>
        <3>1. seedConversationArchived \in StaysMessage
            BY <2>1, NewMessageType DEF seedConversationArchived
        <3>2. /\ new \in Seq(StaysMessage) /\ Len(new) = 1
              /\ messages' = messages \o new
            BY <1>10, <2>3, <3>1 DEF ArchiveThread, ThreadInv, TypeOK
        <3>3. \A i \in DOMAIN new : new[i].seq = Len(messages) + i
            BY <2>1 DEF seedConversationArchived, NewMessage
        <3>4. thread'.last <= Len(messages) + Len(new)
            BY <2>1, <2>3, <2>l, <3>2
        <3> HIDE DEF new
        <3> QED BY <1>10, <2>t, <3>2, <3>3, <3>4, AppendStep DEF ArchiveThread
    <2> QED BY <2>2, <2>3
<1> QED BY <1>1, <1>2, <1>3, <1>4, <1>5, <1>6, <1>7, <1>8, <1>9, <1>10 DEF JobStep, JobContinues

\* The repair writes back a whole image, whose counter may be old but is not
\* ahead of the messages.
LEMMA RepairInv ==
    ASSUME ThreadInv, NEW w \in Repairers, RepairRead(w) \/ RepairSave(w)
    PROVE  ThreadInv'
<1>1. CASE RepairRead(w)
    <2>1. repair' \in [Repairers -> SUBSET StaysConversation]
        BY <1>1, RowTypes DEF RepairRead, ThreadInv, TypeOK
    <2>2. CountersBehind'
        BY <1>1 DEF RepairRead, ThreadInv, TypeOK, CountersBehind
    <2> QED BY <1>1, <2>1, <2>2 DEF RepairRead, ThreadInv, TypeOK, SequencesDense
<1>2. CASE RepairSave(w)
    <2>1. PICK row \in repair[w], complete \in BOOLEAN :
            thread' = [row EXCEPT !.snapOk = complete]
        BY <1>2 DEF RepairSave
    <2>2. row \in StaysConversation /\ row.last <= Len(messages)
        BY DEF ThreadInv, TypeOK, CountersBehind
    <2>3. thread' \in StaysConversation /\ thread'.last = row.last
        BY <2>1, <2>2 DEF StaysConversation
    <2>4. repair' \in [Repairers -> SUBSET StaysConversation]
        BY <1>2 DEF RepairSave, ThreadInv, TypeOK
    <2>5. CountersBehind'
        BY <1>2, <2>2, <2>3 DEF RepairSave, ThreadInv, TypeOK, CountersBehind
    <2> QED BY <1>2, <2>3, <2>4, <2>5 DEF RepairSave, ThreadInv, TypeOK, SequencesDense
<1> QED BY <1>1, <1>2

\* A provisioned thread satisfies ThreadInv.
LEMMA InitInv == Init => ThreadInv
<1> SUFFICES ASSUME Init PROVE ThreadInv
    OBVIOUS
<1>1. NewMessage(1, "system", "CARD", NoKey) \in StaysMessage
    BY NewMessageType
<1>2. messages \in Seq(StaysMessage) /\ Len(messages) = 1
    BY <1>1 DEF Init, seedBookingConfirmed
<1>3. SequencesDense
    BY DEF Init, SequencesDense, seedBookingConfirmed, NewMessage
<1>4. thread \in StaysConversation /\ thread.last = 1
    <2>1. PICK b \in BOOLEAN : thread = NewThread(b)
        BY DEF Init
    <2>2. Len(seedBookingConfirmed) = 1
        BY DEF seedBookingConfirmed
    <2> QED BY <2>1, <2>2 DEF NewThread, StaysConversation, MessagingState, ParticipantVisibility
<1>5. proc \in [Procs -> ProcStates]
    <2>1. Absent \in ProcStates
        BY IdleType DEF Absent, ProcStates, PCs
    <2> QED BY <2>1, IdleType DEF Init
<1>6. /\ repair \in [Repairers -> SUBSET StaysConversation]
      /\ \A w \in Repairers : repair[w] = {}
    BY DEF Init
<1>7. booking \in {"CONFIRMED", "CANCELLED", "COMPLETED"} /\ graceOver \in BOOLEAN
    BY DEF Init
<1> QED BY <1>2, <1>3, <1>4, <1>5, <1>6, <1>7 DEF ThreadInv, TypeOK, CountersBehind

\* Every step keeps ThreadInv.
LEMMA NextInv == ThreadInv /\ [Next]_vars => ThreadInv'
<1> SUFFICES ASSUME ThreadInv, [Next]_vars PROVE ThreadInv'
    OBVIOUS
<1>1. ASSUME NEW p \in Procs, Lost(p) PROVE ThreadInv'
    BY <1>1, IdleType, ProcStep DEF Lost, Finish
<1>2. CASE BookingChanges
    BY <1>2 DEF BookingChanges, ThreadInv, TypeOK, SequencesDense, CountersBehind
<1>3. CASE GraceEnds
    BY <1>3 DEF GraceEnds, ThreadInv, TypeOK, SequencesDense, CountersBehind
<1>4. CASE UNCHANGED vars
    BY <1>4 DEF vars, ThreadInv, TypeOK, SequencesDense, CountersBehind
<1> QED BY <1>1, <1>2, <1>3, <1>4, UserStartsInv, UserStepInv, JobStepInv, RepairInv DEF Next

\* Every reachable state has its types, its messages densely numbered and no
\* counter ahead of them.
THEOREM ThreadCorrect == Spec => []ThreadInv
BY InitInv, NextInv, PTL DEF Spec

\* insertMessage numbers the messages 1, 2, 3, ... whatever the number of
\* requests, jobs and repairs in flight and whatever images they write back.
THEOREM MessagesNumbered == Spec => []SequencesDense
<1>1. ThreadInv => SequencesDense
    BY DEF ThreadInv
<1> QED BY <1>1, ThreadCorrect, PTL

\* The row, the messages and what requests, jobs and repairs hold keep their types.
THEOREM ThreadTyped == Spec => []TypeOK
<1>1. ThreadInv => TypeOK
    BY DEF ThreadInv
<1> QED BY <1>1, ThreadCorrect, PTL

----------------------------------------------------------------------------
(* ArchivedOnlyAfterStay *)

\* A step that moves a process, without a grace period to write and not on
\* the way to the archive unless the stay is completed.
LEMMA GraceProcStep ==
    ASSUME ThreadInv, GraceMeansCompleted, NEW p \in Procs, NEW rec, Goto(p, rec),
           booking' = booking, repair' = repair,
           booking # "COMPLETED" =>
             /\ ~thread'.postStay /\ thread'.state # "ARCHIVED"
             /\ ~rec.grace
             /\ rec.pc \notin {"postStay", "reviewCheck", "enter", "archive", "noticeCheck", "store"}
    PROVE  GraceMeansCompleted'
<1> SUFFICES ASSUME booking # "COMPLETED"
             PROVE  \A q \in Procs :
                      /\ ~proc'[q].grace
                      /\ proc'[q].pc \notin {"postStay", "reviewCheck", "enter",
                                             "archive", "noticeCheck", "store"}
    BY DEF GraceMeansCompleted
<1> TAKE q \in Procs
<1>1. proc'[q] = IF q = p THEN rec ELSE proc[q]
    BY DEF Goto, ThreadInv, TypeOK
<1> QED BY <1>1 DEF GraceMeansCompleted

\* The steps of the requests keep GraceMeansCompleted.
LEMMA UserGrace ==
    ASSUME ThreadInv, GraceMeansCompleted, NEW p \in Requests, UserStarts(p) \/ UserStep(p)
    PROVE  GraceMeansCompleted'
<1> p \in Procs
    BY DEF Procs
<1>i. ~Idle.grace /\ Idle.pc = "idle"
    BY DEF Idle
<1>t. thread \in StaysConversation /\ proc[p] \in ProcStates
    BY DEF ThreadInv, TypeOK
<1>s. booking # "COMPLETED" => /\ ~thread.postStay /\ thread.state # "ARCHIVED"
                               /\ ~proc[p].grace
    BY DEF GraceMeansCompleted
<1>1. ASSUME NEW rec, Goto(p, rec), rec.pc \in {"idle", "lookup", "insert", "markRead",
                                               "deliver", "hide", "block", "reopen"},
             booking # "COMPLETED" => ~rec.grace,
             UNCHANGED <<booking, thread, repair>>
      PROVE  GraceMeansCompleted'
    BY <1>1, <1>s, GraceProcStep
<1>2. ASSUME Finish(p), UNCHANGED <<booking, repair>>,
             booking # "COMPLETED" => ~thread'.postStay /\ thread'.state # "ARCHIVED"
      PROVE  GraceMeansCompleted'
    BY <1>2, <1>i, GraceProcStep DEF Finish
<1>3. ASSUME NEW u \in Users, NEW k \in Keys \cup {NoKey}, SendBegin(p, u, k)
      PROVE  GraceMeansCompleted'
    BY <1>3, <1>1 DEF SendBegin, Idle
<1>4. ASSUME NEW u \in Users, MarkReadBegin(p, u) PROVE GraceMeansCompleted'
    BY <1>4, <1>1 DEF MarkReadBegin, Idle
<1>5. ASSUME NEW u \in Users, ListBegin(p, u) PROVE GraceMeansCompleted'
    BY <1>5, <1>1 DEF ListBegin, Idle
<1>6. ASSUME NEW u \in Users, block(p, u) PROVE GraceMeansCompleted'
    BY <1>6, <1>1 DEF block, Idle
<1>7. ASSUME NEW u \in Users, NEW v \in ParticipantVisibility, updateVisibility(p, u, v)
      PROVE  GraceMeansCompleted'
    BY <1>7, <1>1 DEF updateVisibility, Idle
<1>8. ASSUME NEW disable \in BOOLEAN, reopenConversation(p, disable)
      PROVE  GraceMeansCompleted'
    <2> DEFINE rec == [Idle EXCEPT !.pc = "reopen", !.flag = disable,
                                   !.grace = \/ booking = "COMPLETED" /\ ~disable
                                             \/ thread.postStay]
    <2>1. /\ rec.pc = "reopen"
          /\ rec.grace = ((booking = "COMPLETED" /\ ~disable) \/ thread.postStay)
        BY DEF Idle
    <2>2. booking # "COMPLETED" => ~rec.grace
        BY <2>1, <1>s
    <2>3. Goto(p, rec) /\ UNCHANGED <<booking, thread, repair>>
        BY <1>8 DEF reopenConversation
    <2> HIDE DEF rec
    <2> QED BY <1>1, <2>1, <2>2, <2>3
<1>9. CASE SendLookup(p)
    <2>1. [proc[p] EXCEPT !.pc = "insert"].pc = "insert"
        BY <1>t DEF ProcStates
    <2>2. [proc[p] EXCEPT !.pc = "insert"].grace = proc[p].grace
        BY <1>t DEF ProcStates
    <2> QED BY <1>9, <1>i, <1>s, <1>1, <2>1, <2>2 DEF SendLookup, Finish
<1>10. CASE SendInsert(p)
    <2>1. thread'.postStay = thread.postStay /\ thread'.state = thread.state
        BY <1>10, <1>t DEF SendInsert, insertMessage, enqueueDeliveryEvents, StaysConversation
    <2> QED BY <1>10, <1>s, <1>2, <2>1 DEF SendInsert
<1>11. CASE MarkRead(p)
    <2>1. thread'.postStay = thread.postStay /\ thread'.state = thread.state
        BY <1>11, <1>t DEF MarkRead, StaysConversation
    <2> QED BY <1>11, <1>s, <1>2, <2>1 DEF MarkRead
<1>12. CASE Deliver(p)
    BY <1>12, <1>s, <1>2 DEF Deliver
<1>13. CASE SetVisibility(p)
    <2>1. thread'.postStay = thread.postStay /\ thread'.state = thread.state
        BY <1>13, <1>t DEF SetVisibility, StaysConversation
    <2> QED BY <1>13, <1>s, <1>2, <2>1 DEF SetVisibility
<1>14. CASE SetBlocked(p)
    <2>1. thread'.postStay = thread.postStay /\ thread'.state = "LOCKED"
        BY <1>14, <1>t DEF SetBlocked, StaysConversation
    <2> QED BY <1>14, <1>s, <1>2, <2>1 DEF SetBlocked
<1>15. CASE Reopen(p)
    <2>1. thread'.postStay = proc[p].grace /\ thread'.state = "ACTIVE"
        BY <1>15, <1>t DEF Reopen, StaysConversation
    <2> QED BY <1>15, <1>s, <1>2, <2>1 DEF Reopen
<1> QED BY <1>3, <1>4, <1>5, <1>6, <1>7, <1>8, <1>9, <1>10, <1>11, <1>12, <1>13, <1>14, <1>15
        DEF UserStarts, UserStep

\* The jobs keep GraceMeansCompleted: they go towards the archive only when the
\* stay is completed, or when a grace period was set, which means the same.
LEMMA JobGrace ==
    ASSUME ThreadInv, GraceMeansCompleted, NEW j \in Jobs, JobStep(j)
    PROVE  GraceMeansCompleted'
<1> j \in Procs
    BY DEF Procs
<1>t. thread \in StaysConversation
    BY DEF ThreadInv, TypeOK
<1>i. ~Idle.grace /\ Idle.pc = "idle"
    BY DEF Idle
<1>s. booking # "COMPLETED" =>
        /\ ~thread.postStay /\ thread.state # "ARCHIVED"
        /\ proc[j].pc \notin {"postStay", "reviewCheck", "enter", "archive", "noticeCheck", "store"}
    BY DEF GraceMeansCompleted
<1>c. booking' = booking /\ repair' = repair
    BY DEF JobStep, JobContinues, syncFromBooking, AfterCompletion, archiveDueConversations, LockThread,
           enterPostStay, ReviewCardCheck, EnterPostStay, archiveConversation,
           ArchiveNoticeCheck, ArchiveThread
<1>1. ASSUME booking = "COMPLETED" PROVE GraceMeansCompleted'
    BY <1>1, <1>c DEF GraceMeansCompleted
<1>2. ASSUME booking # "COMPLETED" PROVE GraceMeansCompleted'
    <2>1. syncFromBooking(j) \/ LockThread(j)
        BY <1>2, <1>s DEF JobStep, JobContinues, AfterCompletion, archiveDueConversations, graceEnded,
               enterPostStay, ReviewCardCheck, EnterPostStay, archiveConversation,
               ArchiveNoticeCheck, ArchiveThread
    <2>2. CASE syncFromBooking(j)
        <3>1. Goto(j, [Idle EXCEPT !.pc = "lock"]) /\ thread' = thread
            BY <1>2, <2>2 DEF syncFromBooking
        <3>2. /\ [Idle EXCEPT !.pc = "lock"].pc = "lock"
              /\ ~[Idle EXCEPT !.pc = "lock"].grace
            BY DEF Idle
        <3> QED BY <1>c, <1>s, <3>1, <3>2, GraceProcStep
    <2>3. CASE LockThread(j)
        <3>1. thread'.postStay = thread.postStay /\ thread'.state = "LOCKED"
            BY <2>3, <1>t DEF LockThread, StaysConversation
        <3> QED BY <2>3, <1>c, <1>i, <1>s, <3>1, GraceProcStep DEF LockThread, Finish
    <2> QED BY <2>1, <2>2, <2>3
<1> QED BY <1>1, <1>2

\* Every step keeps GraceMeansCompleted.
LEMMA NextGrace == ThreadInv /\ GraceMeansCompleted /\ [Next]_vars => GraceMeansCompleted'
<1> SUFFICES ASSUME ThreadInv, GraceMeansCompleted, [Next]_vars PROVE GraceMeansCompleted'
    OBVIOUS
<1>1. ASSUME NEW p \in Procs, Lost(p) PROVE GraceMeansCompleted'
    <2>1. ~Idle.grace /\ Idle.pc = "idle"
        BY DEF Idle
    <2>2. booking # "COMPLETED" => ~thread'.postStay /\ thread'.state # "ARCHIVED"
        BY <1>1 DEF Lost, GraceMeansCompleted
    <2> QED BY <1>1, <2>1, <2>2, GraceProcStep DEF Lost, Finish
<1>2. ASSUME NEW w \in Repairers, RepairRead(w) PROVE GraceMeansCompleted'
    BY <1>2 DEF RepairRead, GraceMeansCompleted, ThreadInv, TypeOK
<1>3. ASSUME NEW w \in Repairers, RepairSave(w) PROVE GraceMeansCompleted'
    <2>1. PICK row \in repair[w], complete \in BOOLEAN :
            thread' = [row EXCEPT !.snapOk = complete]
        BY <1>3 DEF RepairSave
    <2>2. row \in StaysConversation
        BY DEF ThreadInv, TypeOK
    <2>3. thread'.postStay = row.postStay /\ thread'.state = row.state
        BY <2>1, <2>2 DEF StaysConversation
    <2>4. \A v \in Repairers : repair'[v] \subseteq repair[v]
        BY <1>3 DEF RepairSave, ThreadInv, TypeOK
    <2> QED BY <1>3, <2>3, <2>4 DEF RepairSave, GraceMeansCompleted
<1>4. CASE BookingChanges
    BY <1>4 DEF BookingChanges, GraceMeansCompleted
<1>5. CASE GraceEnds
    BY <1>5 DEF GraceEnds, GraceMeansCompleted
<1>6. CASE UNCHANGED vars
    BY <1>6 DEF vars, GraceMeansCompleted
<1> QED BY <1>1, <1>2, <1>3, <1>4, <1>5, <1>6, UserGrace, JobGrace DEF Next

\* archiveConversation reaches only threads of completed stays, for any number
\* of requests that reopen and repairs that write old images back.
THEOREM ArchivedAfterStay == Spec => []ArchivedOnlyAfterStay
<1>1. Init => GraceMeansCompleted
    <2> SUFFICES ASSUME Init PROVE GraceMeansCompleted
        OBVIOUS
    <2>1. ~thread.postStay /\ thread.state # "ARCHIVED"
        BY DEF Init, NewThread
    <2>2. \A p \in Procs : ~proc[p].grace /\ proc[p].pc \in {"absent", "idle"}
        BY DEF Init, Absent, Idle
    <2>3. \A w \in Repairers : repair[w] = {}
        BY DEF Init
    <2> QED BY <2>1, <2>2, <2>3 DEF GraceMeansCompleted
<1>2. GraceMeansCompleted => ArchivedOnlyAfterStay
    BY DEF GraceMeansCompleted, ArchivedOnlyAfterStay
<1> QED BY <1>1, <1>2, NextGrace, ThreadCorrect, PTL DEF Spec

----------------------------------------------------------------------------
(* ReadStaysRead *)

\* Appended messages leave the ones before them alone.
LEMMA AppendKeeps ==
    ASSUME ThreadInv, NEW new, new \in Seq(StaysMessage), messages' = messages \o new,
           NEW i \in DOMAIN messages
    PROVE  messages'[i] = messages[i]
BY DEF ThreadInv, TypeOK

\* listMessages marks only what is still PERSISTED and nothing else lowers a
\* status, so a message that was read stays read.
THEOREM ReadIsFinal == Spec => ReadStaysRead
<1> DEFINE Kept == \A i \in DOMAIN messages :
                     messages[i].status = "READ" => messages'[i].status = "READ"
<1>1. ASSUME ThreadInv, Next PROVE Kept
    <2>0. ASSUME messages' = messages PROVE Kept
        BY <2>0
    <2>1. ASSUME NEW p \in Requests, UserStarts(p) PROVE Kept
        BY <2>1, <2>0 DEF UserStarts, SendBegin, MarkReadBegin, ListBegin, block,
               updateVisibility, reopenConversation
    <2>2. ASSUME NEW p \in Requests, UserStep(p) PROVE Kept
        <3>1. CASE SendInsert(p)
            <4>1. proc[p] \in ProcStates /\ p \in Procs
                BY <1>1 DEF ThreadInv, TypeOK, Procs
            <4>2. NewMessage(nextSeq, proc[p].user, "TEXT", proc[p].key) \in StaysMessage
                BY <1>1, <4>1, RowTypes, NewMessageType DEF ProcStates
            <4>3. messages' = messages \o <<NewMessage(nextSeq, proc[p].user, "TEXT", proc[p].key)>>
                BY <1>1, <3>1, <4>2 DEF SendInsert, ThreadInv, TypeOK
            <4> QED BY <1>1, <4>2, <4>3, AppendKeeps
        <3>2. CASE MarkRead(p)
            <4> SUFFICES ASSUME NEW i \in DOMAIN messages, messages[i].status = "READ"
                         PROVE  messages'[i].status = "READ"
                OBVIOUS
            <4>1. messages[i] \in StaysMessage
                BY <1>1 DEF ThreadInv, TypeOK
            <4>2. [messages[i] EXCEPT !.status = "READ"].status = "READ"
                BY <4>1 DEF StaysMessage
            <4> QED BY <3>2, <4>2 DEF MarkRead
        <3>3. CASE Deliver(p)
            BY <3>3 DEF Deliver
        <3>4. CASE SendLookup(p) \/ SetVisibility(p) \/ SetBlocked(p) \/ Reopen(p)
            BY <3>4, <2>0 DEF SendLookup, SetVisibility, SetBlocked, Reopen
        <3> QED BY <2>2, <3>1, <3>2, <3>3, <3>4 DEF UserStep
    <2>3. ASSUME NEW j \in Jobs, JobStep(j) PROVE Kept
        <3>n. Len(messages) \in Nat /\ nextSeq \in Nat
            BY <1>1, RowTypes DEF ThreadInv, TypeOK
        <3>1. CASE EnterPostStay(j)
            <4> DEFINE new == IF proc[j].flag THEN <<>> ELSE seedCheckoutComplete
            <4>0. nextSeq + 1 \in Nat
                BY <3>n
            <4>1. /\ NewMessage(nextSeq, "system", "CARD", NoKey) \in StaysMessage
                  /\ NewMessage(nextSeq + 1, "system", "REVIEW_CARD", NoKey) \in StaysMessage
                BY <3>n, <4>0, NewMessageType
            <4>2. new \in Seq(StaysMessage)
                BY <4>1 DEF seedCheckoutComplete
            <4>3. messages' = messages \o new
                BY <3>1 DEF EnterPostStay
            <4> HIDE DEF new
            <4> QED BY <1>1, <4>2, <4>3, AppendKeeps
        <3>2. CASE ArchiveThread(j)
            <4>1. CASE proc[j].flag
                BY <2>0, <3>2, <4>1 DEF ArchiveThread
            <4>2. CASE ~proc[j].flag
                <5>1. seedConversationArchived \in StaysMessage
                    BY <3>n, NewMessageType DEF seedConversationArchived
                <5>2. messages' = messages \o <<seedConversationArchived>>
                    BY <1>1, <3>2, <4>2, <5>1 DEF ArchiveThread, ThreadInv, TypeOK
                <5> QED BY <1>1, <5>1, <5>2, AppendKeeps
            <4> QED BY <4>1, <4>2
        <3>3. CASE ~EnterPostStay(j) /\ ~ArchiveThread(j)
            BY <2>3, <3>3, <2>0 DEF JobStep, JobContinues, syncFromBooking, AfterCompletion,
                   archiveDueConversations, LockThread, enterPostStay, ReviewCardCheck,
                   archiveConversation, ArchiveNoticeCheck
        <3> QED BY <3>1, <3>2, <3>3
    <2>4. ASSUME NEW p \in Procs, Lost(p) PROVE Kept
        BY <2>4, <2>0 DEF Lost
    <2>5. ASSUME NEW w \in Repairers, RepairRead(w) \/ RepairSave(w) PROVE Kept
        BY <2>5, <2>0 DEF RepairRead, RepairSave
    <2>6. CASE BookingChanges \/ GraceEnds
        BY <2>6, <2>0 DEF BookingChanges, GraceEnds
    <2> HIDE DEF Kept
    <2> QED BY <1>1, <2>1, <2>2, <2>3, <2>4, <2>5, <2>6 DEF Next
<1>2. ThreadInv /\ [Next]_vars => [Kept]_vars
    BY <1>1
<1> QED BY <1>2, ThreadCorrect, PTL DEF Spec, ReadStaysRead

----------------------------------------------------------------------------
(* UnreadMatchesMessages *)

\* The messages a participant has not read, as the counter counts them.
UnreadBy(u) == {i \in DOMAIN messages :
                  messages[i].sender = Other(u) /\ messages[i].status # "READ"}

LEMMA UnreadFinite ==
    ASSUME ThreadInv, NEW u
    PROVE  IsFiniteSet(UnreadBy(u))
<1>1. Len(messages) \in Nat /\ DOMAIN messages = 1 .. Len(messages)
    BY DEF ThreadInv, TypeOK
<1>2. UnreadBy(u) \in SUBSET Nat /\ \A i \in UnreadBy(u) : i <= Len(messages)
    BY <1>1 DEF UnreadBy
<1> QED BY <1>1, <1>2, FS_BoundedSetOfNaturals

\* The two participants are each other's other.
LEMMA OtherOther ==
    ASSUME NEW u \in Users
    PROVE  Other(u) # u /\ Other(Other(u)) = u
BY DEF Users, Other

\* A step that leaves the counters and the unread messages as they were.
LEMMA UnreadKept ==
    ASSUME UnreadMatchesMessages, thread'.unread = thread.unread,
           \A u \in Users : UnreadBy(u)' = UnreadBy(u)
    PROVE  UnreadMatchesMessages'
<1> SUFFICES ASSUME NEW u \in Users
             PROVE  thread'.unread[u] = Cardinality(UnreadBy(u)')
    BY DEF UnreadMatchesMessages, UnreadBy
<1>1. thread.unread[u] = Cardinality(UnreadBy(u))
    BY DEF UnreadMatchesMessages, UnreadBy
<1> QED BY <1>1

\* Cards and notices of the system are nobody's unread messages.
LEMMA SeedsUncounted ==
    ASSUME ThreadInv, NEW new \in Seq(StaysMessage), messages' = messages \o new,
           \A i \in DOMAIN new : new[i].sender = "system",
           NEW u \in Users
    PROVE  UnreadBy(u)' = UnreadBy(u)
<1>1. /\ Len(messages) \in Nat /\ DOMAIN messages = 1 .. Len(messages)
      /\ Len(new) \in Nat /\ DOMAIN new = 1 .. Len(new)
      /\ DOMAIN messages' = 1 .. Len(messages) + Len(new)
    BY DEF ThreadInv, TypeOK
<1>2. \A i \in DOMAIN messages : i \in DOMAIN messages' /\ messages'[i] = messages[i]
    BY <1>1, AppendKeeps
<1>3. ASSUME NEW i \in DOMAIN messages', i \notin DOMAIN messages
      PROVE  messages'[i].sender # Other(u)
    <2>1. i - Len(messages) \in DOMAIN new /\ messages'[i] = new[i - Len(messages)]
        BY <1>1, <1>3 DEF ThreadInv, TypeOK
    <2>2. Other(u) # "system"
        BY OtherUser DEF Users
    <2> QED BY <2>1, <2>2
<1> QED BY <1>2, <1>3 DEF UnreadBy

\* A message of u is one more unread message of the other side and of nobody else.
LEMMA SendCounts ==
    ASSUME ThreadInv, UnreadMatchesMessages, NEW p \in Requests, SendInsert(p)
    PROVE  UnreadMatchesMessages'
<1>0. proc[p].user \in Users /\ proc[p].key \in Keys \cup {NoKey}
    BY DEF ThreadInv, TypeOK, Procs, ProcStates
<1>1. PICK s \in Users : s = proc[p].user
    BY <1>0
<1>m. PICK m \in StaysMessage : m = NewMessage(nextSeq, s, "TEXT", proc[p].key)
    BY <1>0, <1>1, RowTypes, NewMessageType
<1>l. PICK n \in Nat : n = Len(messages) + 1
    BY DEF ThreadInv, TypeOK
<1>2. m.sender = s /\ m.status = "PERSISTED"
    BY <1>m DEF NewMessage
<1>3. /\ thread'.unread[Other(s)] = thread.unread[Other(s)] + 1
      /\ thread'.unread[s] = thread.unread[s]
    <2>1. thread \in StaysConversation /\ Other(s) \in Users /\ Other(s) # s
        BY <1>1, RowTypes, OtherUser, OtherOther
    <2>2. thread'.unread = insertMessage(s).unread
        BY <1>1, <2>1 DEF SendInsert, enqueueDeliveryEvents, insertMessage, StaysConversation
    <2>3. insertMessage(s).unread =
            [thread.unread EXCEPT ![Other(s)] = thread.unread[Other(s)] + 1]
        BY <2>1 DEF insertMessage, StaysConversation
    <2> QED BY <1>1, <2>1, <2>2, <2>3 DEF StaysConversation
<1>4. /\ messages' = Append(messages, m)
      /\ Len(messages) \in Nat /\ DOMAIN messages = 1 .. Len(messages)
    BY <1>1, <1>m DEF SendInsert, ThreadInv, TypeOK
<1>5. /\ DOMAIN messages' = DOMAIN messages \cup {n} /\ n \notin DOMAIN messages
      /\ messages'[n] = m
      /\ \A i \in DOMAIN messages : messages'[i] = messages[i]
    BY <1>4, <1>l DEF ThreadInv, TypeOK
<1>6. UnreadBy(Other(s))' = UnreadBy(Other(s)) \cup {n} /\ n \notin UnreadBy(Other(s))
    BY <1>1, <1>2, <1>5, OtherOther DEF UnreadBy
<1>7. UnreadBy(s)' = UnreadBy(s)
    BY <1>1, <1>2, <1>5, OtherOther DEF UnreadBy
<1>8. Cardinality(UnreadBy(Other(s))') = Cardinality(UnreadBy(Other(s))) + 1
    BY <1>6, UnreadFinite, FS_AddElement
<1>9. \A u \in Users : thread.unread[u] = Cardinality(UnreadBy(u))
    BY DEF UnreadMatchesMessages, UnreadBy
<1>10. \A u \in Users : u = s \/ u = Other(s)
    BY <1>1 DEF Users, Other
<1>11. Other(s) \in Users
    BY <1>1, OtherUser
<1>12. thread'.unread[s] = Cardinality(UnreadBy(s)')
    BY <1>1, <1>3, <1>7, <1>9
<1>13. thread'.unread[Other(s)] = Cardinality(UnreadBy(Other(s))')
    BY <1>3, <1>8, <1>9, <1>11
<1>14. ASSUME NEW u \in Users PROVE thread'.unread[u] = Cardinality(UnreadBy(u)')
    BY <1>10, <1>12, <1>13
<1> QED BY <1>14 DEF UnreadMatchesMessages, UnreadBy

\* markRead empties the unread messages of the reader and no others.
LEMMA ReadEmpties ==
    ASSUME ThreadInv, UnreadMatchesMessages, NEW p \in Requests, MarkRead(p)
    PROVE  UnreadMatchesMessages'
<1>0. PICK r \in Users : r = proc[p].user
    BY DEF ThreadInv, TypeOK, Procs, ProcStates
<1>1. Other(r) \in Users /\ Other(r) # r /\ Other(Other(r)) = r
    BY OtherUser, OtherOther
<1>2. thread'.unread[r] = 0 /\ thread'.unread[Other(r)] = thread.unread[Other(r)]
    BY <1>0, <1>1, RowTypes DEF MarkRead, StaysConversation
<1>3. DOMAIN messages' = DOMAIN messages
    BY DEF MarkRead
<1>4. \A i \in DOMAIN messages :
        messages'[i] = IF messages[i].sender = Other(r)
                       THEN [messages[i] EXCEPT !.status = "READ"] ELSE messages[i]
    BY <1>0 DEF MarkRead
<1>5. ASSUME NEW i \in DOMAIN messages
      PROVE  /\ messages'[i].sender = messages[i].sender
             /\ messages[i].sender = Other(r) => messages'[i].status = "READ"
             /\ messages[i].sender # Other(r) => messages'[i] = messages[i]
    <2>1. messages[i] \in StaysMessage
        BY DEF ThreadInv, TypeOK
    <2> QED BY <1>4, <2>1 DEF StaysMessage
<1>6. UnreadBy(r)' = {}
    BY <1>3, <1>5 DEF UnreadBy
<1>7. UnreadBy(Other(r))' = UnreadBy(Other(r))
    BY <1>1, <1>3, <1>5 DEF UnreadBy
<1>8. \A u \in Users : u = r \/ u = Other(r)
    BY <1>1 DEF Users, Other
<1>9. thread'.unread[r] = Cardinality(UnreadBy(r)')
    BY <1>2, <1>6, FS_EmptySet
<1>10. thread'.unread[Other(r)] = Cardinality(UnreadBy(Other(r))')
    BY <1>1, <1>2, <1>7 DEF UnreadMatchesMessages, UnreadBy
<1>11. ASSUME NEW u \in Users PROVE thread'.unread[u] = Cardinality(UnreadBy(u)')
    BY <1>8, <1>9, <1>10
<1> QED BY <1>11 DEF UnreadMatchesMessages, UnreadBy

\* listMessages moves messages from persisted to delivered: unread both times.
LEMMA DeliverCountsSame ==
    ASSUME ThreadInv, UnreadMatchesMessages, NEW p \in Requests, Deliver(p)
    PROVE  UnreadMatchesMessages'
<1>1. ASSUME NEW i \in DOMAIN messages
      PROVE  /\ messages'[i].sender = messages[i].sender
             /\ messages'[i].status = "READ" <=> messages[i].status = "READ"
    <2>1. messages[i] \in StaysMessage
        BY DEF ThreadInv, TypeOK
    <2>2. messages'[i] = IF i \in proc[p].seen /\ messages[i].status = "PERSISTED"
                         THEN [messages[i] EXCEPT !.status = "DELIVERED"] ELSE messages[i]
        BY DEF Deliver
    <2> QED BY <2>1, <2>2 DEF StaysMessage
<1>2. DOMAIN messages' = DOMAIN messages /\ thread'.unread = thread.unread
    BY DEF Deliver
<1>3. \A u \in Users : UnreadBy(u)' = UnreadBy(u)
    BY <1>1, <1>2 DEF UnreadBy
<1> QED BY <1>2, <1>3, UnreadKept

\* The jobs write cards and notices, and no counter.
LEMMA JobsCountNothing ==
    ASSUME ThreadInv, UnreadMatchesMessages, NEW j \in Jobs, JobStep(j)
    PROVE  UnreadMatchesMessages'
<1>n. Len(messages) \in Nat /\ nextSeq \in Nat /\ nextSeq + 1 \in Nat
    BY RowTypes DEF ThreadInv, TypeOK
<1>t. thread \in StaysConversation
    BY DEF ThreadInv, TypeOK
<1>0. ASSUME messages' = messages, thread'.unread = thread.unread PROVE UnreadMatchesMessages'
    BY <1>0 DEF UnreadMatchesMessages
<1>1. CASE EnterPostStay(j)
    <2> DEFINE new == IF proc[j].flag THEN <<>> ELSE seedCheckoutComplete
    <2>1. /\ NewMessage(nextSeq, "system", "CARD", NoKey) \in StaysMessage
          /\ NewMessage(nextSeq + 1, "system", "REVIEW_CARD", NoKey) \in StaysMessage
        BY <1>n, NewMessageType
    <2>2. new \in Seq(StaysMessage) /\ \A i \in DOMAIN new : new[i].sender = "system"
        BY <2>1 DEF seedCheckoutComplete, NewMessage
    <2>3. messages' = messages \o new /\ thread'.unread = thread.unread
        BY <1>1, <1>t DEF EnterPostStay, StaysConversation
    <2> HIDE DEF new
    <2> QED BY <2>2, <2>3, SeedsUncounted, UnreadKept
<1>2. CASE ArchiveThread(j)
    <2>1. thread'.unread = thread.unread
        BY <1>2, <1>t DEF ArchiveThread, StaysConversation
    <2>2. CASE proc[j].flag
        BY <1>0, <1>2, <2>1, <2>2 DEF ArchiveThread
    <2>3. CASE ~proc[j].flag
        <3> DEFINE new == <<seedConversationArchived>>
        <3>1. seedConversationArchived \in StaysMessage
            BY <1>n, NewMessageType DEF seedConversationArchived
        <3>2. new \in Seq(StaysMessage) /\ \A i \in DOMAIN new : new[i].sender = "system"
            BY <3>1 DEF seedConversationArchived, NewMessage
        <3>3. messages' = messages \o new
            BY <1>2, <2>3, <3>1 DEF ArchiveThread, ThreadInv, TypeOK
        <3> HIDE DEF new
        <3> QED BY <2>1, <3>2, <3>3, SeedsUncounted, UnreadKept
    <2> QED BY <2>2, <2>3
<1>3. CASE LockThread(j)
    BY <1>0, <1>3, <1>t DEF LockThread, StaysConversation
<1>4. CASE ~EnterPostStay(j) /\ ~ArchiveThread(j) /\ ~LockThread(j)
    BY <1>0, <1>4 DEF JobStep, JobContinues, syncFromBooking, AfterCompletion,
           archiveDueConversations, enterPostStay, ReviewCardCheck,
           archiveConversation, ArchiveNoticeCheck
<1> QED BY <1>1, <1>2, <1>3, <1>4

\* Every step but the save of a repair keeps counters and messages together.
LEMMA NextUnread ==
    ASSUME ThreadInv, UnreadMatchesMessages, [Next]_vars,
           \A w \in Repairers : ~RepairSave(w)
    PROVE  UnreadMatchesMessages'
<1>t. thread \in StaysConversation
    BY DEF ThreadInv, TypeOK
<1>0. ASSUME messages' = messages, thread'.unread = thread.unread PROVE UnreadMatchesMessages'
    BY <1>0 DEF UnreadMatchesMessages
<1>1. ASSUME NEW p \in Requests, UserStarts(p) PROVE UnreadMatchesMessages'
    BY <1>0, <1>1 DEF UserStarts, SendBegin, MarkReadBegin, ListBegin, block,
           updateVisibility, reopenConversation
<1>2. ASSUME NEW p \in Requests, UserStep(p) PROVE UnreadMatchesMessages'
    <2>1. CASE SetVisibility(p) \/ SetBlocked(p) \/ Reopen(p)
        BY <1>0, <1>t, <2>1 DEF SetVisibility, SetBlocked, Reopen, StaysConversation
    <2>2. CASE SendLookup(p)
        BY <1>0, <2>2 DEF SendLookup
    <2> QED BY <1>2, <2>1, <2>2, SendCounts, ReadEmpties, DeliverCountsSame DEF UserStep
<1>3. ASSUME NEW p \in Procs, Lost(p) PROVE UnreadMatchesMessages'
    BY <1>0, <1>3 DEF Lost
<1>4. ASSUME NEW w \in Repairers, RepairRead(w) PROVE UnreadMatchesMessages'
    BY <1>0, <1>4 DEF RepairRead
<1>5. CASE BookingChanges \/ GraceEnds \/ UNCHANGED vars
    BY <1>0, <1>5 DEF BookingChanges, GraceEnds, vars
<1> QED BY <1>1, <1>2, <1>3, <1>4, <1>5, JobsCountNothing DEF Next

\* A new thread has a card of the system and nothing unread.
LEMMA InitUnread == Init => UnreadMatchesMessages
<1> SUFFICES ASSUME Init, NEW u \in Users
             PROVE  thread.unread[u] = Cardinality(UnreadBy(u))
    BY DEF UnreadMatchesMessages, UnreadBy
<1>1. thread.unread[u] = 0
    BY DEF Init, NewThread
<1>2. UnreadBy(u) = {}
    <2>1. DOMAIN messages = {1} /\ messages[1].sender = "system"
        BY DEF Init, seedBookingConfirmed, NewMessage
    <2>2. Other(u) # "system"
        BY OtherUser DEF Users
    <2> QED BY <2>1, <2>2 DEF UnreadBy
<1> QED BY <1>1, <1>2, FS_EmptySet

\* Only the save of a snapshot repair, which writes an old image of the row back,
\* can part the unread counters from the messages (repairConversation).
THEOREM OnlyRepairsMiscount ==
    Spec => [][UnreadMatchesMessages /\ (\A w \in Repairers : ~RepairSave(w))
               => UnreadMatchesMessages']_vars
<1>1. ThreadInv /\ [Next]_vars =>
        [UnreadMatchesMessages /\ (\A w \in Repairers : ~RepairSave(w))
         => UnreadMatchesMessages']_vars
    BY NextUnread
<1> QED BY <1>1, ThreadCorrect, PTL DEF Spec

\* Where no snapshot is repaired, the unread counters agree with the messages
\* for any number of sends, reads, listings and jobs (insertMessage, markRead).
THEOREM UnreadCountsAgree ==
    ASSUME Repairers = {}
    PROVE  Spec => []UnreadMatchesMessages
<1>1. ThreadInv /\ UnreadMatchesMessages /\ [Next]_vars => UnreadMatchesMessages'
    BY NextUnread
<1> QED BY <1>1, InitUnread, ThreadCorrect, PTL DEF Spec
==============================================================================
