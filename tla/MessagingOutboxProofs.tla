------------------------ MODULE MessagingOutboxProofs ------------------------
(***************************************************************************)
(* For any number of workers, rows and attempts: an outbox row is recorded *)
(* as done only after its event was delivered, and as failed only after    *)
(* its last attempt.  The invariant OutboxInv adds what makes this hold in *)
(* spite of workers that overwrite each other: whoever is about to record  *)
(* success has delivered, and every image a worker holds, stale or not,    *)
(* leaves room for one more attempt.                                       *)
(***************************************************************************)
EXTENDS MessagingOutbox, TLAPS

\* The parts of the invariant that speak of one row, and of one worker.
RowInv(r) ==
    /\ outbox[r] \in OutboxRows
    /\ outbox[r].status = "DONE" \/ outbox[r].processed => r \in delivered
    /\ outbox[r].status = "FAILED" => ~outbox[r].valid \/ outbox[r].attempts = MaxAttempts
    /\ outbox[r].status \in {"NONE", "PENDING", "PROCESSING"} => outbox[r].attempts < MaxAttempts

WorkerInv(w) ==
    /\ worker[w] \in WorkerStates
    /\ \A r \in Rows : worker[w].image[r] < MaxAttempts
    /\ worker[w].pc = "done" => worker[w].row \in delivered

\* The invariant, row by row and worker by worker.
LEMMA InvByParts ==
    OutboxInv <=> /\ outbox = [r \in Rows |-> outbox[r]]
                  /\ worker = [w \in Workers |-> worker[w]]
                  /\ delivered \in SUBSET Rows
                  /\ \A r \in Rows : RowInv(r)
                  /\ \A w \in Workers : WorkerInv(w)
BY DEF OutboxInv, TypeOK, DoneMeansDelivered, DeadLetterMeansExhausted, RowInv, WorkerInv

\* The same after a step.
LEMMA InvByPartsNext ==
    OutboxInv' <=> /\ outbox' = [r \in Rows |-> outbox'[r]]
                   /\ worker' = [w \in Workers |-> worker'[w]]
                   /\ delivered' \in SUBSET Rows
                   /\ \A r \in Rows : RowInv(r)'
                   /\ \A w \in Workers : WorkerInv(w)'
BY DEF OutboxInv, TypeOK, DoneMeansDelivered, DeadLetterMeansExhausted, RowInv, WorkerInv

\* An idle worker, and one that starts a run, hold no image.
LEMMA IdleWorkerOK ==
    /\ IdleWorker \in WorkerStates
    /\ [IdleWorker EXCEPT !.pc = "claim"] \in WorkerStates
    /\ IdleWorker.pc = "idle" /\ [IdleWorker EXCEPT !.pc = "claim"].pc = "claim"
    /\ \A r \in Rows : IdleWorker.image[r] = 0
                       /\ [IdleWorker EXCEPT !.pc = "claim"].image[r] = 0
BY OutboxAssumption DEF IdleWorker, WorkerStates

\* What a worker continues with keeps the images it had.
LEMMA RunWithOK ==
    ASSUME NEW w \in Workers, NEW todo \in SUBSET Rows, WorkerInv(w)
    PROVE  /\ RunWith(w, todo) \in WorkerStates
           /\ RunWith(w, todo).pc \in {"idle", "next"}
           /\ \A r \in Rows : RunWith(w, todo).image[r] < MaxAttempts
<1>1. worker[w].image \in [Rows -> 0 .. MaxAttempts]
  BY DEF WorkerInv, WorkerStates
<1>2. CASE todo = {}
  BY <1>2, IdleWorkerOK, OutboxAssumption DEF RunWith
<1>3. CASE todo # {}
  <2> DEFINE img == [r \in Rows |-> IF r \in todo THEN worker[w].image[r] ELSE 0]
  <2>1. /\ img \in [Rows -> 0 .. MaxAttempts]
        /\ \A r \in Rows : img[r] < MaxAttempts
    BY <1>1, OutboxAssumption DEF WorkerInv
  <2>2. RunWith(w, todo) = [pc |-> "next", todo |-> todo, row |-> 0, image |-> img]
    BY <1>3 DEF RunWith, IdleWorker
  <2> HIDE DEF img
  <2> QED BY <2>1, <2>2 DEF WorkerStates
<1> QED BY <1>2, <1>3

\* Steps of one worker w that rewrite at most one row r.
LEMMA OneRowOneWorker ==
    ASSUME OutboxInv,
           NEW r \in Rows, NEW row, outbox' = [outbox EXCEPT ![r] = row],
           NEW w \in Workers, NEW state, worker' = [worker EXCEPT ![w] = state],
           delivered' \in SUBSET Rows, delivered \subseteq delivered',
           RowInv(r)', WorkerInv(w)'
    PROVE  OutboxInv'
<1>1. /\ outbox' = [k \in Rows |-> outbox'[k]]
      /\ \A k \in Rows \ {r} : outbox'[k] = outbox[k]
      /\ worker' = [v \in Workers |-> worker'[v]]
      /\ \A v \in Workers \ {w} : worker'[v] = worker[v]
  BY InvByParts
<1>2. \A k \in Rows \ {r} : RowInv(k)'
  BY <1>1, InvByParts DEF RowInv
<1>3. \A v \in Workers \ {w} : WorkerInv(v)'
  BY <1>1, InvByParts DEF WorkerInv
<1> QED BY <1>1, <1>2, <1>3, InvByPartsNext

\* The clock and the enqueuing transactions.
LEMMA RowStepsKeepInv ==
    ASSUME OutboxInv, NEW r \in Rows, enqueue(r) \/ RetryTimeComes(r) \/ GrowsOld(r)
    PROVE  OutboxInv'
<1>1. /\ outbox \in [Rows -> OutboxRows] /\ RowInv(r)
      /\ UNCHANGED <<delivered, worker>>
  BY InvByParts DEF enqueue, RetryTimeComes, GrowsOld, OutboxInv, TypeOK
<1>2. /\ RowInv(r)'
      /\ \A k \in Rows \ {r} : outbox'[k] = outbox[k]
      /\ outbox' = [k \in Rows |-> outbox'[k]]
  <2>1. CASE enqueue(r)
    <3>1. PICK valid \in BOOLEAN :
            outbox' = [outbox EXCEPT ![r] =
                         [status |-> "PENDING", attempts |-> 0, valid |-> valid,
                          due |-> TRUE, old |-> FALSE, processed |-> FALSE]]
      BY <2>1 DEF enqueue, NoRow
    <3>2. /\ outbox'[r] = [status |-> "PENDING", attempts |-> 0, valid |-> valid,
                           due |-> TRUE, old |-> FALSE, processed |-> FALSE]
          /\ \A k \in Rows \ {r} : outbox'[k] = outbox[k]
          /\ outbox' = [k \in Rows |-> outbox'[k]]
      BY <1>1, <3>1
    <3> QED BY <3>2, OutboxAssumption DEF RowInv, OutboxRows, OutboxStatus
  <2>2. CASE RetryTimeComes(r)
    BY <1>1, <2>2 DEF RetryTimeComes, RowInv, OutboxRows
  <2>3. CASE GrowsOld(r)
    BY <1>1, <2>3 DEF GrowsOld, RowInv, OutboxRows
  <2> QED BY <2>1, <2>2, <2>3
<1>3. \A k \in Rows : RowInv(k)'
  BY <1>1, <1>2, InvByParts DEF RowInv
<1>4. \A v \in Workers : WorkerInv(v)'
  BY <1>1, InvByParts DEF WorkerInv
<1> QED BY <1>1, <1>2, <1>3, <1>4, InvByParts, InvByPartsNext

\* Recovery and claim rewrite many rows but only their status and due flag.
LEMMA QueryStepsKeepInv ==
    ASSUME OutboxInv, NEW w \in Workers,
           recoverStaleProcessingRows(w) \/ claimPendingRows(w)
    PROVE  OutboxInv'
<1>1. /\ \A r \in Rows : RowInv(r)
      /\ \A v \in Workers : WorkerInv(v)
      /\ worker = [v \in Workers |-> worker[v]]
      /\ UNCHANGED delivered /\ delivered \in SUBSET Rows
  BY InvByParts DEF recoverStaleProcessingRows, claimPendingRows
<1>2. /\ \A r \in Rows : RowInv(r)'
      /\ outbox' = [r \in Rows |-> outbox'[r]]
  <2>1. CASE recoverStaleProcessingRows(w)
    BY <1>1, <2>1 DEF recoverStaleProcessingRows, Stale, RowInv, OutboxRows, OutboxStatus
  <2>2. CASE claimPendingRows(w)
    <3>1. \A r \in Batch : outbox[r].status = "PENDING"
      BY DEF Batch, Claimable
    <3>2. outbox' = [r \in Rows |-> IF r \in Batch
                                   THEN [outbox[r] EXCEPT !.status = "PROCESSING"]
                                   ELSE outbox[r]]
      BY <2>2 DEF claimPendingRows
    <3> QED BY <1>1, <3>1, <3>2 DEF RowInv, OutboxRows, OutboxStatus
  <2> QED BY <2>1, <2>2
<1>3. /\ WorkerInv(w)'
      /\ \A v \in Workers \ {w} : worker'[v] = worker[v]
      /\ worker' = [v \in Workers |-> worker'[v]]
  <2>1. CASE recoverStaleProcessingRows(w)
    <3> DEFINE started == [IdleWorker EXCEPT !.pc = "claim"]
    <3>1. worker' = [worker EXCEPT ![w] = started]
      BY <2>1 DEF recoverStaleProcessingRows
    <3>2. /\ started \in WorkerStates /\ started.pc = "claim"
          /\ \A r \in Rows : started.image[r] = 0
      BY IdleWorkerOK
    <3> HIDE DEF started
    <3>3. /\ worker'[w] = started
          /\ \A v \in Workers \ {w} : worker'[v] = worker[v]
          /\ worker' = [v \in Workers |-> worker'[v]]
      BY <1>1, <3>1
    <3> QED BY <3>2, <3>3, OutboxAssumption DEF WorkerInv
  <2>2. CASE claimPendingRows(w)
    <3> DEFINE img == [r \in Rows |-> IF r \in Batch THEN outbox[r].attempts ELSE 0]
    <3>1. /\ img \in [Rows -> 0 .. MaxAttempts]
          /\ \A r \in Rows : img[r] < MaxAttempts
      BY <1>1, OutboxAssumption DEF Batch, Claimable, RowInv, OutboxRows
    <3>2. Batch \subseteq Rows
      BY DEF Batch, Claimable
    <3>3. worker' = [worker EXCEPT ![w] =
                       IF Batch = {} THEN IdleWorker
                       ELSE [pc |-> "next", todo |-> Batch, row |-> 0, image |-> img]]
      BY <2>2 DEF claimPendingRows
    <3> HIDE DEF img
    <3> QED BY <1>1, <3>1, <3>2, <3>3, IdleWorkerOK, OutboxAssumption DEF WorkerInv, WorkerStates
  <2> QED BY <2>1, <2>2
<1>4. \A v \in Workers \ {w} : WorkerInv(v)'
  BY <1>1, <1>3 DEF WorkerInv
<1> QED BY <1>1, <1>2, <1>3, <1>4, InvByPartsNext

\* Handling a row: nothing is recorded yet, and success means delivery.
LEMMA HandlingKeepsInv ==
    ASSUME OutboxInv, NEW w \in Workers, HandleNext(w)
    PROVE  OutboxInv'
<1>1. PICK r \in worker[w].todo : publish(w, r) /\ worker[w].pc = "next" /\ UNCHANGED outbox
  BY DEF HandleNext
<1>2. /\ WorkerInv(w) /\ \A k \in Rows : RowInv(k)
      /\ worker = [v \in Workers |-> worker[v]] /\ outbox = [k \in Rows |-> outbox[k]]
      /\ delivered \in SUBSET Rows
  BY InvByParts
<1>3. r \in Rows
  BY <1>1, <1>2 DEF WorkerInv, WorkerStates
<1>4. /\ delivered' \in SUBSET Rows /\ delivered \subseteq delivered'
      /\ worker'[w].pc = "done" => r \in delivered'
      /\ \E pc \in {"done", "failed"} :
           worker' = [worker EXCEPT ![w] = [worker[w] EXCEPT !.pc = pc, !.row = r]]
  BY <1>1, <1>2, <1>3 DEF publish, WorkerInv, WorkerStates
<1>5. PICK pc \in {"done", "failed"} :
        worker' = [worker EXCEPT ![w] = [worker[w] EXCEPT !.pc = pc, !.row = r]]
  BY <1>4
<1>6. WorkerInv(w)'
  BY <1>2, <1>3, <1>4, <1>5 DEF WorkerInv, WorkerStates
<1>7. RowInv(r)'
  BY <1>1, <1>2, <1>3, <1>4 DEF RowInv
<1>8. outbox' = [outbox EXCEPT ![r] = outbox[r]]
  BY <1>1, <1>2, <1>3
<1> QED BY <1>3, <1>4, <1>5, <1>6, <1>7, <1>8, OneRowOneWorker

\* Recording the outcome of the row in hand.
LEMMA RecordingKeepsInv ==
    ASSUME OutboxInv, NEW w \in Workers, MarkDone(w) \/ MarkDoneThrows(w) \/ MarkFailed(w)
    PROVE  OutboxInv'
<1>0. PICK r \in Rows : r = worker[w].row
  BY InvByParts DEF MarkDone, MarkDoneThrows, MarkFailed, WorkerInv, WorkerStates
<1> DEFINE rest == RunWith(w, worker[w].todo \ {r})
           attempts == worker[w].image[r] + 1
           permanent == isPermanentFailure(r, attempts)
           doneRow == [outbox[r] EXCEPT !.status = "DONE", !.processed = TRUE]
           failedRow == [outbox[r] EXCEPT !.status = IF permanent THEN "FAILED" ELSE "PENDING",
                                          !.attempts = attempts, !.due = permanent]
<1>1. /\ RowInv(r) /\ WorkerInv(w)
      /\ outbox = [k \in Rows |-> outbox[k]] /\ worker = [v \in Workers |-> worker[v]]
      /\ delivered \in SUBSET Rows /\ delivered' = delivered
      /\ worker[w].todo \in SUBSET Rows
  BY InvByParts DEF MarkDone, MarkDoneThrows, MarkFailed, WorkerInv, WorkerStates
<1>2. /\ rest \in WorkerStates /\ rest.pc \in {"idle", "next"}
      /\ \A k \in Rows : rest.image[k] < MaxAttempts
  BY <1>1, RunWithOK
<1>3. CASE MarkDone(w)
  <2>1. /\ outbox' = [outbox EXCEPT ![r] = doneRow]
        /\ worker' = [worker EXCEPT ![w] = rest]
        /\ r \in delivered
    BY <1>0, <1>1, <1>3 DEF MarkDone, RowInv, OutboxRows, WorkerInv
  <2>2. RowInv(r)'
    BY <1>1, <2>1 DEF RowInv, OutboxRows, OutboxStatus
  <2>3. WorkerInv(w)'
    BY <1>1, <1>2, <2>1 DEF WorkerInv
  <2> QED BY <1>1, <2>1, <2>2, <2>3, OneRowOneWorker
<1>4. CASE MarkDoneThrows(w)
  <2>1. /\ \/ outbox' = [outbox EXCEPT ![r] = doneRow]
           \/ outbox' = [outbox EXCEPT ![r] = outbox[r]]
        /\ worker' = [worker EXCEPT ![w] = [worker[w] EXCEPT !.pc = "failed"]]
        /\ r \in delivered /\ worker[w].pc = "done"
    BY <1>0, <1>1, <1>4 DEF MarkDoneThrows, RowInv, OutboxRows, WorkerInv
  <2>2. RowInv(r)'
    <3>1. CASE outbox' = [outbox EXCEPT ![r] = doneRow]
      BY <1>1, <2>1, <3>1 DEF RowInv, OutboxRows, OutboxStatus
    <3>2. CASE outbox' = [outbox EXCEPT ![r] = outbox[r]]
      <4>1. outbox'[r] = outbox[r]
        BY <1>1, <3>2
      <4> QED BY <1>1, <4>1 DEF RowInv
    <3> QED BY <2>1, <3>1, <3>2
  <2>3. WorkerInv(w)'
    BY <1>1, <2>1 DEF WorkerInv, WorkerStates
  <2> QED BY <1>1, <2>1, <2>2, <2>3, OneRowOneWorker
<1>5. CASE MarkFailed(w)
  <2>1. /\ outbox' = [outbox EXCEPT ![r] = failedRow]
        /\ worker' = [worker EXCEPT ![w] = rest]
    BY <1>0, <1>1, <1>5 DEF MarkFailed
  <2>2. /\ attempts \in 0 .. MaxAttempts
        /\ permanent \in BOOLEAN
        /\ permanent => ~outbox[r].valid \/ attempts = MaxAttempts
        /\ ~permanent => attempts < MaxAttempts
    BY <1>1, OutboxAssumption DEF WorkerInv, WorkerStates, isPermanentFailure
  <2> HIDE DEF attempts, permanent
  <2>3. RowInv(r)'
    BY <1>1, <2>1, <2>2 DEF RowInv, OutboxRows, OutboxStatus
  <2>4. WorkerInv(w)'
    BY <1>1, <1>2, <2>1 DEF WorkerInv
  <2> HIDE DEF failedRow, rest
  <2> QED BY <1>1, <2>1, <2>3, <2>4, OneRowOneWorker
<1> QED BY <1>3, <1>4, <1>5

\* A lost run only forgets what it held.
LEMMA LostRunKeepsInv ==
    ASSUME OutboxInv, NEW w \in Workers, RunLost(w)
    PROVE  OutboxInv'
<1>1. /\ worker' = [v \in Workers |-> worker'[v]]
      /\ worker'[w] = IdleWorker
      /\ \A v \in Workers \ {w} : worker'[v] = worker[v]
      /\ UNCHANGED <<outbox, delivered>>
  BY InvByParts DEF RunLost
<1>2. \A v \in Workers : WorkerInv(v)'
  BY <1>1, InvByParts, IdleWorkerOK, OutboxAssumption DEF WorkerInv
<1>3. \A r \in Rows : RowInv(r)'
  BY <1>1, InvByParts DEF RowInv
<1> QED BY <1>1, <1>2, <1>3, InvByParts, InvByPartsNext

\* At the start the outbox is empty and every worker idle.
LEMMA InitInv == Init => OutboxInv
<1> SUFFICES ASSUME Init PROVE OutboxInv
  OBVIOUS
<1>1. \A r \in Rows : RowInv(r)
  BY OutboxAssumption DEF Init, RowInv, NoRow, OutboxRows, OutboxStatus
<1>2. \A w \in Workers : WorkerInv(w)
  BY IdleWorkerOK, OutboxAssumption DEF Init, WorkerInv
<1> QED BY <1>1, <1>2, InvByParts DEF Init

\* Every step keeps the invariant.
LEMMA NextInv == OutboxInv /\ [Next]_vars => OutboxInv'
<1> SUFFICES ASSUME OutboxInv, [Next]_vars PROVE OutboxInv'
  OBVIOUS
<1>1. CASE UNCHANGED vars
  BY <1>1 DEF vars, OutboxInv, TypeOK, DoneMeansDelivered, DeadLetterMeansExhausted
<1>2. ASSUME NEW r \in Rows, enqueue(r) \/ RetryTimeComes(r) \/ GrowsOld(r)
      PROVE  OutboxInv'
  BY <1>2, RowStepsKeepInv
<1>3. ASSUME NEW w \in Workers, processOutbox(w) \/ MarkDoneThrows(w) \/ RunLost(w)
      PROVE  OutboxInv'
  BY <1>3, QueryStepsKeepInv, HandlingKeepsInv, RecordingKeepsInv, LostRunKeepsInv
     DEF processOutbox
<1> QED BY <1>1, <1>2, <1>3 DEF Next

\* The invariant holds in every reachable state.
LEMMA InvAlways == Spec => []OutboxInv
BY InitInv, NextInv, PTL DEF Spec

\* MessagingOutboxWorker records a row as done only after delivering it, for
\* any number of instances and whatever they overwrite.
THEOREM DeliveredBeforeDone == Spec => []DoneMeansDelivered
<1>1. OutboxInv => DoneMeansDelivered
  BY DEF OutboxInv
<1> QED BY <1>1, InvAlways, PTL

\* MessagingOutboxWorker gives up on a valid event only after exactly
\* MAX_OUTBOX_ATTEMPTS attempts on its counter.
THEOREM FailedOnlyExhausted == Spec => []DeadLetterMeansExhausted
<1>1. OutboxInv => DeadLetterMeansExhausted
  BY DEF OutboxInv
<1> QED BY <1>1, InvAlways, PTL

\* The rows of the outbox and the images of the workers keep their types.
THEOREM OutboxTyped == Spec => []TypeOK
<1>1. OutboxInv => TypeOK
  BY DEF OutboxInv
<1> QED BY <1>1, InvAlways, PTL

----------------------------------------------------------------------------
(* What exclusive claims need: OneWorkerPerRow fails because recovery puts   *)
(* back rows by their age, and for no other reason.                          *)

\* Recovery puts back only rows that no worker holds.
RequeuesOnlyAbandoned ==
    \A w \in Workers : recoverStaleProcessingRows(w) =>
        \A v \in Workers : \A r \in worker[v].todo : ~Stale(r)

\* A claimed row stays claimed, by one worker, whose image counts its attempts.
ClaimsInv ==
    /\ \A w \in Workers : \A r \in worker[w].todo :
         outbox[r].status \in {"PROCESSING", "DONE"} /\ worker[w].image[r] = outbox[r].attempts
    /\ \A w \in Workers : worker[w].pc \in {"done", "failed"} => worker[w].row \in worker[w].todo
    /\ \A r \in Rows : outbox[r].status = "NONE" => outbox[r].attempts = 0
    /\ OneWorkerPerRow

\* Steps of one worker w that rewrite no row another worker holds.
LEMMA ClaimsStep ==
    ASSUME OutboxInv, ClaimsInv, NEW w \in Workers,
           \A v \in Workers \ {w} : worker'[v] = worker[v],
           \A v \in Workers \ {w} : \A r \in worker[v].todo :
               r \notin worker'[w].todo /\ outbox'[r].status = outbox[r].status /\ outbox'[r].attempts = outbox[r].attempts,
           \A r \in worker'[w].todo : outbox'[r].status \in {"PROCESSING", "DONE"} /\ worker'[w].image[r] = outbox'[r].attempts,
           worker'[w].pc \in {"done", "failed"} => worker'[w].row \in worker'[w].todo,
           \A r \in Rows : outbox'[r].status = "NONE" => outbox'[r].attempts = 0
    PROVE  ClaimsInv'
BY DEF ClaimsInv, OneWorkerPerRow

\* What a worker goes on with is what it held, with the images it had.
LEMMA RunWithHolds ==
    ASSUME NEW w \in Workers, NEW todo \in SUBSET Rows
    PROVE  /\ RunWith(w, todo).todo = todo /\ RunWith(w, todo).pc \in {"idle", "next"}
           /\ \A r \in todo : RunWith(w, todo).image[r] = worker[w].image[r]
<1>1. CASE todo = {}
  BY <1>1 DEF RunWith, IdleWorker
<1>2. CASE todo # {}
  <2>1. RunWith(w, todo) = [pc |-> "next", todo |-> todo, row |-> 0,
                            image |-> [r \in Rows |-> IF r \in todo THEN worker[w].image[r] ELSE 0]]
    BY <1>2 DEF RunWith, IdleWorker
  <2>2. QED
    BY <2>1
<1>3. QED
  BY <1>1, <1>2

\* Handling the row in hand rewrites only that row, and lets go of it.
LEMMA HandlingKeepsClaims ==
    ASSUME OutboxInv, ClaimsInv, NEW w \in Workers,
           HandleNext(w) \/ MarkDone(w) \/ MarkDoneThrows(w) \/ MarkFailed(w)
    PROVE  ClaimsInv'
<1>1. /\ worker \in [Workers -> WorkerStates] /\ outbox \in [Rows -> OutboxRows]
      /\ \A v \in Workers : worker[v].todo \subseteq Rows
  BY DEF OutboxInv, TypeOK, WorkerStates
<1>2. \A v \in Workers \ {w} : worker[v].todo \cap worker[w].todo = {}
  BY DEF ClaimsInv, OneWorkerPerRow
<1>3. CASE HandleNext(w)
  <2>1. PICK r \in worker[w].todo : \E pc \in {"done", "failed"} :
          worker' = [worker EXCEPT ![w] = [worker[w] EXCEPT !.pc = pc, !.row = r]] /\ UNCHANGED outbox
    BY <1>1, <1>3 DEF HandleNext, publish, WorkerStates
  <2>2. PICK pc \in {"done", "failed"} :
          worker' = [worker EXCEPT ![w] = [worker[w] EXCEPT !.pc = pc, !.row = r]] /\ UNCHANGED outbox
    BY <2>1
  <2>3. PICK x : /\ x = [worker[w] EXCEPT !.pc = pc, !.row = r]
                 /\ worker'[w] = x /\ \A v \in Workers \ {w} : worker'[v] = worker[v]
    BY <1>1, <2>2
  <2>4. x.todo = worker[w].todo /\ x.image = worker[w].image /\ x.row = r
    BY <1>1, <2>3 DEF WorkerStates
  <2>5. \A v \in Workers \ {w} : \A k \in worker[v].todo : k \notin x.todo
    BY <1>2, <2>4
  <2>6. \A k \in x.todo : outbox[k].status \in {"PROCESSING", "DONE"} /\ x.image[k] = outbox[k].attempts
    BY <2>4 DEF ClaimsInv
  <2>7. x.row \in x.todo /\ \A k \in Rows : outbox[k].status = "NONE" => outbox[k].attempts = 0
    BY <2>1, <2>4 DEF ClaimsInv
  <2>8. outbox' = outbox
    BY <2>2
  <2>9. QED
    <3>1. worker'[w] = x
      BY <2>3
    <3>2. /\ \A v \in Workers \ {w} : worker'[v] = worker[v]
          /\ \A v \in Workers \ {w} : \A k \in worker[v].todo :
               k \notin worker'[w].todo /\ outbox'[k].status = outbox[k].status /\ outbox'[k].attempts = outbox[k].attempts
      BY <2>3, <2>5, <2>8
    <3>3. \A k \in worker'[w].todo : outbox'[k].status \in {"PROCESSING", "DONE"} /\ worker'[w].image[k] = outbox'[k].attempts
      BY <3>1, <2>6, <2>8
    <3>4. worker'[w].row \in worker'[w].todo
      BY <3>1, <2>7
    <3>5. \A k \in Rows : outbox'[k].status = "NONE" => outbox'[k].attempts = 0
      BY <2>7, <2>8
    <3>6. QED
      BY <3>2, <3>3, <3>4, <3>5, ClaimsStep
<1>4. CASE MarkDoneThrows(w)
  <2>1. PICK x : x = [worker[w] EXCEPT !.pc = "failed"] /\ worker'[w] = x /\ \A v \in Workers \ {w} : worker'[v] = worker[v]
    BY <1>1, <1>4 DEF MarkDoneThrows
  <2>2. x.todo = worker[w].todo /\ x.image = worker[w].image /\ x.row = worker[w].row
    BY <1>1, <2>1 DEF WorkerStates
  <2>3. worker[w].row \in worker[w].todo
    BY <1>4 DEF ClaimsInv, MarkDoneThrows
  <2>4. PICK r \in Rows : r = worker[w].row
    BY <1>1, <2>3
  <2>5. outbox' = [outbox EXCEPT ![r].status = "DONE", ![r].processed = TRUE] \/ outbox' = outbox
    BY <1>4, <2>4 DEF MarkDoneThrows
  <2>6. \A k \in Rows : /\ outbox'[k].attempts = outbox[k].attempts
                        /\ k # r => outbox'[k] = outbox[k]
                        /\ outbox'[k].status \in {"DONE", outbox[k].status}
    BY <1>1, <2>5 DEF OutboxRows
  <2>7. \A v \in Workers \ {w} : \A k \in worker[v].todo :
           k \notin x.todo /\ outbox'[k].status = outbox[k].status /\ outbox'[k].attempts = outbox[k].attempts
    BY <1>1, <1>2, <2>2, <2>3, <2>4, <2>6
  <2>8. \A k \in x.todo : outbox'[k].status \in {"PROCESSING", "DONE"} /\ x.image[k] = outbox'[k].attempts
    BY <1>1, <2>2, <2>6 DEF ClaimsInv
  <2>9. \A k \in Rows : outbox'[k].status = "NONE" => outbox'[k].attempts = 0
    BY <2>6 DEF ClaimsInv
  <2>10. QED
    <3>1. worker'[w] = x /\ \A v \in Workers \ {w} : worker'[v] = worker[v]
      BY <2>1
    <3>2. \A v \in Workers \ {w} : \A k \in worker[v].todo :
             k \notin worker'[w].todo /\ outbox'[k].status = outbox[k].status /\ outbox'[k].attempts = outbox[k].attempts
      BY <3>1, <2>7
    <3>3. \A k \in worker'[w].todo : outbox'[k].status \in {"PROCESSING", "DONE"} /\ worker'[w].image[k] = outbox'[k].attempts
      BY <3>1, <2>8
    <3>4. worker'[w].pc \in {"done", "failed"} => worker'[w].row \in worker'[w].todo
      BY <3>1, <2>2, <2>3
    <3>5. QED
      BY <3>1, <3>2, <3>3, <3>4, <2>9, ClaimsStep
<1>5. CASE MarkDone(w) \/ MarkFailed(w)
  <2>1. worker[w].row \in worker[w].todo
    BY <1>5 DEF ClaimsInv, MarkDone, MarkFailed
  <2>2. PICK r \in Rows : r = worker[w].row
    BY <1>1, <2>1
  <2>3. PICK x : x = RunWith(w, worker[w].todo \ {r}) /\ worker'[w] = x /\ \A v \in Workers \ {w} : worker'[v] = worker[v]
    BY <1>1, <1>5, <2>2 DEF MarkDone, MarkFailed
  <2>4. /\ x.todo = worker[w].todo \ {r} /\ x.pc \in {"idle", "next"}
        /\ \A k \in x.todo : x.image[k] = worker[w].image[k]
    BY <1>1, <2>3, RunWithHolds
  <2>5. \A k \in Rows \ {r} : outbox'[k] = outbox[k]
    BY <1>1, <1>5, <2>2 DEF MarkDone, MarkFailed
  <2>6. outbox'[r].status # "NONE"
    <3>1. CASE MarkDone(w)
      BY <1>1, <2>2, <3>1 DEF MarkDone, OutboxRows
    <3>2. CASE MarkFailed(w)
      BY <1>1, <2>2, <3>2 DEF MarkFailed, OutboxRows
    <3>3. QED
      BY <1>5, <3>1, <3>2
  <2>7. \A v \in Workers \ {w} : \A k \in worker[v].todo : k \notin x.todo /\ outbox'[k] = outbox[k]
    BY <1>1, <1>2, <2>1, <2>2, <2>4, <2>5
  <2>8. \A k \in x.todo : outbox'[k].status \in {"PROCESSING", "DONE"} /\ x.image[k] = outbox'[k].attempts
    BY <1>1, <2>4, <2>5 DEF ClaimsInv
  <2>9. \A k \in Rows : outbox'[k].status = "NONE" => outbox'[k].attempts = 0
    BY <2>5, <2>6 DEF ClaimsInv
  <2>10. QED
    <3>1. worker'[w] = x /\ \A v \in Workers \ {w} : worker'[v] = worker[v]
      BY <2>3
    <3>2. \A v \in Workers \ {w} : \A k \in worker[v].todo :
             k \notin worker'[w].todo /\ outbox'[k].status = outbox[k].status /\ outbox'[k].attempts = outbox[k].attempts
      BY <3>1, <2>7
    <3>3. \A k \in worker'[w].todo : outbox'[k].status \in {"PROCESSING", "DONE"} /\ worker'[w].image[k] = outbox'[k].attempts
      BY <3>1, <2>8
    <3>4. worker'[w].pc \in {"done", "failed"} => worker'[w].row \in worker'[w].todo
      BY <3>1, <2>4
    <3>5. QED
      BY <3>1, <3>2, <3>3, <3>4, <2>9, ClaimsStep
<1>6. QED
  BY <1>3, <1>4, <1>5

\* Recovery puts back none of the claimed rows, and a claim takes rows not claimed.
LEMMA QueriesKeepClaims ==
    ASSUME OutboxInv, ClaimsInv, RequeuesOnlyAbandoned, NEW w \in Workers,
           recoverStaleProcessingRows(w) \/ claimPendingRows(w) \/ RunLost(w)
    PROVE  ClaimsInv'
<1>1. /\ worker \in [Workers -> WorkerStates] /\ outbox \in [Rows -> OutboxRows]
      /\ \A v \in Workers : worker[v].todo \subseteq Rows
  BY DEF OutboxInv, TypeOK, WorkerStates
<1>2. CASE recoverStaleProcessingRows(w)
  <2>1. PICK x : x = [IdleWorker EXCEPT !.pc = "claim"] /\ worker'[w] = x /\ \A v \in Workers \ {w} : worker'[v] = worker[v]
    BY <1>1, <1>2 DEF recoverStaleProcessingRows
  <2>2. x.todo = {} /\ x.pc = "claim"
    BY <2>1 DEF IdleWorker
  <2>3. \A v \in Workers : \A r \in worker[v].todo : outbox'[r] = outbox[r]
    BY <1>1, <1>2 DEF RequeuesOnlyAbandoned, recoverStaleProcessingRows
  <2>4. \A r \in Rows : outbox'[r].status = "NONE" => outbox'[r].attempts = 0
    BY <1>1, <1>2 DEF recoverStaleProcessingRows, ClaimsInv, OutboxRows
  <2>5. QED
    <3>1. worker'[w] = x /\ \A v \in Workers \ {w} : worker'[v] = worker[v]
      BY <2>1
    <3>2. \A v \in Workers \ {w} : \A k \in worker[v].todo :
             k \notin worker'[w].todo /\ outbox'[k].status = outbox[k].status /\ outbox'[k].attempts = outbox[k].attempts
      BY <3>1, <2>2, <2>3
    <3>3. \A k \in worker'[w].todo : outbox'[k].status \in {"PROCESSING", "DONE"} /\ worker'[w].image[k] = outbox'[k].attempts
      BY <3>1, <2>2
    <3>4. worker'[w].pc \in {"done", "failed"} => worker'[w].row \in worker'[w].todo
      BY <3>1, <2>2
    <3>5. QED
      BY <3>1, <3>2, <3>3, <3>4, <2>4, ClaimsStep
<1>3. CASE claimPendingRows(w)
  <2>1. Batch \subseteq Rows /\ \A r \in Batch : outbox[r].status = "PENDING"
    BY DEF Batch, Claimable
  <2>2. \A v \in Workers : \A r \in worker[v].todo : r \notin Batch
    BY <2>1 DEF ClaimsInv
  <2>3. \A r \in Rows : outbox'[r] = IF r \in Batch THEN [outbox[r] EXCEPT !.status = "PROCESSING"] ELSE outbox[r]
    BY <1>3 DEF claimPendingRows
  <2>4. PICK x : /\ worker'[w] = x /\ \A v \in Workers \ {w} : worker'[v] = worker[v]
                 /\ x = IF Batch = {} THEN IdleWorker
                        ELSE [pc |-> "next", todo |-> Batch, row |-> 0,
                              image |-> [r \in Rows |-> IF r \in Batch THEN outbox[r].attempts ELSE 0]]
    BY <1>1, <1>3 DEF claimPendingRows
  <2>5. /\ x.todo = Batch /\ x.pc \in {"idle", "next"}
        /\ \A r \in Batch : x.image[r] = outbox[r].attempts
    BY <2>1, <2>4 DEF IdleWorker
  <2>6. \A r \in Batch : outbox'[r].status = "PROCESSING" /\ outbox'[r].attempts = outbox[r].attempts
    BY <1>1, <2>1, <2>3 DEF OutboxRows
  <2>7. \A v \in Workers : \A r \in worker[v].todo : outbox'[r] = outbox[r]
    BY <1>1, <2>2, <2>3
  <2>8. \A r \in Rows : outbox'[r].status = "NONE" => outbox'[r].attempts = 0
    BY <2>3, <2>6 DEF ClaimsInv
  <2>9. \A v \in Workers \ {w} : \A r \in worker[v].todo : r \notin x.todo /\ outbox'[r] = outbox[r]
    BY <2>2, <2>5, <2>7
  <2>10. \A r \in x.todo : outbox'[r].status \in {"PROCESSING", "DONE"} /\ x.image[r] = outbox'[r].attempts
    BY <2>5, <2>6
  <2>11. QED
    BY <2>4, <2>5, <2>8, <2>9, <2>10, ClaimsStep
<1>4. CASE RunLost(w)
  <2>1. PICK x : x = IdleWorker /\ worker'[w] = x /\ (\A v \in Workers \ {w} : worker'[v] = worker[v]) /\ UNCHANGED outbox
    BY <1>1, <1>4 DEF RunLost
  <2>2. x.todo = {} /\ x.pc = "idle"
    BY <2>1 DEF IdleWorker
  <2>3. \A r \in Rows : outbox'[r].status = "NONE" => outbox'[r].attempts = 0
    BY <2>1 DEF ClaimsInv
  <2>4. QED
    BY <2>1, <2>2, <2>3, ClaimsStep
<1>5. QED
  BY <1>2, <1>3, <1>4

\* New rows and the clock touch no claim.
LEMMA RowStepsKeepClaims ==
    ASSUME OutboxInv, ClaimsInv, NEW r \in Rows, enqueue(r) \/ RetryTimeComes(r) \/ GrowsOld(r)
    PROVE  ClaimsInv'
<1>1. outbox \in [Rows -> OutboxRows] /\ \A v \in Workers : worker[v].todo \subseteq Rows
  BY DEF OutboxInv, TypeOK, WorkerStates
<1>2. /\ \A k \in Rows : outbox[k].status # "NONE" =>
            outbox'[k].status = outbox[k].status /\ outbox'[k].attempts = outbox[k].attempts
      /\ \A k \in Rows : outbox'[k].status = "NONE" => outbox'[k].attempts = 0
  <2>1. CASE enqueue(r)
    <3>1. PICK row : row.status = "PENDING" /\ outbox' = [outbox EXCEPT ![r] = row] /\ outbox[r].status = "NONE"
      BY <2>1 DEF enqueue, NoRow
    <3>2. QED
      BY <1>1, <3>1 DEF ClaimsInv
  <2>2. CASE RetryTimeComes(r) \/ GrowsOld(r)
    BY <1>1, <2>2 DEF RetryTimeComes, GrowsOld, OutboxRows, ClaimsInv
  <2>3. QED
    BY <2>1, <2>2
<1>3. worker' = worker
  BY DEF enqueue, RetryTimeComes, GrowsOld
<1>4. QED
  BY <1>1, <1>2, <1>3 DEF ClaimsInv, OneWorkerPerRow

LEMMA ClaimsHold == Spec /\ [][RequeuesOnlyAbandoned]_vars => []ClaimsInv
<1>1. Init => ClaimsInv
  <2>1. Init => /\ \A w \in Workers : worker[w].todo = {} /\ worker[w].pc = "idle"
                /\ \A r \in Rows : outbox[r].attempts = 0
    BY DEF Init, IdleWorker, NoRow
  <2>2. QED
    BY <2>1 DEF ClaimsInv, OneWorkerPerRow
<1>2. OutboxInv /\ ClaimsInv /\ [Next]_vars /\ [RequeuesOnlyAbandoned]_vars => ClaimsInv'
  <2> SUFFICES ASSUME OutboxInv, ClaimsInv, [Next]_vars, [RequeuesOnlyAbandoned]_vars
               PROVE  ClaimsInv'
    OBVIOUS
  <2>1. CASE UNCHANGED vars
    BY <2>1 DEF vars, ClaimsInv, OneWorkerPerRow
  <2>2. CASE Next /\ RequeuesOnlyAbandoned
    BY <2>2, RowStepsKeepClaims, QueriesKeepClaims, HandlingKeepsClaims DEF Next, processOutbox
  <2>3. QED
    BY <2>1, <2>2
<1>3. QED
  BY <1>1, <1>2, InvAlways, PTL DEF Spec

\* claimPendingRows is "multi-instance safe" as far as the claim itself goes: if
\* recoverStaleProcessingRows put back only rows that nobody holds, no two workers
\* would ever hold the same row, for any number of instances, retries and crashes.
THEOREM ClaimsAreExclusive == Spec /\ [][RequeuesOnlyAbandoned]_vars => []OneWorkerPerRow
<1>1. ClaimsInv => OneWorkerPerRow
  BY DEF ClaimsInv
<1>2. QED
  BY <1>1, ClaimsHold, PTL

\* A failure that a worker records raises the attempts of its row by one, and
\* nothing else changes the attempts of any row.
AttemptsCounted ==
    /\ \A w \in Workers : MarkFailed(w) =>
          outbox'[worker[w].row].attempts = outbox[worker[w].row].attempts + 1
    /\ \A r \in Rows : outbox'[r].attempts # outbox[r].attempts =>
          \E w \in Workers : MarkFailed(w) /\ worker[w].row = r

\* The counter of processOutbox then counts every recorded failure exactly once; as
\* it is, a worker may write back a count that another worker has raised since.
THEOREM AttemptsAreCounted == Spec /\ [][RequeuesOnlyAbandoned]_vars => [][AttemptsCounted]_vars
<1>1. OutboxInv /\ ClaimsInv /\ [Next]_vars => [AttemptsCounted]_vars
  <2> SUFFICES ASSUME OutboxInv, ClaimsInv, Next
               PROVE  AttemptsCounted
    OBVIOUS
  <2>1. outbox \in [Rows -> OutboxRows] /\ \A v \in Workers : worker[v].todo \subseteq Rows
    BY DEF OutboxInv, TypeOK, WorkerStates
  <2> DEFINE Kept == \A k \in Rows : outbox'[k].attempts = outbox[k].attempts
  <2>2. ASSUME NEW r \in Rows, enqueue(r) PROVE Kept
    <3>1. PICK row : row.attempts = 0 /\ outbox' = [outbox EXCEPT ![r] = row] /\ outbox[r].status = "NONE"
      BY <2>2 DEF enqueue, NoRow
    <3>2. QED
      BY <2>1, <3>1 DEF ClaimsInv
  <2>3. ASSUME NEW r \in Rows, RetryTimeComes(r) \/ GrowsOld(r) PROVE Kept
    BY <2>1, <2>3 DEF RetryTimeComes, GrowsOld, OutboxRows
  <2>4. ASSUME NEW w \in Workers, recoverStaleProcessingRows(w) \/ claimPendingRows(w)
        PROVE  Kept
    <3> SUFFICES ASSUME NEW k \in Rows PROVE outbox'[k].attempts = outbox[k].attempts
      OBVIOUS
    <3>1. outbox'[k] \in {outbox[k], [outbox[k] EXCEPT !.status = "PENDING", !.due = TRUE],
                          [outbox[k] EXCEPT !.status = "PROCESSING"]}
      BY <2>4 DEF recoverStaleProcessingRows, claimPendingRows
    <3>2. QED
      BY <2>1, <3>1 DEF OutboxRows
  <2>5. ASSUME NEW w \in Workers, HandleNext(w) \/ MarkDone(w) \/ MarkDoneThrows(w) \/ RunLost(w)
        PROVE  Kept
    BY <2>1, <2>5 DEF HandleNext, MarkDone, MarkDoneThrows, RunLost, OutboxRows
  <2>6. ASSUME NEW w \in Workers, MarkFailed(w)
        PROVE  /\ outbox'[worker[w].row].attempts = outbox[worker[w].row].attempts + 1
               /\ \A k \in Rows : outbox'[k].attempts # outbox[k].attempts => worker[w].row = k
    <3>1. worker[w].row \in worker[w].todo /\ worker[w].image[worker[w].row] = outbox[worker[w].row].attempts
      BY <2>6 DEF MarkFailed, ClaimsInv
    <3>2. PICK r \in Rows : r = worker[w].row
      BY <2>1, <3>1
    <3>3. outbox'[r].attempts = outbox[r].attempts + 1 /\ \A j \in Rows \ {r} : outbox'[j] = outbox[j]
      BY <2>1, <2>6, <3>1, <3>2 DEF MarkFailed, OutboxRows
    <3>4. QED
      BY <3>2, <3>3
  <2>7. Kept \/ \E w \in Workers : MarkFailed(w)
    BY <2>2, <2>3, <2>4, <2>5 DEF Next, processOutbox
  <2>8. QED
    BY <2>6, <2>7 DEF AttemptsCounted
<1>2. QED
  BY <1>1, ClaimsHold, InvAlways, PTL DEF Spec
=============================================================================
