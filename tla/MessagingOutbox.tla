--------------------------- MODULE MessagingOutbox ---------------------------
(***************************************************************************)
(* stays_messaging_outbox and MessagingOutboxWorker: events are enqueued   *)
(* in the transaction of what they report, and every instance of the       *)
(* service runs a worker that claims rows, handles them and records the    *)
(* outcome, one statement at a time.                                       *)
(*                                                                         *)
(* Time is only what the two queries compare: a row is due when            *)
(* next_retry_at has passed, and old one minute after created_at.  Rows    *)
(* are numbered in the order of created_at.                                *)
(***************************************************************************)
EXTENDS Integers, FiniteSets

CONSTANTS
    Workers,        \* one worker per instance of the service
    MaxRows,        \* bound on outbox rows
    BatchLimit,     \* rows a worker claims at a time (20 in the code)
    MaxAttempts     \* MAX_OUTBOX_ATTEMPTS

ASSUME OutboxAssumption ==
    /\ MaxRows \in Nat
    /\ BatchLimit \in Nat \ {0}
    /\ MaxAttempts \in Nat \ {0}

VARIABLES
    outbox,         \* the rows
    delivered,      \* external: events that reached the bus, or repairs done
    worker          \* progress of each worker

vars == <<outbox, delivered, worker>>

Rows == 1 .. MaxRows

OutboxStatus == {"NONE", "PENDING", "PROCESSING", "DONE", "FAILED"}

\* valid: the payload passes the event schema; processed: processed_at is set.
OutboxRows == [status : OutboxStatus, attempts : 0 .. MaxAttempts, valid : BOOLEAN,
               due : BOOLEAN, old : BOOLEAN, processed : BOOLEAN]

NoRow == [status |-> "NONE", attempts |-> 0, valid |-> FALSE,
          due |-> FALSE, old |-> FALSE, processed |-> FALSE]

\* todo: claimed rows not yet handled; row: the one in hand; image: the
\* attempts column of each row as the claim returned it.
IdleWorker == [pc |-> "idle", todo |-> {}, row |-> 0, image |-> [r \in Rows |-> 0]]
WorkerStates ==
    [pc : {"idle", "claim", "next"}, todo : SUBSET Rows, row : {0},
     image : [Rows -> 0 .. MaxAttempts]] \cup
    [pc : {"done", "failed"}, todo : SUBSET Rows, row : Rows,
     image : [Rows -> 0 .. MaxAttempts]]

----------------------------------------------------------------------------
(* MessagingOutboxService *)

\* enqueue and enqueueDirect: committed with, or without, a transaction.
enqueue(r) ==
    \E valid \in BOOLEAN :
        /\ outbox[r].status = "NONE"
        /\ \A k \in 1 .. (r - 1) : outbox[k].status # "NONE"
        /\ outbox' = [outbox EXCEPT ![r] =
                        [NoRow EXCEPT !.status = "PENDING", !.valid = valid, !.due = TRUE]]
        /\ UNCHANGED <<delivered, worker>>

----------------------------------------------------------------------------
(* MessagingOutboxWorker.processOutbox *)

\* Mutant: the test on processed_at is the wrong way round.
StaleProcessed(r) == outbox[r].status = "PROCESSING" /\ outbox[r].processed /\ outbox[r].old

\* A row left in PROCESSING.  The query looks at created_at: it cannot tell
\* a row that was abandoned from one that another worker has just claimed.
Stale(r) == outbox[r].status = "PROCESSING" /\ ~outbox[r].processed /\ outbox[r].old

\* Cron starts a run, which first puts stale rows back.
recoverStaleProcessingRows(w) ==
    /\ worker[w].pc = "idle"
    /\ outbox' = [r \in Rows |-> IF Stale(r)
                                 THEN [outbox[r] EXCEPT !.status = "PENDING", !.due = TRUE]
                                 ELSE outbox[r]]
    /\ worker' = [worker EXCEPT ![w] = [IdleWorker EXCEPT !.pc = "claim"]]
    /\ UNCHANGED delivered

Claimable == {r \in Rows : outbox[r].status = "PENDING" /\ outbox[r].due}

\* ORDER BY created_at ASC LIMIT BatchLimit
Batch == {r \in Claimable : Cardinality({k \in Claimable : k < r}) < BatchLimit}

\* The run goes on with the rows left, or ends.
RunWith(w, todo) ==
    IF todo = {} THEN IdleWorker
    ELSE [IdleWorker EXCEPT !.pc = "next", !.todo = todo,
            !.image = [r \in Rows |-> IF r \in todo THEN worker[w].image[r] ELSE 0]]

\* One UPDATE ... RETURNING: the claim is atomic.
claimPendingRows(w) ==
    /\ worker[w].pc = "claim"
    /\ outbox' = [r \in Rows |-> IF r \in Batch
                                 THEN [outbox[r] EXCEPT !.status = "PROCESSING"]
                                 ELSE outbox[r]]
    /\ worker' = [worker EXCEPT ![w] =
                    IF Batch = {} THEN IdleWorker
                    ELSE [pc |-> "next", todo |-> Batch, row |-> 0,
                          image |-> [r \in Rows |-> IF r \in Batch
                                                    THEN outbox[r].attempts ELSE 0]]]
    /\ UNCHANGED delivered

\* Mutant: an event counts as published before the bus accepted it.
PublishedEarly(w, r) == worker' = [worker EXCEPT ![w].pc = "done", ![w].row = r]
                        /\ UNCHANGED delivered

\* domainEvents.publish or handleInternalEvent.  An invalid event is rejected;
\* the transport may accept the event, refuse it, or accept it and lose the
\* answer.
publish(w, r) ==
    \/ /\ outbox[r].valid
       /\ delivered' = delivered \cup {r}
       /\ worker' = [worker EXCEPT ![w].pc = "done", ![w].row = r]
    \/ /\ outbox[r].valid
       /\ delivered' = delivered \cup {r}
       /\ worker' = [worker EXCEPT ![w].pc = "failed", ![w].row = r]
    \/ /\ worker' = [worker EXCEPT ![w].pc = "failed", ![w].row = r]
       /\ UNCHANGED delivered

\* The rows come back in no particular order.
HandleNext(w) ==
    \E r \in worker[w].todo :
        /\ worker[w].pc = "next"
        /\ publish(w, r)
        /\ UNCHANGED outbox

MarkDone(w) ==
    /\ worker[w].pc = "done"
    /\ outbox' = [outbox EXCEPT ![worker[w].row].status = "DONE",
                                ![worker[w].row].processed = TRUE]
    /\ worker' = [worker EXCEPT ![w] = RunWith(w, worker[w].todo \ {worker[w].row})]
    /\ UNCHANGED delivered

\* The update to DONE throws, before or after it took effect: the catch block
\* treats it like a failed publication.
MarkDoneThrows(w) ==
    /\ worker[w].pc = "done"
    /\ \/ outbox' = [outbox EXCEPT ![worker[w].row].status = "DONE",
                                   ![worker[w].row].processed = TRUE]
       \/ UNCHANGED outbox
    /\ worker' = [worker EXCEPT ![w].pc = "failed"]
    /\ UNCHANGED delivered

isPermanentFailure(r, attempts) == ~outbox[r].valid \/ attempts >= MaxAttempts

\* Mutant: every failed publication is dead-lettered at once.
MarkFailedAtOnce(w) ==
    LET r == worker[w].row
    IN  /\ worker[w].pc = "failed"
        /\ outbox' = [outbox EXCEPT ![r].status = "FAILED",
                                    ![r].attempts = worker[w].image[r] + 1]
        /\ worker' = [worker EXCEPT ![w] = RunWith(w, worker[w].todo \ {r})]
        /\ UNCHANGED delivered

\* The catch block: attempts from the claimed image, retry later or FAILED (and
\* then next_retry_at keeps its old, past value).
MarkFailed(w) ==
    LET r == worker[w].row
        attempts == worker[w].image[r] + 1
        permanent == isPermanentFailure(r, attempts)
    IN  /\ worker[w].pc = "failed"
        /\ outbox' = [outbox EXCEPT
                        ![r] = [@ EXCEPT !.status = IF permanent THEN "FAILED" ELSE "PENDING",
                                         !.attempts = attempts,
                                         !.due = permanent]]
        /\ worker' = [worker EXCEPT ![w] = RunWith(w, worker[w].todo \ {r})]
        /\ UNCHANGED delivered

\* The instance crashes, or a statement outside the try block throws: the run
\* ends, and the rows it claimed stay PROCESSING.  A run that is lost before
\* its claim is one that claims nothing.
RunLost(w) ==
    /\ worker[w].todo # {}
    /\ worker' = [worker EXCEPT ![w] = IdleWorker]
    /\ UNCHANGED <<outbox, delivered>>

----------------------------------------------------------------------------
(* Time *)

RetryTimeComes(r) ==
    /\ outbox[r].status # "NONE" /\ ~outbox[r].due
    /\ outbox' = [outbox EXCEPT ![r].due = TRUE]
    /\ UNCHANGED <<delivered, worker>>

GrowsOld(r) ==
    /\ outbox[r].status # "NONE" /\ ~outbox[r].old
    /\ outbox' = [outbox EXCEPT ![r].old = TRUE]
    /\ UNCHANGED <<delivered, worker>>

----------------------------------------------------------------------------
Init ==
    /\ outbox = [r \in Rows |-> NoRow]
    /\ delivered = {}
    /\ worker = [w \in Workers |-> IdleWorker]

processOutbox(w) ==
    \/ recoverStaleProcessingRows(w)
    \/ claimPendingRows(w)
    \/ HandleNext(w)
    \/ MarkDone(w)
    \/ MarkFailed(w)

Next ==
    \/ \E r \in Rows : enqueue(r) \/ RetryTimeComes(r) \/ GrowsOld(r)
    \/ \E w \in Workers : processOutbox(w) \/ MarkDoneThrows(w) \/ RunLost(w)

Spec == Init /\ [][Next]_vars

\* Every instance runs its cron job for ever and time passes; crashes and
\* database errors come to an end.
FairSpec ==
    /\ Spec
    /\ \A w \in Workers : /\ WF_vars(processOutbox(w))
                          /\ <>[][~RunLost(w) /\ ~MarkDoneThrows(w)]_vars
    /\ \A r \in Rows : WF_vars(RetryTimeComes(r)) /\ WF_vars(GrowsOld(r))

----------------------------------------------------------------------------
(* Properties *)

\* Every variable has its type; no attempts count exceeds MAX_OUTBOX_ATTEMPTS.
TypeOK ==
    /\ outbox \in [Rows -> OutboxRows]
    /\ delivered \in SUBSET Rows
    /\ worker \in [Workers -> WorkerStates]

\* What the workers will not look at again as done (DONE, or processed_at set,
\* which recoverStaleProcessingRows skips) was delivered, although workers
\* overwrite each other's outcomes and die between the bus and the update.
DoneMeansDelivered ==
    \A r \in Rows : outbox[r].status = "DONE" \/ outbox[r].processed => r \in delivered

\* A row is FAILED only if its payload is invalid or all its attempts were
\* used, although the attempts are counted on images that may be stale.
DeadLetterMeansExhausted ==
    \A r \in Rows : outbox[r].status = "FAILED" =>
        ~outbox[r].valid \/ outbox[r].attempts = MaxAttempts

\* Every event is delivered or dead-lettered in the end, whatever worker
\* crashed while it held the row.
EveryEventSettles ==
    \A r \in Rows :
        outbox[r].status # "NONE" ~> r \in delivered \/ outbox[r].status = "FAILED"

\* The inductive invariant behind the two invariants above.
OutboxInv ==
    /\ TypeOK
    /\ DoneMeansDelivered
    /\ DeadLetterMeansExhausted
    /\ \A r \in Rows : outbox[r].status \in {"NONE", "PENDING", "PROCESSING"} =>
         outbox[r].attempts < MaxAttempts
    /\ \A w \in Workers, r \in Rows : worker[w].image[r] < MaxAttempts
    /\ \A w \in Workers : worker[w].pc = "done" => worker[w].row \in delivered

----------------------------------------------------------------------------
(* What comments say, and the code does not *)

\* "Atomically claim rows with SKIP LOCKED for multi-instance safety": two
\* workers never hold the same row.
OneWorkerPerRow ==
    \A w1, w2 \in Workers : w1 # w2 => worker[w1].todo \cap worker[w2].todo = {}
==============================================================================
