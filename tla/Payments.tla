------------------------------ MODULE Payments ------------------------------
(***************************************************************************)
(* StaysPaymentsService: createOrGetIntent and confirmPaymentSuccess (with *)
(* its two entries, confirmMockPayment and handleCmiCallback).             *)
(*                                                                         *)
(* createOrGetIntent is NOT a transaction: what it read at one await may   *)
(* be stale when it writes at a later one.  confirmPaymentSuccess is one *)
(* transaction that locks the intent, then the booking, then the listing.  *)
(* The model keeps the first lock across a step; the other two are taken   *)
(* in the step that commits.                                               *)
(***************************************************************************)
EXTENDS BookingCreation, CmiEffects

CONSTANTS
    IntentReqs,     \* concurrent createOrGetIntent requests
    ConfirmReqs,    \* concurrent confirmations (guest calls, gateway callbacks)
    CancelReqs      \* concurrent cancellations; they hold booking locks

VARIABLES
    intentReq,      \* progress of each createOrGetIntent
    confirm,        \* progress of each confirmPaymentSuccess
    cancel          \* progress of each cancel (see Cancellation)

IdleIntentReq == [pc |-> "idle", booking |-> 0, key |-> NoKey]
IntentReqStates ==
    {IdleIntentReq} \cup
        [pc : {"check", "lookup", "insert", "expire", "cancelIntents"},
         booking : Bookings, key : Keys \cup {NoKey}]

IdleConfirm == [pc |-> "idle", intent |-> 0, meta |-> EmptyMetadata]
ConfirmStates ==
    {IdleConfirm} \cup
        [pc : {"lockIntent", "lockBooking"}, intent : Intents, meta : Metadata]

\* Row locks held across steps: an intent by a confirmation waiting for the
\* booking row, a booking by a cancellation waiting for the intent rows.
IntentLocked(i) ==
    \E w \in ConfirmReqs : confirm[w].pc = "lockBooking" /\ confirm[w].intent = i
BookingLocked(b) ==
    \E x \in CancelReqs : cancel[x].pc = "locked" /\ cancel[x].booking = b

----------------------------------------------------------------------------
(* createOrGetIntent *)

\* Reads the booking; it must be awaiting payment.
IntentRead(p) ==
    \E b \in Bookings, k \in Keys \cup {NoKey} :
        /\ intentReq[p].pc = "idle"
        /\ status[b] = "PAYMENT_PENDING"
        /\ intentReq' = [intentReq EXCEPT ![p] =
                            [pc |-> "check", booking |-> b, key |-> k]]
        /\ UNCHANGED <<tables, create, cmi, confirm, cancel>>

\* An intent the request would return (same key, or any PENDING one without
\* a key) or that makes it answer 409 (a PENDING one under another key).
ExistingIntent(b, k) ==
    \E i \in IntentsOf(b) : \/ intentStatus[i] = "PENDING"
                            \/ k # NoKey /\ intentRow[i].key = k

\* Are the dates still free, apart from the booking's own hold?
StillAvailable(b) == isListingAvailable(stay[b].listing, stay[b].range, {b})

IntentCheck(p) ==
    /\ intentReq[p].pc = "check"
    /\ intentReq' = [intentReq EXCEPT ![p].pc =
                        IF StillAvailable(intentReq[p].booking) THEN "lookup" ELSE "expire"]
    /\ UNCHANGED <<tables, create, cmi, confirm, cancel>>

\* The two look-ups, by key and by status.
IntentLookup(p) ==
    /\ intentReq[p].pc = "lookup"
    /\ intentReq' = [intentReq EXCEPT ![p] =
                        IF ExistingIntent(intentReq[p].booking, intentReq[p].key)
                        THEN IdleIntentReq ELSE [@ EXCEPT !.pc = "insert"]]
    /\ UNCHANGED <<tables, create, cmi, confirm, cancel>>

\* Unique index idx_stays_payment_intents_booking_pending_unique.
PendingIndexFree(b) == PendingIntents(b) = {}

\* intentRepo.save: the booking is not looked at again, though the foreign key
\* makes the insert wait for a transaction that has locked the booking row.
IntentInsert(p) ==
    \E i \in Intents :
        /\ intentReq[p].pc = "insert"
        /\ NextIntent(i)
        /\ ~BookingLocked(intentReq[p].booking)
        /\ PendingIndexFree(intentReq[p].booking)
        /\ intentStatus' = [intentStatus EXCEPT ![i] = "PENDING"]
        /\ intentRow' = [intentRow EXCEPT ![i] =
                            [booking |-> intentReq[p].booking, key |-> intentReq[p].key]]
        /\ intentReq' = [intentReq EXCEPT ![p] = IdleIntentReq]
        /\ UNCHANGED <<status, stay, ledger, blocks, now, create, cmi, confirm, cancel>>

\* Dates gone: the hold is expired if it is still one ...
IntentExpireBooking(p) ==
    /\ intentReq[p].pc = "expire"
    /\ ~BookingLocked(intentReq[p].booking)
    /\ status' = IF status[intentReq[p].booking] \in PRE_CONFIRMATION_BOOKING_STATUSES
                 THEN [status EXCEPT ![intentReq[p].booking] = "EXPIRED"]
                 ELSE status
    /\ intentReq' = [intentReq EXCEPT ![p].pc = "cancelIntents"]
    /\ UNCHANGED <<stay, intentStatus, intentRow, ledger, blocks, now,
                   create, cmi, confirm, cancel>>

\* ... and its PENDING intents are cancelled whether or not it was.
IntentCancelPending(p) ==
    /\ intentReq[p].pc = "cancelIntents"
    /\ \A i \in PendingIntents(intentReq[p].booking) : ~IntentLocked(i)
    /\ CancelPendingIntents(intentReq[p].booking)
    /\ intentReq' = [intentReq EXCEPT ![p] = IdleIntentReq]
    /\ UNCHANGED <<status, stay, intentRow, ledger, blocks, now,
                   create, cmi, confirm, cancel>>

\* The request dies between two awaits: the unique index rejects the insert,
\* the connection drops or the process restarts.  What it wrote stays.
IntentAbort(p) ==
    /\ intentReq[p].pc # "idle"
    /\ intentReq' = [intentReq EXCEPT ![p] = IdleIntentReq]
    /\ UNCHANGED <<tables, create, cmi, confirm, cancel>>

----------------------------------------------------------------------------
(* confirmPaymentSuccess *)

\* Entry.  mock: confirmMockPayment has read a payable booking and its PENDING
\* intent.  cmi: the gateway delivers its success callback, any number of
\* times and at any moment after the guest authorized the payment.
MayConfirm(i) ==
    \/ /\ Provider = "mock"
       /\ intentStatus[i] = "PENDING"
       /\ status[intentRow[i].booking] = "PAYMENT_PENDING"
    \/ /\ Provider = "cmi"
       /\ auth[i] # "NONE"

\* The intent row (with its metadata) is read before the transaction.
ConfirmBegin(w) ==
    \E i \in Intents :
        /\ confirm[w].pc = "idle"
        /\ GwFree(w)
        /\ MayConfirm(i)
        /\ confirm' = [confirm EXCEPT ![w] =
                         [pc |-> "lockIntent", intent |-> i, meta |-> metadata[i]]]
        /\ UNCHANGED <<tables, create, cmi, intentReq, cancel>>

\* Mutant: the request forgets its intent before it retries the capture.
AlreadyProcessedTooLate(w) ==
    /\ confirm' = [confirm EXCEPT ![w] = IdleConfirm]
    /\ gw' = IF Provider = "cmi"
             THEN [gw EXCEPT ![w] = RetryCapture(confirm'[w].intent)] ELSE gw
    /\ UNCHANGED <<metadata, auth>>

\* Outcome ALREADY_PROCESSED: with CMI the capture is tried again.
AlreadyProcessed(w) ==
    /\ gw' = IF Provider = "cmi"
             THEN [gw EXCEPT ![w] = RetryCapture(confirm[w].intent)] ELSE gw
    /\ confirm' = [confirm EXCEPT ![w] = IdleConfirm]
    /\ UNCHANGED <<metadata, auth>>

\* Locks the intent, then looks for a settled GUEST_PAYMENT.
ConfirmLockIntent(w) ==
    LET i == confirm[w].intent
        b == intentRow[i].booking
    IN  /\ confirm[w].pc = "lockIntent"
        /\ ~IntentLocked(i)
        /\ \/ /\ intentStatus[i] = "SUCCEEDED"
              /\ AlreadyProcessed(w)
              /\ UNCHANGED intentStatus
           \/ /\ intentStatus[i] # "SUCCEEDED"
              /\ HasSettledPayment(b)
              /\ intentStatus' = [intentStatus EXCEPT ![i] = "SUCCEEDED"]
              /\ AlreadyProcessed(w)
           \/ /\ intentStatus[i] # "SUCCEEDED"
              /\ ~HasSettledPayment(b)
              /\ confirm' = [confirm EXCEPT ![w].pc = "lockBooking"]
              /\ UNCHANGED <<intentStatus, cmi>>
        /\ UNCHANGED <<status, stay, intentRow, ledger, blocks, now,
                       create, intentReq, cancel>>

\* Mutant: every booking that is no longer a hold counts as processed.
ConfirmNotPayableCaptures(w) ==
    LET b == intentRow[confirm[w].intent].booking
    IN  /\ confirm[w].pc = "lockBooking"
        /\ ~BookingLocked(b)
        /\ status[b] # "PAYMENT_PENDING"
        /\ AlreadyProcessed(w)
        /\ UNCHANGED <<tables, create, intentReq, cancel>>

\* Mutant: the outcome BOOKING_NOT_PAYABLE is missing.
ConfirmOnlyProcessed(w) ==
    LET b == intentRow[confirm[w].intent].booking
    IN  /\ confirm[w].pc = "lockBooking"
        /\ ~BookingLocked(b)
        /\ status[b] \in CONFIRMED_BOOKING_STATUSES
        /\ AlreadyProcessed(w)
        /\ UNCHANGED <<tables, create, intentReq, cancel>>

\* The booking is no longer payable: ALREADY_PROCESSED or BOOKING_NOT_PAYABLE.
ConfirmNotPayable(w) ==
    LET b == intentRow[confirm[w].intent].booking
    IN  /\ confirm[w].pc = "lockBooking"
        /\ ~BookingLocked(b)
        /\ status[b] # "PAYMENT_PENDING"
        /\ \/ /\ status[b] \in CONFIRMED_BOOKING_STATUSES
              /\ AlreadyProcessed(w)
           \/ /\ status[b] \notin CONFIRMED_BOOKING_STATUSES
              /\ confirm' = [confirm EXCEPT ![w] = IdleConfirm]
              /\ UNCHANGED cmi
        /\ UNCHANGED <<tables, create, intentReq, cancel>>

\* Mutant: the status of the locked booking is not looked at.
PayableUnchecked(w) ==
    LET b == intentRow[confirm[w].intent].booking
    IN  /\ confirm[w].pc = "lockBooking"
        /\ ~BookingLocked(b)
        /\ ~ListingLocked(stay[b].listing)

\* Booking and listing are locked, the hold is payable.
Payable(w) ==
    LET b == intentRow[confirm[w].intent].booking
    IN  /\ confirm[w].pc = "lockBooking"
        /\ ~BookingLocked(b)
        /\ status[b] = "PAYMENT_PENDING"
        /\ ~ListingLocked(stay[b].listing)

\* DATES_UNAVAILABLE: the intent fails, the hold expires, CMI is voided.
ConfirmDatesUnavailable(w) ==
    LET i == confirm[w].intent
        b == intentRow[i].booking
    IN  /\ Payable(w)
        /\ ~StillAvailable(b)
        /\ intentStatus' = [intentStatus EXCEPT ![i] = "FAILED"]
        /\ status' = [status EXCEPT ![b] = "EXPIRED"]
        /\ gw' = IF Provider = "cmi" THEN [gw EXCEPT ![w] = VoidPreAuth(i)] ELSE gw
        /\ confirm' = [confirm EXCEPT ![w] = IdleConfirm]
        /\ UNCHANGED <<stay, intentRow, ledger, blocks, now, create,
                       metadata, auth, intentReq, cancel>>

\* CONFIRMED: intent, booking and ledger in one commit, then the capture.
ConfirmSucceeds(w) ==
    LET i == confirm[w].intent
        b == intentRow[i].booking
    IN  /\ Payable(w)
        /\ StillAvailable(b)
        /\ intentStatus' = [intentStatus EXCEPT ![i] = "SUCCEEDED"]
        /\ status' = [status EXCEPT ![b] = "CONFIRMED"]
        /\ ledger' = [ledger EXCEPT ![b].payment = @ + 1]
        /\ gw' = IF Provider = "cmi"
                 THEN [gw EXCEPT ![w] = AfterConfirm(i, confirm[w].meta)] ELSE gw
        /\ confirm' = [confirm EXCEPT ![w] = IdleConfirm]
        /\ UNCHANGED <<stay, intentRow, blocks, now, create,
                       metadata, auth, intentReq, cancel>>

\* The confirmation dies: a rollback (deadlock victim, failed provisioning,
\* crash) while the transaction runs, or a crash while the gateway is awaited.
ConfirmAbort(w) ==
    /\ confirm[w].pc # "idle" \/ ~GwFree(w)
    /\ confirm' = [confirm EXCEPT ![w] = IdleConfirm]
    /\ gw' = [gw EXCEPT ![w] = IdleGw]
    /\ UNCHANGED <<tables, create, metadata, auth, intentReq, cancel>>

----------------------------------------------------------------------------
PaymentStep ==
    \/ \E p \in IntentReqs : \/ IntentRead(p)
                             \/ IntentCheck(p)
                             \/ IntentLookup(p)
                             \/ IntentInsert(p)
                             \/ IntentExpireBooking(p)
                             \/ IntentCancelPending(p)
                             \/ IntentAbort(p)
    \/ \E w \in ConfirmReqs : \/ ConfirmBegin(w)
                              \/ ConfirmLockIntent(w)
                              \/ ConfirmNotPayable(w)
                              \/ ConfirmDatesUnavailable(w)
                              \/ ConfirmSucceeds(w)
                              \/ ConfirmAbort(w)

PaymentsInit ==
    /\ intentReq = [p \in IntentReqs |-> IdleIntentReq]
    /\ confirm = [w \in ConfirmReqs |-> IdleConfirm]

PaymentsTypeOK ==
    /\ intentReq \in [IntentReqs -> IntentReqStates]
    /\ confirm \in [ConfirmReqs -> ConfirmStates]
============================================================================
