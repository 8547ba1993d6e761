--------------------------- MODULE BookingSystem ---------------------------
(***************************************************************************)
(* The booking core of the stays service: booking creation, host blocks,   *)
(* payments, cancellation, the CMI gateway and the lifecycle jobs, all     *)
(* working concurrently on the shared tables.                              *)
(***************************************************************************)
EXTENDS LifecycleScheduler

ASSUME CallersAssumption ==
    /\ GwCallers = ConfirmReqs \cup CancelReqs \cup ExpireJobs
    /\ ConfirmReqs \cap CancelReqs = {}
    /\ ConfirmReqs \cap ExpireJobs = {}
    /\ CancelReqs \cap ExpireJobs = {}

jobs == <<expireJob, completeJob>>
vars == <<tables, create, cmi, intentReq, confirm, cancel, jobs>>

----------------------------------------------------------------------------
Init ==
    /\ TablesInit
    /\ CreationInit
    /\ CmiInit
    /\ PaymentsInit
    /\ CancellationInit
    /\ SchedulerInit

TimePasses == Tick /\ UNCHANGED <<create, cmi, intentReq, confirm, cancel, jobs>>

CreationStep ==
    /\ \/ \E c \in CreateReqs : CreateCheck(c) \/ CreateInsert(c) \/ CreateAbort(c)
       \/ \E l \in Listings : setHostAvailabilityBlock(l)
    /\ UNCHANGED <<cmi, intentReq, confirm, cancel, jobs>>

GatewayStep ==
    /\ \/ \E i \in Intents : GuestAuthorizes(i)
       \/ \E a \in GwCallers : CmiStep(a)
    /\ UNCHANGED <<create, intentReq, confirm, cancel, jobs>>

RequestStep == (PaymentStep \/ CancellationStep) /\ UNCHANGED jobs

SchedulerStep ==
    \/ \E e \in ExpireJobs : ExpireStep(e) \/ ExpireCrash(e)
    \/ \E j \in CompleteJobs : CompleteStep(j) \/ CompleteCrash(j)

Next ==
    \/ TimePasses
    \/ CreationStep
    \/ GatewayStep
    \/ RequestStep
    \/ SchedulerStep

Spec == Init /\ [][Next]_vars

----------------------------------------------------------------------------
(* Invariants *)

\* Every variable has its type.
TypeOK ==
    /\ TablesTypeOK
    /\ CreationTypeOK
    /\ CmiTypeOK
    /\ PaymentsTypeOK
    /\ CancellationTypeOK
    /\ SchedulerTypeOK

\* What the listing lock protects: while a createBooking request has checked
\* its dates and not yet inserted, it is alone on its listing and no booking
\* occupies those nights.
ListingLockInv ==
    \A c \in CreateReqs : create[c].pc = "checked" =>
        /\ \A d \in CreateReqs : create[d].pc = "checked" /\ create[d].listing = create[c].listing
                                   => d = c
        /\ \A b \in Bookings : ~OccupiedBy(b, create[c].listing, create[c].range)

\* Two bookings that occupy a listing never share a night.  createBooking
\* checks availability and inserts later; its listing lock has to keep every
\* other insert on that listing out until then.
NoDoubleBooking ==
    \A b1, b2 \in Bookings :
        /\ b1 # b2
        /\ status[b1] \in BOOKED_STATUSES
        /\ status[b2] \in BOOKED_STATUSES
        /\ stay[b1].listing = stay[b2].listing
        => ~Overlap(stay[b1].range, stay[b2].range)

\* The inductive invariant behind NoDoubleBooking: the dates a request has
\* checked stay free until it inserts, because nobody else inserts.
ReservationInv == TypeOK /\ ListingLockInv /\ NoDoubleBooking

\* A booking is settled at most once whatever callbacks, cancellations and
\* jobs race, a booking that is or was confirmed is settled, and a hold that
\* is unpaid or expired is not.
SettledExactlyWhenConfirmed ==
    \A b \in Bookings :
        /\ ledger[b].payment <= 1
        /\ status[b] \in CONFIRMED_BOOKING_STATUSES => ledger[b].payment = 1
        /\ status[b] \in {"NONE", "PAYMENT_PENDING", "EXPIRED"} => ledger[b].payment = 0

\* A REFUND row exists at most once per booking, and only for a settled
\* payment: concurrent cancellations never refund twice or refund nothing.
RefundOnlyOnceAndPaid ==
    \A b \in Bookings :
        /\ ledger[b].refundPending + ledger[b].refundSettled <= ledger[b].payment
        /\ status[b] = "CONFIRMED" => ~HasRefund(b)

\* The inductive invariant behind the two above: what a completion job still
\* holds was paid when it read it, and a payment is never taken back.
SettlementInv ==
    /\ TypeOK
    /\ SettledExactlyWhenConfirmed
    /\ RefundOnlyOnceAndPaid
    /\ \A j \in CompleteJobs : \A b \in completeJob[j] : ledger[b].payment = 1

\* An intent is SUCCEEDED only for a settled booking, and a settled booking
\* has a SUCCEEDED intent: intents and ledger never disagree on who paid.
IntentsMatchLedger ==
    /\ \A i \in Intents : intentStatus[i] = "SUCCEEDED" => ledger[intentRow[i].booking].payment = 1
    /\ \A b \in Bookings : HasSettledPayment(b) =>
         \E i \in IntentsOf(b) : intentStatus[i] = "SUCCEEDED"

\* The guest's card is captured only for a booking whose payment is settled,
\* although the capture runs after the commit, unlocked and retried.
CapturedOnlyIfSettled ==
    \A i \in Intents : auth[i] \in {"CAPTURED", "CREDITED"} =>
        ledger[intentRow[i].booking].payment = 1

\* A PreAuth is voided only for a booking that is not, and never will be,
\* settled: no cancel, expiry or failed confirmation voids a paid one.
VoidedNeverSettled ==
    \A i \in Intents : auth[i] = "VOIDED" =>
        /\ ledger[intentRow[i].booking].payment = 0
        /\ status[intentRow[i].booking] # "PAYMENT_PENDING"

\* A REFUND row is SETTLED only after CMI credited the guest.
RefundSettledOnlyIfCredited ==
    \A b \in Bookings : ledger[b].refundSettled > 0 =>
        \E i \in IntentsOf(b) : auth[i] = "CREDITED"

\* The inductive invariant behind the four above.  Gateway calls run after
\* the commit and unlocked, so what justifies a call must be a fact no later
\* step can undo: an intent keeps its booking, a settled booking stays
\* settled, and a booking that left its hold unpaid is never settled.
Issued(i) == i \in Intents /\ intentStatus[i] # "NONE"

BookingStored(b) == b \in Bookings /\ status[b] # "NONE"

NeverPaid(b) ==
    /\ BookingStored(b)
    /\ status[b] # "PAYMENT_PENDING"
    /\ ledger[b].payment = 0

PaidIntent(i) == Issued(i) /\ ledger[intentRow[i].booking].payment = 1

UnpaidIntent(i) == Issued(i) /\ NeverPaid(intentRow[i].booking)

CreditedIntent(i, b) == i \in IntentsOf(b) /\ auth[i] = "CREDITED"

\* What an intent row and its PreAuth say is true of the booking ...
IntentJustified(i) ==
    /\ Issued(i) => BookingStored(intentRow[i].booking)
    /\ intentStatus[i] = "SUCCEEDED" => PaidIntent(i)
    /\ auth[i] # "NONE" => Issued(i)
    /\ auth[i] \in {"CAPTURED", "CREDITED"} => PaidIntent(i)
    /\ auth[i] = "VOIDED" => UnpaidIntent(i)

\* ... and what the ledger says is true of an intent.
LedgerJustified(b) ==
    /\ ledger[b].payment > 0 => SucceededIntents(b) # {}
    /\ ledger[b].refundSettled > 0 => \E i \in Intents : CreditedIntent(i, b)

\* A gateway call that is on its way is still right to make.
CallJustified(g) ==
    /\ g.pc \in {"captureRead", "captureCall"} => PaidIntent(g.intent)
    /\ g.pc = "voidCall" => UnpaidIntent(g.intent)
    /\ g.pc = "refundCall" => g.intent \in IntentsOf(g.booking)
    /\ g.pc = "settle" \/ (g.pc = "patch" /\ g.ok) => CreditedIntent(g.intent, g.booking)

\* So are the voids a cancellation or an expiry still has to make.
VoidsJustified(r) == r.pc = "voiding" => \A i \in r.voids : UnpaidIntent(i)

\* Requests, jobs and the calls they make hold on to justified rows only.
HoldersJustified ==
    /\ \A a \in GwCallers : CallJustified(gw[a])
    /\ \A p \in IntentReqs : intentReq[p].pc # "idle" => BookingStored(intentReq[p].booking)
    /\ \A w \in ConfirmReqs : confirm[w].pc # "idle" => Issued(confirm[w].intent)
    /\ \A x \in CancelReqs : VoidsJustified(cancel[x])
    /\ \A e \in ExpireJobs :
         /\ VoidsJustified(expireJob[e])
         /\ expireJob[e].pc \in {"readIntents", "voiding"} => NeverPaid(expireJob[e].booking)

CardInv ==
    /\ SettlementInv
    /\ \A i \in Intents : IntentJustified(i)
    /\ \A b \in Bookings : LedgerJustified(b)
    /\ HoldersJustified

----------------------------------------------------------------------------
(* The contract *)

paidBookings == [b \in Bookings |-> HasSettledPayment(b)]

refundStates ==
    [b \in Bookings |-> IF ledger[b].refundSettled > 0 THEN "SETTLED"
                        ELSE IF ledger[b].refundPending > 0 THEN "PENDING" ELSE "NONE"]

SharesNight(s1, s2) == s1.listing = s2.listing /\ Overlap(s1.range, s2.range)

Contract == INSTANCE BookingContract
            WITH paid <- paidBookings, refund <- refundStates, Overlapping <- SharesNight

\* What a cancellation's row lock protects: the booking it found cancellable
\* still is when it commits, and no other cancellation has it.
BookingLockInv ==
    \A x \in CancelReqs :
        /\ cancel[x].pc = "lock" => status[cancel[x].booking] # "NONE"
        /\ cancel[x].pc = "locked" =>
             /\ status[cancel[x].booking] \in BOOKED_STATUSES
             /\ \A y \in CancelReqs :
                  cancel[y].pc = "locked" /\ cancel[y].booking = cancel[x].booking => y = x

\* The inductive invariant behind the refinement.
ContractInv == ReservationInv /\ CardInv /\ BookingLockInv

\* Every step of the services and jobs is a step of the booking contract, or
\* changes nothing the contract can see.
ImplementsContract == Contract!Spec

----------------------------------------------------------------------------
(* Fairness and liveness *)

\* PostgreSQL's deadlock detector (external): of a confirmation that holds an
\* intent and a cancellation that holds its booking, one is rolled back.
LockCycle(w, x) ==
    /\ confirm[w].pc = "lockBooking"
    /\ cancel[x].pc = "locked"
    /\ confirm[w].intent \in PendingIntents(cancel[x].booking)

DeadlockDetected ==
    /\ \E w \in ConfirmReqs, x \in CancelReqs :
         LockCycle(w, x) /\ (ConfirmAbort(w) \/ CancelAbort(x))
    /\ UNCHANGED jobs

\* A request that waits for a row lock is served once the row is free
\* infinitely often: PostgreSQL queues the waiters of a row.
ConfirmProgress(w) ==
    /\ \/ ConfirmLockIntent(w) \/ ConfirmNotPayable(w)
       \/ ConfirmDatesUnavailable(w) \/ ConfirmSucceeds(w)
    /\ UNCHANGED jobs
CancelProgress(x) ==
    /\ CancelLockBooking(x) \/ CancelCommit(x) \/ CancelVoidNext(x)
    /\ UNCHANGED jobs
IntentProgress(p) ==
    /\ \/ IntentCheck(p) \/ IntentLookup(p) \/ IntentInsert(p) \/ IntentExpireBooking(p)
       \/ IntentCancelPending(p) \/ IntentAbort(p)
    /\ UNCHANGED jobs
CreateProgress(c) ==
    /\ CreateInsert(c) \/ CreateAbort(c)
    /\ UNCHANGED <<cmi, intentReq, confirm, cancel, jobs>>
GatewayProgress(a) ==
    CmiStep(a) /\ UNCHANGED <<create, intentReq, confirm, cancel, jobs>>

\* The process that runs the jobs is not killed for ever, nor does the
\* database fail for ever, between a job's read and its update.
JobsStopCrashing ==
    /\ \A e \in ExpireJobs : <>[][~ExpireCrash(e) /\ ~ExpireFails(e)]_vars
    /\ \A j \in CompleteJobs : <>[][~CompleteCrash(j) /\ ~CompleteFails(j)]_vars

\* Requests that were started run on and cron fires for ever.  Nothing obliges
\* a guest, a host or the gateway to send a request.
Fairness ==
    /\ \A c \in CreateReqs : WF_vars(CreateProgress(c))
    /\ \A p \in IntentReqs : SF_vars(IntentProgress(p))
    /\ \A w \in ConfirmReqs : SF_vars(ConfirmProgress(w))
    /\ \A x \in CancelReqs : SF_vars(CancelProgress(x))
    /\ WF_vars(DeadlockDetected)
    /\ \A a \in GwCallers : WF_vars(GatewayProgress(a))
    /\ \A e \in ExpireJobs :
         /\ WF_vars(ExpireFind(e))
         /\ SF_vars(ExpireBooking(e))
         /\ WF_vars(ExpireReadIntents(e) \/ ExpireVoidNext(e))
         /\ SF_vars(ExpireCancelIntents(e))
    /\ \A j \in CompleteJobs :
         /\ WF_vars(CompleteFind(j))
         /\ SF_vars(CompleteBooking(j))

FairSpec == Spec /\ Fairness /\ JobsStopCrashing

\* A hold past its time to live is eventually paid, cancelled or expired: no
\* race between jobs, crashes and locks blocks its nights for ever.
HoldsAreReleased ==
    \A b \in Bookings :
        (status[b] = "PAYMENT_PENDING" /\ PaymentHoldExpired(b)) ~> status[b] # "PAYMENT_PENDING"

StayOver(b) == b \in PastStays \cup CheckoutDayStays

\* A stay that is over does not remain CONFIRMED: whichever of the two jobs
\* meets it, and whatever crash or error it met before.
PastStaysComplete ==
    \A b \in Bookings :
        StayOver(b) ~> status[b] # "CONFIRMED"

\* A confirmation always comes to an end, although cancel and confirm take
\* their row locks in opposite orders.
ConfirmationsFinish ==
    \A w \in ConfirmReqs : confirm[w].pc # "idle" ~> confirm[w].pc = "idle"

----------------------------------------------------------------------------
(* What the repository's documents and comments say, and the code does not *)

\* Life cycle of the business-logic audit: CONFIRMED leads to COMPLETED or to
\* CANCELLED, and nothing leads from CANCELLED to COMPLETED.
CancelledIsFinal ==
    [][\A b \in Bookings :
         status[b] \in CancelledStatuses => status'[b] = status[b]]_vars

\* One payment intent per booking, so that a guest is not charged twice.
ChargedAtMostOnce ==
    \A i1, i2 \in Intents :
        /\ auth[i1] \in {"CAPTURED", "CREDITED"}
        /\ auth[i2] \in {"CAPTURED", "CREDITED"}
        /\ intentRow[i1].booking = intentRow[i2].booking
        => i1 = i2
============================================================================
