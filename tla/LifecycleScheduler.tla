------------------------- MODULE LifecycleScheduler -------------------------
(***************************************************************************)
(* BookingLifecycleSchedulerService: the cron jobs that expire unpaid      *)
(* holds (expirePendingPayments) and complete past stays                   *)
(* (autoCompletePastStays, finalizeCheckoutDayStays).                      *)
(*                                                                         *)
(* A job first reads its candidates and then works through them, one await *)
(* after the other, without locks.  Nothing keeps two runs of a job from   *)
(* overlapping.                                                            *)
(***************************************************************************)
EXTENDS Cancellation

CONSTANTS
    ExpireJobs,     \* runs of expirePendingPayments
    CompleteJobs    \* runs of the two completion jobs

VARIABLES
    expireJob,      \* progress of each expirePendingPayments run
    completeJob     \* bookings each completion run has still to complete

others == <<create, intentReq, confirm, cancel>>

IdleExpire == [pc |-> "idle", todo |-> {}, booking |-> 0, voids |-> {}]
ExpireStates ==
    [pc : {"idle", "next"}, todo : SUBSET Bookings, booking : {0}, voids : {{}}] \cup
        [pc : {"readIntents", "voiding"}, todo : SUBSET Bookings,
         booking : Bookings, voids : SUBSET Intents]

----------------------------------------------------------------------------
(* expirePendingPayments *)

\* Mutant: a hold nobody tried to pay is overlooked.
ExpireCandidatesWithIntent ==
    {b \in Bookings : /\ status[b] \in PRE_CONFIRMATION_BOOKING_STATUSES
                      /\ PaymentHoldExpired(b)
                      /\ PendingIntents(b) # {}}

ExpireCandidates ==
    {b \in Bookings : status[b] \in PRE_CONFIRMATION_BOOKING_STATUSES /\ PaymentHoldExpired(b)}

ExpireFind(e) ==
    /\ expireJob[e].pc = "idle"
    /\ ExpireCandidates # {}
    /\ expireJob' = [expireJob EXCEPT ![e] =
                       [IdleExpire EXCEPT !.pc = "next", !.todo = ExpireCandidates]]
    /\ UNCHANGED <<tables, cmi, others, completeJob>>

\* The loop goes on, or the run ends.
NextExpiry(todo) ==
    IF todo = {} THEN IdleExpire ELSE [IdleExpire EXCEPT !.pc = "next", !.todo = todo]

\* Mutant: the update lost its guard on the status.
ExpireUnguarded(e) ==
    \E b \in expireJob[e].todo :
        /\ expireJob[e].pc = "next"
        /\ ~BookingLocked(b)
        /\ status' = [status EXCEPT ![b] = "EXPIRED"]
        /\ expireJob' = [expireJob EXCEPT ![e] =
                           [pc |-> "readIntents", todo |-> @.todo \ {b},
                            booking |-> b, voids |-> {}]]
        /\ UNCHANGED <<stay, intentStatus, intentRow, ledger, blocks, now,
                       cmi, others, completeJob>>

\* The guarded update; a booking that is no longer a hold is skipped.
ExpireBooking(e) ==
    \E b \in expireJob[e].todo :
        /\ expireJob[e].pc = "next"
        /\ ~BookingLocked(b)
        /\ \/ /\ status[b] \in PRE_CONFIRMATION_BOOKING_STATUSES
              /\ status' = [status EXCEPT ![b] = "EXPIRED"]
              /\ expireJob' = [expireJob EXCEPT ![e] =
                                 [pc |-> "readIntents", todo |-> @.todo \ {b},
                                  booking |-> b, voids |-> {}]]
           \/ /\ status[b] \notin PRE_CONFIRMATION_BOOKING_STATUSES
              /\ expireJob' = [expireJob EXCEPT ![e] = NextExpiry(@.todo \ {b})]
              /\ UNCHANGED status
        /\ UNCHANGED <<stay, intentStatus, intentRow, ledger, blocks, now,
                       cmi, others, completeJob>>

\* The PENDING intents are read; with CMI their PreAuths will be voided.
ExpireReadIntents(e) ==
    /\ expireJob[e].pc = "readIntents"
    /\ expireJob' = [expireJob EXCEPT ![e].pc = "voiding",
                       ![e].voids = IF Provider = "cmi"
                                    THEN PendingIntents(expireJob[e].booking) ELSE {}]
    /\ UNCHANGED <<tables, cmi, others, completeJob>>

ExpireVoidNext(e) ==
    \E i \in expireJob[e].voids :
        /\ expireJob[e].pc = "voiding"
        /\ GwFree(e)
        /\ gw' = [gw EXCEPT ![e] = VoidPreAuth(i)]
        /\ expireJob' = [expireJob EXCEPT ![e].voids = @ \ {i}]
        /\ UNCHANGED <<tables, metadata, auth, others, completeJob>>

\* All voids answered: the PENDING intents are cancelled.
ExpireCancelIntents(e) ==
    /\ expireJob[e].pc = "voiding"
    /\ expireJob[e].voids = {}
    /\ GwFree(e)
    /\ \A i \in PendingIntents(expireJob[e].booking) : ~IntentLocked(i)
    /\ CancelPendingIntents(expireJob[e].booking)
    /\ expireJob' = [expireJob EXCEPT ![e] = NextExpiry(@.todo)]
    /\ UNCHANGED <<status, stay, intentRow, ledger, blocks, now, cmi, others, completeJob>>

\* A statement throws for one booking: it is logged and the loop goes on.
ExpireFails(e) ==
    /\ GwFree(e)
    /\ \/ /\ expireJob[e].pc = "next"
          /\ \E b \in expireJob[e].todo :
               expireJob' = [expireJob EXCEPT ![e] = NextExpiry(@.todo \ {b})]
       \/ /\ expireJob[e].pc \in {"readIntents", "voiding"}
          /\ expireJob' = [expireJob EXCEPT ![e] = NextExpiry(@.todo)]
    /\ UNCHANGED <<tables, cmi, others, completeJob>>

\* The process restarts: the run is lost, what it wrote stays.
ExpireCrash(e) ==
    /\ expireJob[e].pc # "idle"
    /\ expireJob' = [expireJob EXCEPT ![e] = IdleExpire]
    /\ gw' = [gw EXCEPT ![e] = IdleGw]
    /\ UNCHANGED <<tables, metadata, auth, others, completeJob>>

----------------------------------------------------------------------------
(* autoCompletePastStays (checkout before today) and
   finalizeCheckoutDayStays (checkout today, checkout time passed). *)

\* Mutant: a stay that ended yesterday is not yet past.
PastStaysLate ==
    {b \in Bookings : status[b] = "CONFIRMED" /\ stay[b].range.checkout < Today - 1}

PastStays == {b \in Bookings : status[b] = "CONFIRMED" /\ stay[b].range.checkout < Today}

\* Mutant: unpaid stays are completed too.
CheckoutDayHolds ==
    {b \in Bookings : /\ status[b] \in BOOKED_STATUSES
                      /\ stay[b].range.checkout = Today
                      /\ CheckoutTimePassed}

CheckoutDayStays ==
    {b \in Bookings : /\ status[b] = "CONFIRMED"
                      /\ stay[b].range.checkout = Today
                      /\ CheckoutTimePassed}

CompleteFind(j) ==
    \E found \in {PastStays, CheckoutDayStays} :
        /\ completeJob[j] = {}
        /\ found # {}
        /\ completeJob' = [completeJob EXCEPT ![j] = found]
        /\ UNCHANGED <<tables, cmi, others, expireJob>>

\* UPDATE ... SET status = 'COMPLETED' WHERE id = b: the status is not checked.
CompleteBooking(j) ==
    \E b \in completeJob[j] :
        /\ ~BookingLocked(b)
        /\ status' = [status EXCEPT ![b] = "COMPLETED"]
        /\ completeJob' = [completeJob EXCEPT ![j] = @ \ {b}]
        /\ UNCHANGED <<stay, intentStatus, intentRow, ledger, blocks, now,
                       cmi, others, expireJob>>

\* The update throws for one booking: it is logged and the loop goes on.
CompleteFails(j) ==
    \E b \in completeJob[j] :
        /\ completeJob' = [completeJob EXCEPT ![j] = @ \ {b}]
        /\ UNCHANGED <<tables, cmi, others, expireJob>>

CompleteCrash(j) ==
    /\ completeJob[j] # {}
    /\ completeJob' = [completeJob EXCEPT ![j] = {}]
    /\ UNCHANGED <<tables, cmi, others, expireJob>>

----------------------------------------------------------------------------
ExpireStep(e) ==
    \/ ExpireFind(e)
    \/ ExpireBooking(e)
    \/ ExpireReadIntents(e)
    \/ ExpireVoidNext(e)
    \/ ExpireCancelIntents(e)
    \/ ExpireFails(e)

CompleteStep(j) == CompleteFind(j) \/ CompleteBooking(j) \/ CompleteFails(j)

SchedulerInit ==
    /\ expireJob = [e \in ExpireJobs |-> IdleExpire]
    /\ completeJob = [j \in CompleteJobs |-> {}]

SchedulerTypeOK ==
    /\ expireJob \in [ExpireJobs -> ExpireStates]
    /\ completeJob \in [CompleteJobs -> SUBSET Bookings]
============================================================================
