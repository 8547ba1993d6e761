---------------------------- MODULE Cancellation ----------------------------
(***************************************************************************)
(* StaysCancellationService.cancel, by the guest or by the host.           *)
(*                                                                         *)
(* The transaction locks the booking row and later updates the intent      *)
(* rows; confirmPaymentSuccess locks them in the opposite order, so the    *)
(* two can wait for each other until PostgreSQL aborts one of them.        *)
(***************************************************************************)
EXTENDS Payments

IdleCancel == [pc |-> "idle", booking |-> 0, by |-> "CANCELLED_BY_GUEST",
               refundable |-> FALSE, voids |-> {}]
CancelStates ==
    {IdleCancel} \cup
        [pc : {"lock", "locked", "voiding"}, booking : Bookings,
         by : CancelledStatuses, refundable : BOOLEAN, voids : SUBSET Intents]

\* Reads the booking and computes the theoretical refund from the policy and
\* the hours to check-in; only its sign matters here.
CancelBegin(x) ==
    \E b \in Bookings, by \in CancelledStatuses, refundable \in BOOLEAN :
        /\ cancel[x].pc = "idle"
        /\ GwFree(x)
        /\ status[b] # "NONE"
        /\ status[b] \notin NonCancellable
        /\ cancel' = [cancel EXCEPT ![x] =
                        [pc |-> "lock", booking |-> b, by |-> by,
                         refundable |-> refundable, voids |-> {}]]
        /\ UNCHANGED <<tables, create, cmi, intentReq, confirm>>

\* Transaction: the booking row is locked and its status checked again.
CancelLockBooking(x) ==
    /\ cancel[x].pc = "lock"
    /\ ~BookingLocked(cancel[x].booking)
    /\ cancel' = [cancel EXCEPT ![x] =
                    IF status[cancel[x].booking] \in NonCancellable
                    THEN IdleCancel ELSE [@ EXCEPT !.pc = "locked"]]
    /\ UNCHANGED <<tables, create, cmi, intentReq, confirm>>

\* Mutant: the refund is written whether or not anything was settled.
RefundDueUnpaid(x) == ~HasRefund(cancel[x].booking) /\ cancel[x].refundable

\* A REFUND row is due: a settled GUEST_PAYMENT, no earlier REFUND and a
\* positive theoretical refund.
RefundDue(x) ==
    /\ HasSettledPayment(cancel[x].booking)
    /\ ~HasRefund(cancel[x].booking)
    /\ cancel[x].refundable

\* CMI PreAuths to void after the commit: only when nothing was settled.
VoidCandidates(b) ==
    IF Provider = "cmi" /\ ~HasSettledPayment(b)
    THEN {i \in IntentsOf(b) : intentStatus[i] \in {"PENDING", "FAILED"}} ELSE {}

\* Status, REFUND row and PENDING intents in one commit, which waits for the
\* locks on those intents; then the gateway is called, outside the transaction.
CancelCommit(x) ==
    LET b == cancel[x].booking
    IN  /\ cancel[x].pc = "locked"
        /\ \A i \in PendingIntents(b) : ~IntentLocked(i)
        /\ status' = [status EXCEPT ![b] = cancel[x].by]
        /\ ledger' = IF RefundDue(x) THEN [ledger EXCEPT ![b].refundPending = @ + 1]
                                     ELSE ledger
        /\ CancelPendingIntents(b)
        /\ gw' = IF Provider = "cmi" /\ RefundDue(x)
                 THEN [gw EXCEPT ![x] = RefundBooking(b)] ELSE gw
        /\ cancel' = [cancel EXCEPT ![x] =
                        IF VoidCandidates(b) = {} THEN IdleCancel
                        ELSE [@ EXCEPT !.pc = "voiding", !.voids = VoidCandidates(b)]]
        /\ UNCHANGED <<stay, intentRow, blocks, now, create, metadata, auth,
                       intentReq, confirm>>

\* The PreAuths are voided one after the other.
CancelVoidNext(x) ==
    \E i \in cancel[x].voids :
        /\ cancel[x].pc = "voiding"
        /\ GwFree(x)
        /\ gw' = [gw EXCEPT ![x] = VoidPreAuth(i)]
        /\ cancel' = [cancel EXCEPT ![x] =
                        IF cancel[x].voids = {i} THEN IdleCancel
                        ELSE [@ EXCEPT !.voids = cancel[x].voids \ {i}]]
        /\ UNCHANGED <<tables, create, metadata, auth, intentReq, confirm>>

\* A rollback (deadlock victim, lost connection) or a crash after the commit.
CancelAbort(x) ==
    /\ cancel[x].pc # "idle" \/ ~GwFree(x)
    /\ cancel' = [cancel EXCEPT ![x] = IdleCancel]
    /\ gw' = [gw EXCEPT ![x] = IdleGw]
    /\ UNCHANGED <<tables, create, metadata, auth, intentReq, confirm>>

CancellationStep ==
    \E x \in CancelReqs : \/ CancelBegin(x)
                          \/ CancelLockBooking(x)
                          \/ CancelCommit(x)
                          \/ CancelVoidNext(x)
                          \/ CancelAbort(x)

CancellationInit == cancel = [x \in CancelReqs |-> IdleCancel]

CancellationTypeOK == cancel \in [CancelReqs -> CancelStates]
============================================================================
