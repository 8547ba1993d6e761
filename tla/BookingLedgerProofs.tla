------------------------- MODULE BookingLedgerProofs -------------------------
(***************************************************************************)
(* The money invariants of BookingSystem, for every value of the           *)
(* constants: a booking is settled exactly when it was confirmed, and      *)
(* refunded at most once; the guest's card is captured, voided and         *)
(* credited as the ledger says.                                            *)
(***************************************************************************)
EXTENDS BookingSystemTypes

\* The parts of SettlementInv about one ledger row and one status.
RowSettled(st, row) ==
    /\ row.payment <= 1
    /\ st \in CONFIRMED_BOOKING_STATUSES => row.payment = 1
    /\ st \in {"NONE", "PAYMENT_PENDING", "EXPIRED"} => row.payment = 0
    /\ row.refundPending + row.refundSettled <= row.payment
    /\ st = "CONFIRMED" => row.refundPending + row.refundSettled = 0

\* Jobs hold bookings whose payment is settled.
JobsHoldPaid == \A j \in CompleteJobs : \A b \in completeJob[j] : ledger[b].payment = 1

\* SettlementInv, row by row.
LEMMA SettlementByRow ==
    ASSUME TypeOK
    PROVE  SettlementInv <=> JobsHoldPaid /\ \A b \in Bookings : RowSettled(status[b], ledger[b])
<1>1. \A b \in Bookings : /\ ledger[b].payment \in Nat
                          /\ ledger[b].refundPending \in Nat
                          /\ ledger[b].refundSettled \in Nat
  BY DEF TypeOK, TablesTypeOK, LedgerRows
<1> QED BY <1>1 DEF SettlementInv, JobsHoldPaid, RowSettled, SettledExactlyWhenConfirmed,
                    RefundOnlyOnceAndPaid, HasRefund

\* The same after a step.
LEMMA SettlementByRowNext ==
    ASSUME TypeOK'
    PROVE  SettlementInv' <=>
             JobsHoldPaid' /\ \A b \in Bookings : RowSettled(status'[b], ledger'[b])
<1>1. \A b \in Bookings : /\ ledger'[b].payment \in Nat
                          /\ ledger'[b].refundPending \in Nat
                          /\ ledger'[b].refundSettled \in Nat
  BY DEF TypeOK, TablesTypeOK, LedgerRows
<1> QED BY <1>1 DEF SettlementInv, JobsHoldPaid, RowSettled, SettledExactlyWhenConfirmed,
                    RefundOnlyOnceAndPaid, HasRefund

\* Most steps write no ledger row, and move a booking only from NONE to
\* PAYMENT_PENDING or from there to EXPIRED; jobs pick up CONFIRMED bookings.
LedgerFrame ==
    /\ UNCHANGED ledger
    /\ \A b \in Bookings :
         \/ status'[b] = status[b]
         \/ status[b] = "NONE" /\ status'[b] = "PAYMENT_PENDING"
         \/ status[b] = "PAYMENT_PENDING" /\ status'[b] = "EXPIRED"
    /\ \A j \in CompleteJobs :
         completeJob'[j] \subseteq completeJob[j] \cup {b \in Bookings : status[b] = "CONFIRMED"}

\* Such a step keeps the money invariants.
LEMMA FrameKeepsSettlement ==
    ASSUME SettlementInv, LedgerFrame, TypeOK'
    PROVE  SettlementInv'
<1>1. TypeOK
  BY DEF SettlementInv
<1>2. JobsHoldPaid /\ \A b \in Bookings : RowSettled(status[b], ledger[b])
  BY <1>1, SettlementByRow
<1>3. \A b \in Bookings : RowSettled(status'[b], ledger'[b])
  BY <1>2 DEF LedgerFrame, RowSettled, CONFIRMED_BOOKING_STATUSES
<1>4. JobsHoldPaid'
  BY <1>2 DEF LedgerFrame, JobsHoldPaid, RowSettled, CONFIRMED_BOOKING_STATUSES
<1> QED BY <1>3, <1>4, SettlementByRowNext

----------------------------------------------------------------------------
\* createBooking, host blocks and the clock.
LEMMA CreationLedgerFrame ==
    ASSUME TypeOK, TimePasses \/ CreationStep
    PROVE  LedgerFrame
<1> USE DEF LedgerFrame, jobs, tables
<1>1. CASE TimePasses
  BY <1>1 DEF TimePasses, Tick
<1>2. ASSUME NEW c \in CreateReqs, CreateCheck(c) \/ CreateAbort(c), UNCHANGED jobs
      PROVE  LedgerFrame
  BY <1>2 DEF CreateCheck, CreateAbort
<1>3. ASSUME NEW c \in CreateReqs, CreateInsert(c), UNCHANGED jobs
      PROVE  LedgerFrame
  BY <1>3 DEF CreateInsert, NextBooking, TypeOK, TablesTypeOK
<1>4. ASSUME NEW l \in Listings, setHostAvailabilityBlock(l), UNCHANGED jobs
      PROVE  LedgerFrame
  BY <1>4 DEF setHostAvailabilityBlock
<1> QED BY <1>1, <1>2, <1>3, <1>4 DEF CreationStep

\* The gateway, except for SettleRefund.
LEMMA GatewayLedgerFrame ==
    ASSUME GatewayStep
    PROVE  LedgerFrame \/ \E a \in GwCallers : SettleRefund(a) /\ UNCHANGED jobs
BY DEF GatewayStep, GuestAuthorizes, CmiStep, CaptureRead, CaptureCall, VoidCall, VoidRead,
       RefundRead, RefundCall, PatchIntentMetadata, CmiThrows, LedgerFrame, tables, jobs

\* Payments, except for ConfirmSucceeds.
LEMMA PaymentsLedgerFrame ==
    ASSUME TypeOK, PaymentStep, UNCHANGED jobs
    PROVE  LedgerFrame \/ \E w \in ConfirmReqs : ConfirmSucceeds(w)
<1> USE DEF LedgerFrame, tables, jobs
<1>1. ASSUME NEW p \in IntentReqs, \/ IntentRead(p) \/ IntentCheck(p) \/ IntentLookup(p)
                                   \/ IntentInsert(p) \/ IntentCancelPending(p)
                                   \/ IntentAbort(p)
      PROVE  LedgerFrame
  BY <1>1 DEF IntentRead, IntentCheck, IntentLookup, IntentInsert, IntentCancelPending,
              IntentAbort
<1>2. ASSUME NEW p \in IntentReqs, IntentExpireBooking(p)
      PROVE  LedgerFrame
  BY <1>2 DEF IntentExpireBooking, PRE_CONFIRMATION_BOOKING_STATUSES, TypeOK, TablesTypeOK
<1>3. ASSUME NEW w \in ConfirmReqs, \/ ConfirmBegin(w) \/ ConfirmLockIntent(w)
                                    \/ ConfirmNotPayable(w) \/ ConfirmAbort(w)
      PROVE  LedgerFrame
  BY <1>3 DEF ConfirmBegin, ConfirmLockIntent, ConfirmNotPayable, ConfirmAbort
<1>4. ASSUME NEW w \in ConfirmReqs, ConfirmDatesUnavailable(w)
      PROVE  LedgerFrame
  BY <1>4 DEF ConfirmDatesUnavailable, Payable, TypeOK, TablesTypeOK
<1> QED BY <1>1, <1>2, <1>3, <1>4 DEF PaymentStep

\* Cancellation, except for CancelCommit.
LEMMA CancellationLedgerFrame ==
    ASSUME CancellationStep, UNCHANGED jobs
    PROVE  LedgerFrame \/ \E x \in CancelReqs : CancelCommit(x)
BY DEF CancellationStep, CancelBegin, CancelLockBooking, CancelVoidNext, CancelAbort,
       LedgerFrame, tables, jobs

\* The jobs, except for CompleteBooking.
LEMMA SchedulerLedgerFrame ==
    ASSUME TypeOK, SchedulerStep
    PROVE  LedgerFrame \/ \E j \in CompleteJobs : CompleteBooking(j)
<1> USE DEF LedgerFrame, tables
<1>1. ASSUME NEW e \in ExpireJobs, \/ ExpireFind(e) \/ ExpireReadIntents(e) \/ ExpireVoidNext(e)
                                   \/ ExpireCancelIntents(e) \/ ExpireFails(e) \/ ExpireCrash(e)
      PROVE  LedgerFrame
  BY <1>1 DEF ExpireFind, ExpireReadIntents, ExpireVoidNext, ExpireCancelIntents, ExpireFails,
              ExpireCrash
<1>2. ASSUME NEW e \in ExpireJobs, ExpireBooking(e)
      PROVE  LedgerFrame
  BY <1>2 DEF ExpireBooking, PRE_CONFIRMATION_BOOKING_STATUSES, TypeOK, TablesTypeOK
<1>3. ASSUME NEW j \in CompleteJobs, CompleteFind(j) \/ CompleteFails(j) \/ CompleteCrash(j)
      PROVE  LedgerFrame
  BY <1>3 DEF CompleteFind, PastStays, CheckoutDayStays, CompleteFails, CompleteCrash,
              TypeOK, SchedulerTypeOK
<1> QED BY <1>1, <1>2, <1>3 DEF SchedulerStep, ExpireStep, CompleteStep

----------------------------------------------------------------------------
\* The four steps that write the ledger or a status the frame does not allow.
LEMMA LedgerWritersKeepSettlement ==
    ASSUME SettlementInv, TypeOK',
           \/ \E w \in ConfirmReqs : ConfirmSucceeds(w) /\ UNCHANGED jobs
           \/ \E x \in CancelReqs : CancelCommit(x) /\ UNCHANGED jobs
           \/ \E a \in GwCallers : SettleRefund(a) /\ UNCHANGED jobs
           \/ \E j \in CompleteJobs : CompleteBooking(j)
    PROVE  SettlementInv'
<1>1. TypeOK
  BY DEF SettlementInv
<1>2. JobsHoldPaid /\ \A b \in Bookings : RowSettled(status[b], ledger[b])
  BY <1>1, SettlementByRow
<1>3. /\ status \in [Bookings -> BookingStatus]
      /\ ledger \in [Bookings -> LedgerRows]
      /\ completeJob \in [CompleteJobs -> SUBSET Bookings]
  BY <1>1 DEF TypeOK, TablesTypeOK, SchedulerTypeOK
<1>4. SUFFICES JobsHoldPaid' /\ \A b \in Bookings : RowSettled(status'[b], ledger'[b])
  BY SettlementByRowNext
<1> USE DEF CONFIRMED_BOOKING_STATUSES
<1>5. ASSUME NEW w \in ConfirmReqs, ConfirmSucceeds(w), UNCHANGED jobs
      PROVE  JobsHoldPaid' /\ \A b \in Bookings : RowSettled(status'[b], ledger'[b])
  <2> DEFINE o == intentRow[confirm[w].intent].booking
  <2>1. /\ status[o] = "PAYMENT_PENDING"
        /\ status' = [status EXCEPT ![o] = "CONFIRMED"]
        /\ ledger' = [ledger EXCEPT ![o] = [ledger[o] EXCEPT !.payment = ledger[o].payment + 1]]
        /\ completeJob' = completeJob
    BY <1>5 DEF ConfirmSucceeds, Payable, jobs
  <2>2. ASSUME NEW b \in Bookings PROVE RowSettled(status'[b], ledger'[b])
    <3>1. CASE b = o
      <4>1. /\ ledger[b].payment = 0
            /\ ledger[b].refundPending + ledger[b].refundSettled <= 0
            /\ ledger[b].refundPending \in Nat /\ ledger[b].refundSettled \in Nat
        BY <1>2, <1>3, <2>1, <3>1 DEF RowSettled, LedgerRows
      <4>2. status'[b] = "CONFIRMED"
        BY <1>3, <2>1, <3>1
      <4>3. ledger'[b] = [ledger[b] EXCEPT !.payment = ledger[b].payment + 1]
        BY <1>3, <2>1, <3>1
      <4>4. /\ ledger'[b].payment = 1
            /\ ledger'[b].refundPending = ledger[b].refundPending
            /\ ledger'[b].refundSettled = ledger[b].refundSettled
        BY <1>3, <4>1, <4>3 DEF LedgerRows
      <4> QED BY <4>1, <4>2, <4>4 DEF RowSettled
    <3>2. CASE b # o
      BY <1>2, <1>3, <2>1, <3>2
    <3> QED BY <3>1, <3>2
  <2>3. ASSUME NEW j \in CompleteJobs, NEW b \in completeJob'[j] PROVE ledger'[b].payment = 1
    <3>1. b \in Bookings /\ ledger[b].payment = 1
      BY <1>2, <1>3, <2>1 DEF JobsHoldPaid
    <3>2. b # o
      BY <1>2, <2>1, <3>1 DEF RowSettled
    <3> QED BY <1>3, <2>1, <3>1, <3>2
  <2> QED BY <2>2, <2>3 DEF JobsHoldPaid
<1>6. ASSUME NEW x \in CancelReqs, CancelCommit(x), UNCHANGED jobs
      PROVE  JobsHoldPaid' /\ \A b \in Bookings : RowSettled(status'[b], ledger'[b])
  <2> DEFINE o == cancel[x].booking
  <2>1. o \in Bookings /\ cancel[x].by \in CancelledStatuses
    BY <1>1, <1>6, CancelShape DEF CancelCommit, TypeOK, CancellationTypeOK
  <2>2. /\ status' = [status EXCEPT ![o] = cancel[x].by]
        /\ ledger' = IF RefundDue(x)
                     THEN [ledger EXCEPT ![o] =
                             [ledger[o] EXCEPT !.refundPending = ledger[o].refundPending + 1]]
                     ELSE ledger
        /\ completeJob' = completeJob
    BY <1>6 DEF CancelCommit, jobs
  <2>3. RefundDue(x) => ledger[o].payment > 0
                        /\ ~(ledger[o].refundPending + ledger[o].refundSettled > 0)
    BY DEF RefundDue, HasSettledPayment, HasRefund
  <2>4. ASSUME NEW b \in Bookings PROVE RowSettled(status'[b], ledger'[b])
    BY <1>2, <1>3, <2>1, <2>2, <2>3 DEF RowSettled, LedgerRows, CancelledStatuses
  <2>5. \A b \in Bookings : ledger'[b].payment = ledger[b].payment
    BY <1>3, <2>1, <2>2 DEF LedgerRows
  <2>6. JobsHoldPaid'
    BY <1>2, <1>3, <2>2, <2>5 DEF JobsHoldPaid
  <2> QED BY <2>4, <2>6
<1>7. ASSUME NEW a \in GwCallers, SettleRefund(a), UNCHANGED jobs
      PROVE  JobsHoldPaid' /\ \A b \in Bookings : RowSettled(status'[b], ledger'[b])
  <2> DEFINE o == gw[a].booking
  <2>1. /\ status' = status
        /\ ledger' = IF ledger[o].refundPending > 0
                     THEN [ledger EXCEPT ![o] =
                             [ledger[o] EXCEPT !.refundPending = ledger[o].refundPending - 1,
                                               !.refundSettled = ledger[o].refundSettled + 1]]
                     ELSE ledger
        /\ completeJob' = completeJob
    BY <1>7 DEF SettleRefund, jobs
  <2>2. \A b \in Bookings :
          /\ ledger'[b].payment = ledger[b].payment
          /\ ledger'[b].refundPending + ledger'[b].refundSettled
               = ledger[b].refundPending + ledger[b].refundSettled
    BY <1>3, <2>1 DEF LedgerRows
  <2>3. ASSUME NEW b \in Bookings PROVE RowSettled(status'[b], ledger'[b])
    BY <1>2, <2>1, <2>2 DEF RowSettled
  <2>4. JobsHoldPaid'
    BY <1>2, <1>3, <2>1, <2>2 DEF JobsHoldPaid
  <2> QED BY <2>3, <2>4
<1>8. ASSUME NEW j \in CompleteJobs, CompleteBooking(j)
      PROVE  JobsHoldPaid' /\ \A b \in Bookings : RowSettled(status'[b], ledger'[b])
  <2>1. PICK o \in completeJob[j] :
          /\ status' = [status EXCEPT ![o] = "COMPLETED"]
          /\ completeJob' = [completeJob EXCEPT ![j] = completeJob[j] \ {o}]
          /\ ledger' = ledger
    BY <1>8 DEF CompleteBooking
  <2>2. o \in Bookings /\ ledger[o].payment = 1
    BY <1>2, <1>3 DEF JobsHoldPaid
  <2>3. ASSUME NEW b \in Bookings PROVE RowSettled(status'[b], ledger'[b])
    BY <1>2, <1>3, <2>1, <2>2 DEF RowSettled
  <2>4. JobsHoldPaid'
    BY <1>2, <1>3, <2>1 DEF JobsHoldPaid
  <2> QED BY <2>3, <2>4
<1> QED BY <1>5, <1>6, <1>7, <1>8

\* Nothing is settled at the start.
LEMMA InitSettlement == Init => SettlementInv
<1> SUFFICES ASSUME Init PROVE SettlementInv
  OBVIOUS
<1>1. TypeOK
  BY InitTypes
<1>2. \A b \in Bookings : RowSettled(status[b], ledger[b])
  BY DEF Init, TablesInit, EmptyLedger, RowSettled, CONFIRMED_BOOKING_STATUSES
<1>3. JobsHoldPaid
  BY DEF Init, SchedulerInit, JobsHoldPaid
<1> QED BY <1>1, <1>2, <1>3, SettlementByRow

\* Every step keeps the settlement invariant.
LEMMA NextSettlement == SettlementInv /\ [Next]_vars => SettlementInv'
<1> SUFFICES ASSUME SettlementInv, [Next]_vars PROVE SettlementInv'
  OBVIOUS
<1>1. TypeOK
  BY DEF SettlementInv
<1>2. TypeOK'
  BY <1>1, NextTypes
<1>3. CASE TimePasses \/ CreationStep
  BY <1>1, <1>2, <1>3, CreationLedgerFrame, FrameKeepsSettlement
<1>4. CASE GatewayStep
  BY <1>2, <1>4, GatewayLedgerFrame, FrameKeepsSettlement, LedgerWritersKeepSettlement
<1>5. CASE RequestStep
  <2>1. UNCHANGED jobs
    BY <1>5 DEF RequestStep
  <2>2. CASE PaymentStep
    BY <1>1, <1>2, <2>1, <2>2, PaymentsLedgerFrame, FrameKeepsSettlement,
       LedgerWritersKeepSettlement
  <2>3. CASE CancellationStep
    BY <1>2, <2>1, <2>3, CancellationLedgerFrame, FrameKeepsSettlement,
       LedgerWritersKeepSettlement
  <2> QED BY <1>5, <2>2, <2>3 DEF RequestStep
<1>6. CASE SchedulerStep
  BY <1>1, <1>2, <1>6, SchedulerLedgerFrame, FrameKeepsSettlement, LedgerWritersKeepSettlement
<1>7. CASE UNCHANGED vars
  <2>1. LedgerFrame
    BY <1>7 DEF vars, tables, jobs, LedgerFrame
  <2> QED BY <1>2, <2>1, FrameKeepsSettlement
<1> QED BY <1>3, <1>4, <1>5, <1>6, <1>7 DEF Next

\* The settlement invariant holds in every reachable state.
LEMMA SettlementAlways == Spec => []SettlementInv
BY InitSettlement, NextSettlement, PTL DEF Spec

\* A booking is settled at most once, exactly the confirmed ones are settled,
\* and no unpaid or expired hold is, for any number of callbacks,
\* cancellations and jobs racing.
THEOREM SettledOnce == Spec => []SettledExactlyWhenConfirmed
<1>1. SettlementInv => SettledExactlyWhenConfirmed
  BY DEF SettlementInv
<1> QED BY <1>1, SettlementAlways, PTL

\* A booking is refunded at most once, and only if it was settled.
THEOREM RefundedOnce == Spec => []RefundOnlyOnceAndPaid
<1>1. SettlementInv => RefundOnlyOnceAndPaid
  BY DEF SettlementInv
<1> QED BY <1>1, SettlementAlways, PTL

----------------------------------------------------------------------------
(* The guest's card: captures, voids and credits match the ledger. *)

\* What no step undoes.
CardFrame ==
    /\ \A i \in Intents : Issued(i) => intentStatus'[i] # "NONE" /\ intentRow'[i] = intentRow[i]
    /\ \A i \in Intents : intentStatus[i] = "SUCCEEDED" => intentStatus'[i] = "SUCCEEDED"
    /\ \A i \in Intents : auth[i] = "CREDITED" => auth'[i] = "CREDITED"
    /\ \A b \in Bookings : status[b] # "NONE" => status'[b] # "NONE"
    /\ \A b \in Bookings : ledger[b].payment = 1 => ledger'[b].payment = 1
    /\ \A b \in Bookings : NeverPaid(b) => status'[b] # "PAYMENT_PENDING" /\ ledger'[b].payment = 0

\* What a step may add, and on which grounds.
CardNews ==
    /\ \A i \in Intents : intentStatus'[i] # "NONE" =>
         Issued(i) \/ BookingStored(intentRow'[i].booking)
    /\ \A i \in Intents : intentStatus'[i] = "SUCCEEDED" =>
         intentStatus[i] = "SUCCEEDED" \/ PaidIntent(i)'
    /\ \A i \in Intents : \/ auth'[i] = auth[i]
                          \/ auth'[i] = "AUTHORIZED" /\ Issued(i)
                          \/ auth'[i] \in {"CAPTURED", "CREDITED"} /\ PaidIntent(i)
                          \/ auth'[i] = "VOIDED" /\ UnpaidIntent(i)
    /\ \A b \in Bookings : ledger'[b].payment > 0 =>
         ledger[b].payment > 0 \/ (SucceededIntents(b) # {})'
    /\ \A b \in Bookings : ledger'[b].refundSettled > 0 =>
         ledger[b].refundSettled > 0 \/ \E i \in Intents : CreditedIntent(i, b)

\* The facts that justify a gateway call stay true.
LEMMA FrameKeepsFacts ==
    ASSUME CardFrame, \A i \in Intents : IntentJustified(i)
    PROVE  /\ \A i : Issued(i) => Issued(i)'
           /\ \A b : BookingStored(b) => BookingStored(b)'
           /\ \A b : NeverPaid(b) => NeverPaid(b)'
           /\ \A i : PaidIntent(i) => PaidIntent(i)'
           /\ \A i : UnpaidIntent(i) => UnpaidIntent(i)'
           /\ \A i, b : i \in IntentsOf(b) => i \in IntentsOf(b)'
           /\ \A i, b : CreditedIntent(i, b) => CreditedIntent(i, b)'
<1>1. \A i : Issued(i) => Issued(i)' /\ i \in Intents
  BY DEF Issued, CardFrame
<1>2. \A b : BookingStored(b) => BookingStored(b)' /\ b \in Bookings
  BY DEF BookingStored, CardFrame
<1>3. \A b : NeverPaid(b) => NeverPaid(b)' /\ b \in Bookings
  BY <1>2 DEF NeverPaid, CardFrame
<1>4. \A i : Issued(i) => intentRow'[i] = intentRow[i] /\ intentRow[i].booking \in Bookings
  BY <1>1, <1>2 DEF CardFrame, IntentJustified
<1>5. \A i : PaidIntent(i) => PaidIntent(i)'
  BY <1>1, <1>4 DEF PaidIntent, CardFrame
<1>6. \A i : UnpaidIntent(i) => UnpaidIntent(i)'
  BY <1>1, <1>3, <1>4 DEF UnpaidIntent
<1>7. \A i, b : i \in IntentsOf(b) => i \in IntentsOf(b)' /\ i \in Intents
  BY <1>1, <1>4 DEF IntentsOf, Issued
<1>8. \A i, b : CreditedIntent(i, b) => CreditedIntent(i, b)'
  BY <1>7 DEF CreditedIntent, CardFrame
<1> QED BY <1>1, <1>2, <1>3, <1>5, <1>6, <1>7, <1>8

\* So a call, a void list or an intent that was justified stays so.
LEMMA JustifiedStays ==
    ASSUME CardFrame, \A i \in Intents : IntentJustified(i)
    PROVE  /\ \A g : CallJustified(g) => CallJustified(g)'
           /\ \A r : VoidsJustified(r) => VoidsJustified(r)'
<1>1. \A g : CallJustified(g) => CallJustified(g)'
  BY FrameKeepsFacts DEF CallJustified
<1>2. \A r : VoidsJustified(r) => VoidsJustified(r)'
  BY FrameKeepsFacts DEF VoidsJustified
<1> QED BY <1>1, <1>2

\* Intents and ledger rows stay justified.
LEMMA RowsStayJustified ==
    ASSUME TypeOK, TypeOK', CardFrame, CardNews,
           \A i \in Intents : IntentJustified(i),
           \A b \in Bookings : LedgerJustified(b)
    PROVE  /\ \A i \in Intents : IntentJustified(i)'
           /\ \A b \in Bookings : LedgerJustified(b)'
<1>1. ASSUME NEW i \in Intents PROVE IntentJustified(i)'
  <2>1. Issued(i)' => BookingStored(intentRow[i].booking)'
    <3>1. CASE Issued(i)
      BY <3>1, FrameKeepsFacts DEF IntentJustified, CardFrame
    <3>2. CASE ~Issued(i)
      <4>1. Issued(i)' => BookingStored(intentRow'[i].booking)
        BY <3>2 DEF CardNews, Issued
      <4> QED BY <4>1 DEF CardFrame, BookingStored
    <3> QED BY <3>1, <3>2
  <2>2. intentStatus'[i] = "SUCCEEDED" => PaidIntent(i)'
    BY FrameKeepsFacts DEF CardNews, IntentJustified
  <2>3. /\ auth'[i] # "NONE" => Issued(i)'
        /\ auth'[i] \in {"CAPTURED", "CREDITED"} => PaidIntent(i)'
        /\ auth'[i] = "VOIDED" => UnpaidIntent(i)'
    <3>1. CASE auth'[i] = auth[i]
      BY <3>1, FrameKeepsFacts DEF IntentJustified
    <3>2. CASE auth'[i] = "AUTHORIZED" /\ Issued(i)
      BY <3>2, FrameKeepsFacts
    <3>3. CASE auth'[i] \in {"CAPTURED", "CREDITED"} /\ PaidIntent(i)
      BY <3>3, FrameKeepsFacts DEF PaidIntent
    <3>4. CASE auth'[i] = "VOIDED" /\ UnpaidIntent(i)
      BY <3>4, FrameKeepsFacts DEF UnpaidIntent
    <3> QED BY <3>1, <3>2, <3>3, <3>4 DEF CardNews
  <2> QED BY <2>1, <2>2, <2>3 DEF IntentJustified
<1>2. ASSUME NEW b \in Bookings PROVE LedgerJustified(b)'
  <2>1. SucceededIntents(b) # {} => (SucceededIntents(b) # {})'
    <3>1. \A i : i \in SucceededIntents(b) => i \in SucceededIntents(b)'
      BY FrameKeepsFacts DEF SucceededIntents, IntentsOf, CardFrame
    <3> QED BY <3>1
  <2>2. ledger'[b].payment > 0 => (SucceededIntents(b) # {})'
    BY <2>1 DEF CardNews, LedgerJustified
  <2>3. ledger'[b].refundSettled > 0 => \E i \in Intents : CreditedIntent(i, b)'
    BY FrameKeepsFacts DEF CardNews, LedgerJustified
  <2> QED BY <2>2, <2>3 DEF LedgerJustified
<1> QED BY <1>1, <1>2

\* A step that writes neither status, intent, ledger nor PreAuth.
LEMMA QuietCards ==
    ASSUME UNCHANGED <<status, intentStatus, intentRow, ledger, auth>>
    PROVE  CardFrame /\ CardNews
BY DEF CardFrame, CardNews, NeverPaid, BookingStored, Issued

\* A step that moves bookings but never out of NeverPaid, and nothing else.
LEMMA MovedCards ==
    ASSUME UNCHANGED <<intentStatus, intentRow, ledger, auth>>,
           \A b \in Bookings : status[b] # "NONE" => status'[b] # "NONE",
           \A b \in Bookings : NeverPaid(b) => status'[b] # "PAYMENT_PENDING"
    PROVE  CardFrame /\ CardNews
BY DEF CardFrame, CardNews, NeverPaid, Issued

\* A step that cancels the PENDING intents of a booking, and nothing else.
LEMMA CancelledCards ==
    ASSUME TypeOK, NEW b \in Bookings, CancelPendingIntents(b),
           UNCHANGED <<status, intentRow, ledger, auth>>
    PROVE  CardFrame /\ CardNews
BY DEF CardFrame, CardNews, NeverPaid, Issued, CancelPendingIntents, PendingIntents, IntentsOf

\* createBooking, host blocks and the clock.
LEMMA CreationCards ==
    ASSUME CardInv, TimePasses \/ CreationStep
    PROVE  CardFrame /\ CardNews
<1> TypeOK
  BY DEF CardInv, SettlementInv
<1>1. CASE TimePasses
  BY <1>1, QuietCards DEF TimePasses, Tick, cmi
<1>2. ASSUME NEW c \in CreateReqs, CreateCheck(c) \/ CreateAbort(c), UNCHANGED cmi
      PROVE  CardFrame /\ CardNews
  BY <1>2, QuietCards DEF CreateCheck, CreateAbort, tables, cmi
<1>3. ASSUME NEW c \in CreateReqs, CreateInsert(c), UNCHANGED cmi
      PROVE  CardFrame /\ CardNews
  BY <1>3, MovedCards DEF CreateInsert, NextBooking, cmi, TypeOK, TablesTypeOK, NeverPaid,
                          BookingStored
<1>4. ASSUME NEW l \in Listings, setHostAvailabilityBlock(l), UNCHANGED cmi
      PROVE  CardFrame /\ CardNews
  BY <1>4, QuietCards DEF setHostAvailabilityBlock, cmi
<1> QED BY <1>1, <1>2, <1>3, <1>4 DEF CreationStep

\* The gateway: every effect on a PreAuth is justified by the call.
LEMMA GatewayCards ==
    ASSUME CardInv, GatewayStep
    PROVE  CardFrame /\ CardNews
<1> TypeOK
  BY DEF CardInv, SettlementInv
<1>a. /\ auth \in [Intents -> AuthStates]
      /\ ledger \in [Bookings -> LedgerRows]
      /\ \A a \in GwCallers : gw[a] \in GwCalls /\ CallJustified(gw[a])
      /\ \A i \in Intents : IntentJustified(i)
  BY DEF TypeOK, CmiTypeOK, TablesTypeOK, CardInv, HoldersJustified
<1>1. ASSUME NEW i \in Intents, GuestAuthorizes(i) PROVE CardFrame /\ CardNews
  BY <1>1, <1>a DEF GuestAuthorizes, tables, CardFrame, CardNews, Issued, NeverPaid
<1>b. ASSUME NEW i \in Intents, NEW before \in AuthStates, NEW after \in AuthStates,
             NEW ok \in BOOLEAN, merchantRequest(i, before, after, ok),
             before # "CREDITED", UNCHANGED tables,
             \/ after \in {"CAPTURED", "CREDITED"} /\ (auth[i] = before => PaidIntent(i))
             \/ after = "VOIDED" /\ UnpaidIntent(i)
      PROVE  CardFrame /\ CardNews
  BY <1>b, <1>a DEF merchantRequest, tables, CardFrame, CardNews, Issued, NeverPaid
<1>2. ASSUME NEW a \in GwCallers, CaptureCall(a) PROVE CardFrame /\ CardNews
  <2>1. PICK ok \in BOOLEAN : /\ gw[a].pc = "captureCall"
                              /\ merchantRequest(gw[a].intent, "AUTHORIZED", "CAPTURED", ok)
                              /\ UNCHANGED tables
    BY <1>2 DEF CaptureCall
  <2>2. PaidIntent(gw[a].intent) /\ gw[a].intent \in Intents
    BY <1>a, <2>1 DEF CallJustified, PaidIntent, Issued
  <2> QED BY <1>b, <2>1, <2>2 DEF AuthStates
<1>3. ASSUME NEW a \in GwCallers, VoidCall(a) PROVE CardFrame /\ CardNews
  <2>1. PICK ok \in BOOLEAN : /\ gw[a].pc = "voidCall"
                              /\ merchantRequest(gw[a].intent, "AUTHORIZED", "VOIDED", ok)
                              /\ UNCHANGED tables
    BY <1>3 DEF VoidCall
  <2>2. UnpaidIntent(gw[a].intent) /\ gw[a].intent \in Intents
    BY <1>a, <2>1 DEF CallJustified, UnpaidIntent, Issued
  <2> QED BY <1>b, <2>1, <2>2 DEF AuthStates
<1>4. ASSUME NEW a \in GwCallers, RefundCall(a) PROVE CardFrame /\ CardNews
  <2>1. PICK ok \in BOOLEAN : /\ gw[a].pc = "refundCall"
                              /\ merchantRequest(gw[a].intent, "CAPTURED", "CREDITED", ok)
                              /\ UNCHANGED tables
    BY <1>4 DEF RefundCall
  <2>2. gw[a].intent \in Intents
    BY <1>a, <2>1 DEF CallJustified, IntentsOf
  <2>3. auth[gw[a].intent] = "CAPTURED" => PaidIntent(gw[a].intent)
    BY <1>a, <2>2 DEF IntentJustified
  <2> QED BY <1>b, <2>1, <2>2, <2>3 DEF AuthStates
<1>5. ASSUME NEW a \in GwCallers, SettleRefund(a) PROVE CardFrame /\ CardNews
  <2> DEFINE o == gw[a].booking
  <2>1. /\ UNCHANGED <<status, intentStatus, intentRow, auth>>
        /\ gw[a].pc = "settle"
        /\ ledger' = IF ledger[o].refundPending > 0
                     THEN [ledger EXCEPT ![o] =
                             [ledger[o] EXCEPT !.refundPending = ledger[o].refundPending - 1,
                                               !.refundSettled = ledger[o].refundSettled + 1]]
                     ELSE ledger
    BY <1>5 DEF SettleRefund
  <2>2. /\ \A b \in Bookings : ledger'[b].payment = ledger[b].payment
        /\ \A b \in Bookings : b # o => ledger'[b] = ledger[b]
    BY <1>a, <2>1 DEF LedgerRows
  <2>3. \E i \in Intents : CreditedIntent(i, o)
    BY <1>a, <2>1 DEF CallJustified, CreditedIntent, IntentsOf
  <2>4. CardFrame
    BY <2>1, <2>2 DEF CardFrame, NeverPaid, Issued
  <2>5. CardNews
    BY <2>1, <2>2, <2>3 DEF CardNews, Issued
  <2> QED BY <2>4, <2>5
<1>6. ASSUME NEW a \in GwCallers, \/ CaptureRead(a) \/ VoidRead(a) \/ RefundRead(a)
                                  \/ PatchIntentMetadata(a) \/ CmiThrows(a)
      PROVE  CardFrame /\ CardNews
  BY <1>6, QuietCards DEF CaptureRead, VoidRead, RefundRead, PatchIntentMetadata, CmiThrows, tables
<1> QED BY <1>1, <1>2, <1>3, <1>4, <1>5, <1>6 DEF GatewayStep, CmiStep

\* createOrGetIntent and confirmPaymentSuccess.
LEMMA PaymentCards ==
    ASSUME CardInv, PaymentStep
    PROVE  CardFrame /\ CardNews
<1> TypeOK
  BY DEF CardInv, SettlementInv
<1>a. /\ status \in [Bookings -> BookingStatus]
      /\ intentStatus \in [Intents -> IntentStatus]
      /\ intentRow \in [Intents -> IntentRows \cup {NoIntent}]
      /\ ledger \in [Bookings -> LedgerRows]
      /\ \A i \in Intents : IntentJustified(i)
      /\ \A w \in ConfirmReqs : confirm[w].pc # "idle" => Issued(confirm[w].intent)
      /\ \A p \in IntentReqs : intentReq[p].pc # "idle" => BookingStored(intentReq[p].booking)
      /\ \A b \in Bookings : RowSettled(status[b], ledger[b])
  BY SettlementByRow DEF TypeOK, TablesTypeOK, CardInv, HoldersJustified
<1>1. ASSUME NEW p \in IntentReqs, \/ IntentRead(p) \/ IntentCheck(p) \/ IntentLookup(p)
                                   \/ IntentAbort(p)
      PROVE  CardFrame /\ CardNews
  BY <1>1, QuietCards DEF IntentRead, IntentCheck, IntentLookup, IntentAbort, tables, cmi
<1>2. ASSUME NEW p \in IntentReqs, IntentInsert(p)
      PROVE  CardFrame /\ CardNews
  <2>1. PICK i \in Intents :
          /\ intentReq[p].pc = "insert"
          /\ intentStatus[i] = "NONE"
          /\ intentStatus' = [intentStatus EXCEPT ![i] = "PENDING"]
          /\ intentRow' = [intentRow EXCEPT ![i] =
                             [booking |-> intentReq[p].booking, key |-> intentReq[p].key]]
          /\ UNCHANGED <<status, ledger, auth>>
    BY <1>2 DEF IntentInsert, NextIntent, cmi
  <2>2. /\ intentStatus'[i] = "PENDING" /\ intentRow'[i].booking = intentReq[p].booking
        /\ \A k \in Intents \ {i} : intentStatus'[k] = intentStatus[k] /\ intentRow'[k] = intentRow[k]
    BY <1>a, <2>1
  <2>3. BookingStored(intentReq[p].booking)
    BY <1>a, <2>1
  <2>4. CardFrame
    BY <2>1, <2>2 DEF CardFrame, Issued, NeverPaid
  <2>5. CardNews
    BY <2>1, <2>2, <2>3 DEF CardNews, Issued
  <2> QED BY <2>4, <2>5
<1>3. ASSUME NEW p \in IntentReqs, IntentExpireBooking(p)
      PROVE  CardFrame /\ CardNews
  BY <1>3, <1>a, MovedCards DEF IntentExpireBooking, cmi, NeverPaid
<1>4. ASSUME NEW p \in IntentReqs, IntentCancelPending(p)
      PROVE  CardFrame /\ CardNews
  <2>1. intentReq[p].booking \in Bookings
    BY <1>a, <1>4 DEF IntentCancelPending, BookingStored
  <2> QED BY <1>4, <2>1, CancelledCards DEF IntentCancelPending, cmi
<1>5. ASSUME NEW w \in ConfirmReqs, ConfirmBegin(w) \/ ConfirmNotPayable(w) \/ ConfirmAbort(w)
      PROVE  CardFrame /\ CardNews
  BY <1>5, QuietCards DEF ConfirmBegin, ConfirmNotPayable, ConfirmAbort, AlreadyProcessed, tables, cmi
<1>6. ASSUME NEW w \in ConfirmReqs, confirm[w].pc # "idle"
      PROVE  /\ confirm[w].intent \in Intents
             /\ Issued(confirm[w].intent)
             /\ intentRow[confirm[w].intent].booking \in Bookings
  BY <1>6, <1>a DEF IntentJustified, Issued, BookingStored
<1>7. ASSUME NEW w \in ConfirmReqs, ConfirmLockIntent(w)
      PROVE  CardFrame /\ CardNews
  <2>1. PICK i \in Intents, o \in Bookings :
          i = confirm[w].intent /\ o = intentRow[i].booking /\ Issued(i)
    BY <1>6, <1>7 DEF ConfirmLockIntent
  <2>2. /\ UNCHANGED <<status, intentRow, ledger, auth>>
        /\ \/ UNCHANGED intentStatus
           \/ /\ ledger[o].payment > 0
              /\ intentStatus' = [intentStatus EXCEPT ![i] = "SUCCEEDED"]
    BY <1>7, <2>1 DEF ConfirmLockIntent, AlreadyProcessed, HasSettledPayment, cmi
  <2>3. CASE UNCHANGED intentStatus
    BY <2>2, <2>3, QuietCards
  <2>4. CASE ledger[o].payment > 0 /\ intentStatus' = [intentStatus EXCEPT ![i] = "SUCCEEDED"]
    <3>1. ledger[o].payment = 1
      BY <1>a, <2>1, <2>4 DEF RowSettled, LedgerRows
    <3>2. PaidIntent(i)'
      BY <1>a, <2>1, <2>2, <2>4, <3>1 DEF PaidIntent, Issued
    <3>3. /\ intentStatus'[i] = "SUCCEEDED"
          /\ \A k \in Intents \ {i} : intentStatus'[k] = intentStatus[k]
      BY <1>a, <2>1, <2>4
    <3>4. CardFrame
      BY <2>2, <3>3 DEF CardFrame, Issued, NeverPaid
    <3>5. CardNews
      BY <2>1, <2>2, <3>2, <3>3 DEF CardNews, Issued
    <3> QED BY <3>4, <3>5
  <2> QED BY <2>2, <2>3, <2>4
<1>8. ASSUME NEW w \in ConfirmReqs, ConfirmDatesUnavailable(w)
      PROVE  CardFrame /\ CardNews
  <2>1. PICK i \in Intents, o \in Bookings :
          i = confirm[w].intent /\ o = intentRow[i].booking /\ Issued(i)
    BY <1>6, <1>8 DEF ConfirmDatesUnavailable, Payable
  <2>2. /\ status[o] = "PAYMENT_PENDING"
        /\ intentStatus' = [intentStatus EXCEPT ![i] = "FAILED"]
        /\ status' = [status EXCEPT ![o] = "EXPIRED"]
        /\ UNCHANGED <<intentRow, ledger, auth>>
    BY <1>8, <2>1 DEF ConfirmDatesUnavailable, Payable
  <2>3. intentStatus[i] # "SUCCEEDED"
    BY <1>a, <2>1, <2>2 DEF IntentJustified, PaidIntent, RowSettled
  <2>4. /\ intentStatus'[i] = "FAILED" /\ status'[o] = "EXPIRED"
        /\ \A k \in Intents \ {i} : intentStatus'[k] = intentStatus[k]
        /\ \A b \in Bookings \ {o} : status'[b] = status[b]
    BY <1>a, <2>1, <2>2
  <2>5. CardFrame
    BY <2>2, <2>3, <2>4 DEF CardFrame, Issued, NeverPaid
  <2>6. CardNews
    BY <2>1, <2>2, <2>4 DEF CardNews, Issued
  <2> QED BY <2>5, <2>6
<1>9. ASSUME NEW w \in ConfirmReqs, ConfirmSucceeds(w)
      PROVE  CardFrame /\ CardNews
  <2>1. PICK i \in Intents, o \in Bookings :
          i = confirm[w].intent /\ o = intentRow[i].booking /\ Issued(i)
    BY <1>6, <1>9 DEF ConfirmSucceeds, Payable
  <2>2. /\ status[o] = "PAYMENT_PENDING"
        /\ intentStatus' = [intentStatus EXCEPT ![i] = "SUCCEEDED"]
        /\ status' = [status EXCEPT ![o] = "CONFIRMED"]
        /\ ledger' = [ledger EXCEPT ![o] = [ledger[o] EXCEPT !.payment = ledger[o].payment + 1]]
        /\ UNCHANGED <<intentRow, auth>>
    BY <1>9, <2>1 DEF ConfirmSucceeds, Payable
  <2>3. ledger[o].payment = 0
    BY <1>a, <2>1, <2>2 DEF RowSettled
  <2>4. /\ intentStatus'[i] = "SUCCEEDED" /\ status'[o] = "CONFIRMED" /\ ledger'[o].payment = 1
        /\ ledger'[o].refundSettled = ledger[o].refundSettled
        /\ \A k \in Intents \ {i} : intentStatus'[k] = intentStatus[k]
        /\ \A b \in Bookings \ {o} : status'[b] = status[b] /\ ledger'[b] = ledger[b]
    BY <1>a, <2>1, <2>2, <2>3 DEF LedgerRows
  <2>5. PaidIntent(i)'
    BY <2>1, <2>2, <2>4 DEF PaidIntent, Issued
  <2>6. (SucceededIntents(o) # {})'
    BY <2>1, <2>2, <2>4 DEF SucceededIntents, IntentsOf
  <2>7. CardFrame
    BY <2>2, <2>3, <2>4 DEF CardFrame, Issued, NeverPaid
  <2>8. CardNews
    <3>1. \A b \in Bookings : ledger'[b].payment > 0 =>
            ledger[b].payment > 0 \/ (SucceededIntents(b) # {})'
      BY <2>4, <2>6
    <3> QED BY <2>1, <2>2, <2>4, <2>5, <3>1 DEF CardNews, Issued
  <2> QED BY <2>7, <2>8
<1> QED BY <1>1, <1>2, <1>3, <1>4, <1>5, <1>7, <1>8, <1>9 DEF PaymentStep

\* Cancellation: a booking that is cancelled stays out of its hold.
LEMMA CancellationCards ==
    ASSUME CardInv, CancellationStep
    PROVE  CardFrame /\ CardNews
<1> TypeOK
  BY DEF CardInv, SettlementInv
<1>1. ASSUME NEW x \in CancelReqs, \/ CancelBegin(x) \/ CancelLockBooking(x)
                                   \/ CancelVoidNext(x) \/ CancelAbort(x)
      PROVE  CardFrame /\ CardNews
  BY <1>1, QuietCards DEF CancelBegin, CancelLockBooking, CancelVoidNext, CancelAbort, tables, cmi
<1>2. ASSUME NEW x \in CancelReqs, CancelCommit(x)
      PROVE  CardFrame /\ CardNews
  <2> DEFINE o == cancel[x].booking
  <2>1. o \in Bookings /\ cancel[x].by \in CancelledStatuses
    BY <1>2, CancelShape DEF CancelCommit, TypeOK, CancellationTypeOK
  <2>2. /\ status' = [status EXCEPT ![o] = cancel[x].by]
        /\ ledger' = IF RefundDue(x)
                     THEN [ledger EXCEPT ![o] =
                             [ledger[o] EXCEPT !.refundPending = ledger[o].refundPending + 1]]
                     ELSE ledger
        /\ CancelPendingIntents(o)
        /\ UNCHANGED <<intentRow, auth>>
    BY <1>2 DEF CancelCommit
  <2>3. /\ status'[o] \notin {"NONE", "PAYMENT_PENDING"}
        /\ \A b \in Bookings \ {o} : status'[b] = status[b]
    BY <2>1, <2>2 DEF TypeOK, TablesTypeOK, CancelledStatuses
  <2>4. \A b \in Bookings : /\ ledger'[b].payment = ledger[b].payment
                            /\ ledger'[b].refundSettled = ledger[b].refundSettled
    BY <2>1, <2>2 DEF TypeOK, TablesTypeOK, LedgerRows
  <2>5. \A i \in Intents : /\ intentStatus[i] # "NONE" <=> intentStatus'[i] # "NONE"
                           /\ intentStatus[i] = "SUCCEEDED" <=> intentStatus'[i] = "SUCCEEDED"
    BY <2>2 DEF CancelPendingIntents, PendingIntents, IntentsOf
  <2>6. CardFrame
    BY <2>2, <2>3, <2>4, <2>5 DEF CardFrame, Issued, NeverPaid
  <2>7. CardNews
    BY <2>2, <2>4, <2>5 DEF CardNews, Issued
  <2> QED BY <2>6, <2>7
<1> QED BY <1>1, <1>2 DEF CancellationStep

\* The jobs: only a hold expires, only a settled stay completes.
LEMMA SchedulerCards ==
    ASSUME CardInv, SchedulerStep
    PROVE  CardFrame /\ CardNews
<1> TypeOK
  BY DEF CardInv, SettlementInv
<1>1. ASSUME NEW e \in ExpireJobs, \/ ExpireFind(e) \/ ExpireReadIntents(e) \/ ExpireVoidNext(e)
                                   \/ ExpireFails(e) \/ ExpireCrash(e)
      PROVE  CardFrame /\ CardNews
  BY <1>1, QuietCards DEF ExpireFind, ExpireReadIntents, ExpireVoidNext, ExpireFails, ExpireCrash,
                          tables, cmi
<1>2. ASSUME NEW e \in ExpireJobs, ExpireBooking(e)
      PROVE  CardFrame /\ CardNews
  BY <1>2, MovedCards DEF ExpireBooking, cmi, TypeOK, TablesTypeOK, NeverPaid
<1>3. ASSUME NEW e \in ExpireJobs, ExpireCancelIntents(e)
      PROVE  CardFrame /\ CardNews
  <2>1. expireJob[e].booking \in Bookings
    BY <1>3 DEF ExpireCancelIntents, TypeOK, SchedulerTypeOK, ExpireStates
  <2> QED BY <1>3, <2>1, CancelledCards DEF ExpireCancelIntents, cmi
<1>4. ASSUME NEW j \in CompleteJobs, CompleteFind(j) \/ CompleteFails(j) \/ CompleteCrash(j)
      PROVE  CardFrame /\ CardNews
  BY <1>4, QuietCards DEF CompleteFind, CompleteFails, CompleteCrash, tables, cmi
<1>5. ASSUME NEW j \in CompleteJobs, CompleteBooking(j)
      PROVE  CardFrame /\ CardNews
  BY <1>5, MovedCards DEF CompleteBooking, cmi, TypeOK, TablesTypeOK, NeverPaid
<1> QED BY <1>1, <1>2, <1>3, <1>4, <1>5 DEF SchedulerStep, ExpireStep, CompleteStep

\* A step changes a holder only to one that is justified after the step.
HolderNews ==
    /\ \A a \in GwCallers : gw'[a] = gw[a] \/ CallJustified(gw[a])'
    /\ \A p \in IntentReqs : \/ intentReq'[p].pc = "idle"
                             \/ /\ intentReq[p].pc # "idle"
                                /\ intentReq'[p].booking = intentReq[p].booking
                             \/ BookingStored(intentReq'[p].booking)
    /\ \A w \in ConfirmReqs : \/ confirm'[w].pc = "idle"
                              \/ confirm[w].pc # "idle" /\ confirm'[w].intent = confirm[w].intent
                              \/ Issued(confirm'[w].intent)
    /\ \A x \in CancelReqs : cancel'[x] = cancel[x] \/ VoidsJustified(cancel[x])'
    /\ \A e \in ExpireJobs : \/ expireJob'[e] = expireJob[e]
                             \/ /\ VoidsJustified(expireJob[e])'
                                /\ \/ expireJob'[e].pc \in {"idle", "next"}
                                   \/ NeverPaid(expireJob[e].booking)'

\* Such a step keeps every holder justified.
LEMMA HoldersStayJustified ==
    ASSUME TypeOK', CardInv, CardFrame, HolderNews
    PROVE  HoldersJustified'
<1> USE DEF CardInv
<1>1. ASSUME NEW a \in GwCallers PROVE CallJustified(gw[a])'
  <2>1. CallJustified(gw[a])
    BY DEF HoldersJustified
  <2>2. CASE gw'[a] = gw[a]
    BY <2>1, <2>2, JustifiedStays DEF CallJustified
  <2> QED BY <2>2 DEF HolderNews
<1>2. ASSUME NEW p \in IntentReqs PROVE (intentReq[p].pc # "idle" => BookingStored(intentReq[p].booking))'
  BY FrameKeepsFacts DEF HolderNews, HoldersJustified
<1>3. ASSUME NEW w \in ConfirmReqs PROVE (confirm[w].pc # "idle" => Issued(confirm[w].intent))'
  BY FrameKeepsFacts DEF HolderNews, HoldersJustified
<1>4. ASSUME NEW x \in CancelReqs PROVE VoidsJustified(cancel[x])'
  <2>1. VoidsJustified(cancel[x])
    BY DEF HoldersJustified
  <2>2. CASE cancel'[x] = cancel[x]
    BY <2>1, <2>2, JustifiedStays DEF VoidsJustified
  <2> QED BY <2>2 DEF HolderNews
<1>5. ASSUME NEW e \in ExpireJobs
      PROVE  /\ VoidsJustified(expireJob[e])'
             /\ (expireJob[e].pc \in {"readIntents", "voiding"} => NeverPaid(expireJob[e].booking))'
  <2>1. /\ VoidsJustified(expireJob[e])
        /\ expireJob[e].pc \in {"readIntents", "voiding"} => NeverPaid(expireJob[e].booking)
    BY DEF HoldersJustified
  <2>2. CASE expireJob'[e] = expireJob[e]
    <3>1. VoidsJustified(expireJob[e])'
      BY <2>1, <2>2, JustifiedStays DEF VoidsJustified
    <3>2. (expireJob[e].pc \in {"readIntents", "voiding"} => NeverPaid(expireJob[e].booking))'
      BY <2>1, <2>2, FrameKeepsFacts
    <3> QED BY <3>1, <3>2
  <2>3. CASE expireJob'[e] # expireJob[e]
    BY <2>3 DEF HolderNews
  <2> QED BY <2>2, <2>3
<1> QED BY <1>1, <1>2, <1>3, <1>4, <1>5 DEF HoldersJustified

\* Idle holders need no justification.
LEMMA IdleJustified ==
    /\ CallJustified(IdleGw) /\ CallJustified(IdleGw)'
    /\ VoidsJustified(IdleCancel) /\ VoidsJustified(IdleCancel)'
    /\ VoidsJustified(IdleExpire) /\ VoidsJustified(IdleExpire)'
<1>1. IdleGw.pc = "idle" /\ IdleCancel.pc = "idle" /\ IdleExpire.pc = "idle"
  BY DEF IdleGw, GwCall, IdleCancel, IdleExpire
<1> QED BY <1>1 DEF CallJustified, VoidsJustified

\* Steps that touch no holder.
LEMMA NoHolder ==
    ASSUME UNCHANGED <<gw, intentReq, confirm, cancel, expireJob>>
    PROVE  HolderNews
BY DEF HolderNews

\* The gateway moves a call on: to a call justified by the answer or the read.
LEMMA GatewayHolders ==
    ASSUME CardInv, TypeOK', CardFrame, GatewayStep
    PROVE  HolderNews
<1> TypeOK
  BY DEF CardInv, SettlementInv
<1>a. /\ auth \in [Intents -> AuthStates]
      /\ gw \in [GwCallers -> GwCalls]
      /\ \A a \in GwCallers : CallJustified(gw[a])
      /\ \A i \in Intents : IntentJustified(i)
  BY DEF TypeOK, CmiTypeOK, CardInv, HoldersJustified
<1>b. UNCHANGED <<intentReq, confirm, cancel, expireJob>>
  BY DEF GatewayStep, jobs
<1>c. ASSUME NEW a \in GwCallers, NEW g, gw' = [gw EXCEPT ![a] = g], CallJustified(g)'
      PROVE  HolderNews
  <2>1. gw'[a] = g /\ \A c \in GwCallers \ {a} : gw'[c] = gw[c]
    BY <1>a, <1>c
  <2>2. CallJustified(gw[a])'
    BY <1>c, <2>1 DEF CallJustified
  <2> QED BY <1>b, <2>1, <2>2 DEF HolderNews
<1>1. ASSUME NEW i \in Intents, GuestAuthorizes(i) PROVE HolderNews
  BY <1>1, <1>b, NoHolder DEF GuestAuthorizes
<1>2. ASSUME NEW a \in GwCallers, CaptureRead(a) PROVE HolderNews
  <2>1. PICK i \in Intents : i = gw[a].intent /\ PaidIntent(i)
    BY <1>2, <1>a DEF CaptureRead, CallJustified, PaidIntent, Issued
  <2>2. PICK m : m = metadata[i]
    OBVIOUS
  <2>3. gw' = [gw EXCEPT ![a] = AfterConfirm(i, m)]
    BY <1>2, <2>1, <2>2 DEF CaptureRead
  <2>4. CallJustified(AfterConfirm(i, m))'
    <3>1. PaidIntent(i)'
      BY <2>1, <1>a, FrameKeepsFacts
    <3>2. CASE m.capture = "SUCCEEDED"
      BY <3>2, IdleJustified DEF AfterConfirm
    <3>3. CASE m.capture # "SUCCEEDED"
      BY <3>1, <3>3 DEF AfterConfirm, GwCall, CallJustified
    <3> QED BY <3>2, <3>3
  <2> QED BY <1>c, <2>3, <2>4
<1>3. ASSUME NEW a \in GwCallers, CaptureCall(a) PROVE HolderNews
  <2>1. PICK g : g.pc = "patch" /\ g.ok = FALSE /\ gw' = [gw EXCEPT ![a] = g]
    BY <1>3 DEF CaptureCall, GwCall
  <2>2. CallJustified(g)'
    BY <2>1 DEF CallJustified
  <2> QED BY <1>c, <2>1, <2>2
<1>4. ASSUME NEW a \in GwCallers, VoidCall(a) PROVE HolderNews
  <2>1. PICK g : g.pc = "voidRead" /\ gw' = [gw EXCEPT ![a] = g]
    BY <1>4 DEF VoidCall, GwCall
  <2>2. CallJustified(g)'
    BY <2>1 DEF CallJustified
  <2> QED BY <1>c, <2>1, <2>2
<1>5. ASSUME NEW a \in GwCallers, VoidRead(a) PROVE HolderNews
  <2>1. PICK g : g.pc = "patch" /\ g.ok = FALSE /\ gw' = [gw EXCEPT ![a] = g]
    BY <1>5 DEF VoidRead, GwCall
  <2>2. CallJustified(g)'
    BY <2>1 DEF CallJustified
  <2> QED BY <1>c, <2>1, <2>2
<1>6. ASSUME NEW a \in GwCallers, RefundRead(a) PROVE HolderNews
  <2>1. PICK b : b = gw[a].booking
    OBVIOUS
  <2>2. CASE gw' = [gw EXCEPT ![a] = IdleGw]
    BY <1>c, <2>2, IdleJustified
  <2>3. CASE gw' # [gw EXCEPT ![a] = IdleGw]
    <3>1. PICK i \in SucceededIntents(b) :
            gw' = [gw EXCEPT ![a] = GwCall("refundCall", b, i, metadata[i], FALSE)]
      BY <1>6, <2>1, <2>3 DEF RefundRead
    <3>2. PICK m : m = metadata[i]
      OBVIOUS
    <3>3. i \in IntentsOf(b)'
      BY <3>1, <1>a, FrameKeepsFacts DEF SucceededIntents
    <3>4. CallJustified(GwCall("refundCall", b, i, m, FALSE))'
      BY <3>3 DEF CallJustified, GwCall
    <3> QED BY <1>c, <3>1, <3>2, <3>4
  <2> QED BY <2>2, <2>3
<1>7. ASSUME NEW a \in GwCallers, RefundCall(a) PROVE HolderNews
  <2>0. PICK ok \in BOOLEAN :
          /\ gw[a].pc = "refundCall"
          /\ merchantRequest(gw[a].intent, "CAPTURED", "CREDITED", ok)
          /\ gw' = [gw EXCEPT ![a] = GwCall("patch", gw[a].booking, gw[a].intent,
                                           [gw[a].meta EXCEPT !.refund = Answer(ok)], ok)]
    BY <1>7 DEF RefundCall
  <2>1. PICK m, b, i :
          /\ b = gw[a].booking
          /\ i = gw[a].intent
          /\ merchantRequest(i, "CAPTURED", "CREDITED", ok)
          /\ gw' = [gw EXCEPT ![a] = GwCall("patch", b, i, m, ok)]
    BY <2>0
  <2>2. i \in IntentsOf(b) /\ i \in Intents
    BY <1>a, <2>0, <2>1 DEF CallJustified, IntentsOf
  <2>3. i \in IntentsOf(b)'
    BY <2>2, <1>a, FrameKeepsFacts
  <2>4. ok => auth'[i] = "CREDITED"
    BY <1>a, <2>1, <2>2 DEF merchantRequest
  <2>5. CallJustified(GwCall("patch", b, i, m, ok))'
    BY <2>3, <2>4 DEF CallJustified, GwCall, CreditedIntent
  <2> QED BY <1>c, <2>1, <2>5
<1>8. ASSUME NEW a \in GwCallers, PatchIntentMetadata(a) PROVE HolderNews
  <2>1. CASE gw[a].ok
    <3>1. PICK m, b, i :
            /\ b = gw[a].booking
            /\ i = gw[a].intent
            /\ gw[a].pc = "patch"
            /\ gw' = [gw EXCEPT ![a] = GwCall("settle", b, i, m, TRUE)]
      BY <1>8, <2>1 DEF PatchIntentMetadata
    <3>2. CreditedIntent(i, b)
      BY <1>a, <2>1, <3>1 DEF CallJustified
    <3>3. CreditedIntent(i, b)'
      BY <3>2, <1>a, FrameKeepsFacts
    <3>4. CallJustified(GwCall("settle", b, i, m, TRUE))'
      BY <3>3 DEF CallJustified, GwCall
    <3> QED BY <1>c, <3>1, <3>4
  <2>2. CASE ~gw[a].ok
    <3>1. gw' = [gw EXCEPT ![a] = IdleGw]
      BY <1>8, <2>2 DEF PatchIntentMetadata
    <3> QED BY <1>c, <3>1, IdleJustified
  <2> QED BY <2>1, <2>2
<1>9. ASSUME NEW a \in GwCallers, SettleRefund(a) \/ CmiThrows(a) PROVE HolderNews
  BY <1>9, <1>c, IdleJustified DEF SettleRefund, CmiThrows
<1> QED BY <1>1, <1>2, <1>3, <1>4, <1>5, <1>6, <1>7, <1>8, <1>9 DEF GatewayStep, CmiStep

\* createOrGetIntent and confirmPaymentSuccess: a confirmation captures what it
\* found settled and voids what it has just let expire.
LEMMA PaymentHolders ==
    ASSUME CardInv, TypeOK', SettlementInv', CardFrame, CardNews, PaymentStep, UNCHANGED jobs
    PROVE  HolderNews
<1> TypeOK
  BY DEF CardInv, SettlementInv
<1>a. /\ intentReq \in [IntentReqs -> IntentReqStates]
      /\ confirm \in [ConfirmReqs -> ConfirmStates]
      /\ gw \in [GwCallers -> GwCalls]
      /\ \A i \in Intents : IntentJustified(i)
      /\ \A w \in ConfirmReqs : confirm[w].pc # "idle" => Issued(confirm[w].intent)
      /\ \A b \in Bookings : RowSettled(status[b], ledger[b])
      /\ \A b \in Bookings : RowSettled(status'[b], ledger'[b])
  BY SettlementByRow, SettlementByRowNext
     DEF TypeOK, PaymentsTypeOK, CmiTypeOK, CardInv, HoldersJustified
<1>b. UNCHANGED expireJob
  BY DEF jobs
<1>c. ConfirmReqs \subseteq GwCallers
  BY CallersAssumption
<1>1. ASSUME NEW p \in IntentReqs, \/ IntentCheck(p) \/ IntentLookup(p) \/ IntentInsert(p)
                                   \/ IntentExpireBooking(p) \/ IntentCancelPending(p)
                                   \/ IntentAbort(p)
      PROVE  HolderNews
  <2>1. /\ UNCHANGED <<gw, confirm, cancel>>
        /\ \A q \in IntentReqs \ {p} : intentReq'[q] = intentReq[q]
    BY <1>1, <1>a DEF IntentCheck, IntentLookup, IntentInsert, IntentExpireBooking,
                      IntentCancelPending, IntentAbort, cmi
  <2>2. \/ intentReq'[p].pc = "idle"
        \/ intentReq[p].pc # "idle" /\ intentReq'[p].booking = intentReq[p].booking
    BY <1>1, <1>a DEF IntentCheck, IntentLookup, IntentInsert, IntentExpireBooking,
                      IntentCancelPending, IntentAbort, IdleIntentReq, IntentReqStates
  <2> QED BY <1>b, <2>1, <2>2 DEF HolderNews
<1>2. ASSUME NEW p \in IntentReqs, IntentRead(p) PROVE HolderNews
  <2>1. PICK b \in Bookings, k \in Keys \cup {NoKey} :
          /\ status[b] = "PAYMENT_PENDING"
          /\ intentReq' = [intentReq EXCEPT ![p] = [pc |-> "check", booking |-> b, key |-> k]]
          /\ UNCHANGED <<gw, confirm, cancel>>
    BY <1>2 DEF IntentRead, cmi
  <2>2. /\ BookingStored(intentReq'[p].booking)
        /\ \A q \in IntentReqs \ {p} : intentReq'[q] = intentReq[q]
    BY <1>a, <2>1 DEF BookingStored
  <2> QED BY <1>b, <2>1, <2>2 DEF HolderNews
<1>3. ASSUME NEW w \in ConfirmReqs, ConfirmBegin(w) PROVE HolderNews
  <2>1. PICK i, m :
          /\ i \in Intents
          /\ MayConfirm(i)
          /\ confirm' = [confirm EXCEPT ![w] = [pc |-> "lockIntent", intent |-> i, meta |-> m]]
          /\ UNCHANGED <<gw, intentReq, cancel>>
    BY <1>3 DEF ConfirmBegin, cmi
  <2>2. Issued(i)
    BY <1>a, <2>1 DEF MayConfirm, IntentJustified, Issued
  <2>3. /\ Issued(confirm'[w].intent)
        /\ \A v \in ConfirmReqs \ {w} : confirm'[v] = confirm[v]
    BY <1>a, <2>1, <2>2
  <2> QED BY <1>b, <2>1, <2>3 DEF HolderNews
<1>d. ASSUME NEW w \in ConfirmReqs, confirm' = [confirm EXCEPT ![w] = IdleConfirm],
             NEW g, gw' = gw \/ (gw' = [gw EXCEPT ![w] = g] /\ CallJustified(g)'),
             UNCHANGED <<intentReq, cancel>>
      PROVE  HolderNews
  <2>1. confirm'[w].pc = "idle" /\ \A v \in ConfirmReqs \ {w} : confirm'[v] = confirm[v]
    BY <1>a, <1>d DEF IdleConfirm
  <2>2. \A a \in GwCallers : gw'[a] = gw[a] \/ CallJustified(gw[a])'
    <3>1. CASE gw' = gw
      BY <3>1
    <3>2. CASE gw' = [gw EXCEPT ![w] = g] /\ CallJustified(g)'
      <4>1. gw'[w] = g /\ \A a \in GwCallers \ {w} : gw'[a] = gw[a]
        BY <1>a, <1>c, <3>2
      <4>2. CallJustified(gw[w])'
        BY <3>2, <4>1 DEF CallJustified
      <4> QED BY <4>1, <4>2
    <3> QED BY <1>d, <3>1, <3>2
  <2> QED BY <1>b, <1>d, <2>1, <2>2 DEF HolderNews
<1>e. ASSUME NEW w \in ConfirmReqs, NEW i, i = confirm[w].intent, PaidIntent(i)',
             AlreadyProcessed(w), UNCHANGED <<intentReq, cancel>>
      PROVE  HolderNews
  <2>1. CallJustified(RetryCapture(i))'
    BY <1>e DEF CallJustified, RetryCapture, GwCall
  <2>2. /\ confirm' = [confirm EXCEPT ![w] = IdleConfirm]
        /\ gw' = gw \/ gw' = [gw EXCEPT ![w] = RetryCapture(i)]
    BY <1>e DEF AlreadyProcessed
  <2> QED BY <1>d, <1>e, <2>1, <2>2
<1>f. ASSUME NEW w \in ConfirmReqs, confirm[w].pc # "idle"
      PROVE  \E i \in Intents, o \in Bookings :
               i = confirm[w].intent /\ o = intentRow[i].booking /\ Issued(i)
  BY <1>f, <1>a DEF IntentJustified, Issued, BookingStored
<1>4. ASSUME NEW w \in ConfirmReqs, ConfirmLockIntent(w) PROVE HolderNews
  <2>1. PICK i \in Intents, o \in Bookings :
          i = confirm[w].intent /\ o = intentRow[i].booking /\ Issued(i)
    BY <1>4, <1>f DEF ConfirmLockIntent
  <2>2. UNCHANGED <<intentReq, cancel, ledger>>
    BY <1>4 DEF ConfirmLockIntent
  <2>3. CASE confirm' = [confirm EXCEPT ![w].pc = "lockBooking"] /\ UNCHANGED cmi
    <3>1. /\ confirm[w].pc # "idle"
          /\ confirm'[w].intent = confirm[w].intent
          /\ \A v \in ConfirmReqs \ {w} : confirm'[v] = confirm[v]
      BY <1>4, <1>a, <2>3 DEF ConfirmLockIntent, ConfirmStates, IdleConfirm
    <3> QED BY <1>b, <2>2, <2>3, <3>1 DEF HolderNews, cmi
  <2>4. CASE AlreadyProcessed(w) /\ (intentStatus[i] = "SUCCEEDED" \/ HasSettledPayment(o))
    <3>1. PaidIntent(i)
      BY <1>a, <2>1, <2>4 DEF HasSettledPayment, IntentJustified, PaidIntent, RowSettled,
                                  TypeOK, TablesTypeOK, LedgerRows
    <3>2. PaidIntent(i)'
      BY <3>1, <1>a, FrameKeepsFacts
    <3> QED BY <1>e, <2>1, <2>2, <2>4, <3>2
  <2> QED BY <1>4, <2>1, <2>3, <2>4 DEF ConfirmLockIntent
<1>5. ASSUME NEW w \in ConfirmReqs, ConfirmNotPayable(w) PROVE HolderNews
  <2>1. PICK i \in Intents, o \in Bookings :
          i = confirm[w].intent /\ o = intentRow[i].booking /\ Issued(i)
    BY <1>5, <1>f DEF ConfirmNotPayable
  <2>2. UNCHANGED <<intentReq, cancel>>
    BY <1>5 DEF ConfirmNotPayable
  <2>3. CASE AlreadyProcessed(w) /\ status[o] \in CONFIRMED_BOOKING_STATUSES
    <3>1. PaidIntent(i)
      BY <1>a, <2>1, <2>3 DEF PaidIntent, RowSettled
    <3>2. PaidIntent(i)'
      BY <3>1, <1>a, FrameKeepsFacts
    <3> QED BY <1>e, <2>1, <2>2, <2>3, <3>2
  <2>4. CASE confirm' = [confirm EXCEPT ![w] = IdleConfirm] /\ UNCHANGED cmi
    BY <1>d, <2>2, <2>4 DEF cmi
  <2> QED BY <1>5, <2>1, <2>3, <2>4 DEF ConfirmNotPayable
<1>6. ASSUME NEW w \in ConfirmReqs, ConfirmDatesUnavailable(w) PROVE HolderNews
  <2>1. PICK i \in Intents, o \in Bookings :
          i = confirm[w].intent /\ o = intentRow[i].booking /\ Issued(i)
    BY <1>6, <1>f DEF ConfirmDatesUnavailable, Payable
  <2>2. /\ status' = [status EXCEPT ![o] = "EXPIRED"]
        /\ gw' = gw \/ gw' = [gw EXCEPT ![w] = VoidPreAuth(i)]
        /\ confirm' = [confirm EXCEPT ![w] = IdleConfirm]
        /\ UNCHANGED <<intentRow, intentReq, cancel>>
    BY <1>6, <2>1 DEF ConfirmDatesUnavailable
  <2>3. status'[o] = "EXPIRED"
    BY <2>2 DEF TypeOK, TablesTypeOK
  <2>4. ledger'[o].payment = 0
    BY <1>a, <2>3 DEF RowSettled
  <2>5. UnpaidIntent(i)'
    <3>1. Issued(i)'
      BY <2>1, <1>a, FrameKeepsFacts
    <3>2. intentRow'[i].booking = o
      BY <2>1, <2>2
    <3> QED BY <2>3, <2>4, <3>1, <3>2 DEF UnpaidIntent, NeverPaid, BookingStored
  <2>6. CallJustified(VoidPreAuth(i))'
    BY <2>5 DEF CallJustified, VoidPreAuth, GwCall
  <2> QED BY <1>d, <2>2, <2>6
<1>7. ASSUME NEW w \in ConfirmReqs, ConfirmSucceeds(w) PROVE HolderNews
  <2>1. PICK i \in Intents, o \in Bookings :
          i = confirm[w].intent /\ o = intentRow[i].booking /\ Issued(i)
    BY <1>7, <1>f DEF ConfirmSucceeds, Payable
  <2>m. PICK m : m = confirm[w].meta
    OBVIOUS
  <2>2. /\ status' = [status EXCEPT ![o] = "CONFIRMED"]
        /\ gw' = gw \/ gw' = [gw EXCEPT ![w] = AfterConfirm(i, m)]
        /\ confirm' = [confirm EXCEPT ![w] = IdleConfirm]
        /\ UNCHANGED <<intentRow, intentReq, cancel>>
    BY <1>7, <2>1, <2>m DEF ConfirmSucceeds
  <2>3. status'[o] = "CONFIRMED"
    BY <2>2 DEF TypeOK, TablesTypeOK
  <2>4. ledger'[o].payment = 1
    BY <1>a, <2>3 DEF RowSettled, CONFIRMED_BOOKING_STATUSES
  <2>5. PaidIntent(i)'
    <3>1. Issued(i)'
      BY <2>1, <1>a, FrameKeepsFacts
    <3>2. intentRow'[i].booking = o
      BY <2>1, <2>2
    <3> QED BY <2>4, <3>1, <3>2 DEF PaidIntent
  <2>6. CallJustified(AfterConfirm(i, m))'
    <3>1. CASE m.capture = "SUCCEEDED"
      BY <3>1, IdleJustified DEF AfterConfirm
    <3>2. CASE m.capture # "SUCCEEDED"
      BY <2>5, <3>2 DEF AfterConfirm, GwCall, CallJustified
    <3> QED BY <3>1, <3>2
  <2> QED BY <1>d, <2>2, <2>6
<1>8. ASSUME NEW w \in ConfirmReqs, ConfirmAbort(w) PROVE HolderNews
  BY <1>8, <1>d, IdleJustified DEF ConfirmAbort
<1> QED BY <1>1, <1>2, <1>3, <1>4, <1>5, <1>6, <1>7, <1>8 DEF PaymentStep

\* A cancellation that is not settled has let its booking go for good.
LEMMA CancellationHolders ==
    ASSUME CardInv, TypeOK', CardFrame, CancellationStep, UNCHANGED jobs
    PROVE  HolderNews
<1> TypeOK
  BY DEF CardInv, SettlementInv
<1>a. /\ cancel \in [CancelReqs -> CancelStates]
      /\ gw \in [GwCallers -> GwCalls]
      /\ \A i \in Intents : IntentJustified(i)
      /\ \A x \in CancelReqs : VoidsJustified(cancel[x])
  BY DEF TypeOK, CancellationTypeOK, CmiTypeOK, CardInv, HoldersJustified
<1>b. UNCHANGED expireJob
  BY DEF jobs
<1>c. CancelReqs \subseteq GwCallers
  BY CallersAssumption
<1>d. ASSUME NEW x \in CancelReqs, NEW r, cancel' = [cancel EXCEPT ![x] = r], VoidsJustified(r)',
             NEW g, gw' = gw \/ (gw' = [gw EXCEPT ![x] = g] /\ CallJustified(g)'),
             UNCHANGED <<intentReq, confirm>>
      PROVE  HolderNews
  <2>1. cancel'[x] = r /\ \A y \in CancelReqs \ {x} : cancel'[y] = cancel[y]
    BY <1>a, <1>d
  <2>2. VoidsJustified(cancel[x])'
    BY <1>d, <2>1 DEF VoidsJustified
  <2>3. \A a \in GwCallers : gw'[a] = gw[a] \/ CallJustified(gw[a])'
    <3>1. CASE gw' = gw
      BY <3>1
    <3>2. CASE gw' = [gw EXCEPT ![x] = g] /\ CallJustified(g)'
      <4>1. gw'[x] = g /\ \A a \in GwCallers \ {x} : gw'[a] = gw[a]
        BY <1>a, <1>c, <3>2
      <4>2. CallJustified(gw[x])'
        BY <3>2, <4>1 DEF CallJustified
      <4> QED BY <4>1, <4>2
    <3> QED BY <1>d, <3>1, <3>2
  <2> QED BY <1>b, <1>d, <2>1, <2>2, <2>3 DEF HolderNews
<1>1. ASSUME NEW x \in CancelReqs, CancelBegin(x) \/ CancelLockBooking(x) PROVE HolderNews
  <2>1. PICK r : r.pc # "voiding" /\ cancel' = [cancel EXCEPT ![x] = r]
    <3>1. CASE CancelBegin(x)
      BY <3>1 DEF CancelBegin
    <3>2. CASE CancelLockBooking(x)
      <4>1. IdleCancel.pc = "idle" /\ [cancel[x] EXCEPT !.pc = "locked"].pc = "locked"
        <5>1. cancel[x] \in [pc : {"lock", "locked", "voiding"}, booking : Bookings,
                              by : CancelledStatuses, refundable : BOOLEAN, voids : SUBSET Intents]
          BY <3>2, <1>a DEF CancelLockBooking, IdleCancel, CancelStates
        <5> QED BY <5>1 DEF IdleCancel
      <4> QED BY <3>2, <4>1 DEF CancelLockBooking
    <3> QED BY <1>1, <3>1, <3>2
  <2>2. VoidsJustified(r)'
    BY <2>1 DEF VoidsJustified
  <2> QED BY <1>1, <1>d, <2>1, <2>2 DEF CancelBegin, CancelLockBooking, cmi
<1>2. ASSUME NEW x \in CancelReqs, CancelCommit(x) PROVE HolderNews
  <2>1. PICK o \in Bookings, v \in SUBSET Intents :
          o = cancel[x].booking /\ v = VoidCandidates(o) /\ cancel[x].by \in CancelledStatuses
    <3>1. cancel[x] \in CancelStates /\ cancel[x].pc # "idle" /\ {} \in SUBSET Intents
      BY <1>2, <1>a DEF CancelCommit
    <3>2. cancel[x].booking \in Bookings /\ cancel[x].by \in CancelledStatuses
      BY <3>1, CancelShape
    <3> QED BY <3>2 DEF VoidCandidates, IntentsOf
  <2>2. PICK c : c = cancel[x]
    OBVIOUS
  <2>3. /\ status' = [status EXCEPT ![o] = c.by]
        /\ gw' = gw \/ gw' = [gw EXCEPT ![x] = RefundBooking(o)]
        /\ cancel' = [cancel EXCEPT ![x] =
                        IF v = {} THEN IdleCancel ELSE [c EXCEPT !.pc = "voiding", !.voids = v]]
        /\ UNCHANGED <<intentRow, intentReq, confirm>>
    BY <1>2, <2>1, <2>2 DEF CancelCommit
  <2>4. status'[o] \in CancelledStatuses
    BY <2>1, <2>2, <2>3 DEF TypeOK, TablesTypeOK
  <2>5. v # {} => ledger[o].payment = 0
    BY <2>1 DEF VoidCandidates, HasSettledPayment, TypeOK, TablesTypeOK, LedgerRows
  <2>6. ledger'[o].payment = ledger[o].payment
    BY <1>2, <2>1 DEF CancelCommit, TypeOK, TablesTypeOK, LedgerRows
  <2>7. \A i \in v : UnpaidIntent(i)'
    <3> SUFFICES ASSUME NEW i \in v PROVE UnpaidIntent(i)'
      OBVIOUS
    <3>1. i \in Intents /\ Issued(i) /\ intentRow[i].booking = o
      BY <2>1 DEF VoidCandidates, IntentsOf, Issued
    <3>2. Issued(i)'
      BY <3>1, <1>a, FrameKeepsFacts
    <3>3. intentRow'[i].booking = o
      BY <2>3, <3>1
    <3> QED BY <2>4, <2>5, <2>6, <3>2, <3>3 DEF UnpaidIntent, NeverPaid, BookingStored,
                                                CancelledStatuses
  <2>8. CallJustified(RefundBooking(o))'
    BY DEF CallJustified, RefundBooking, GwCall
  <2>9. CASE v = {}
    BY <1>d, <2>3, <2>8, <2>9, IdleJustified
  <2>10. CASE v # {}
    <3>1. PICK r : r = [c EXCEPT !.pc = "voiding", !.voids = v]
      OBVIOUS
    <3>2. r.pc = "voiding" /\ r.voids = v
      BY <3>1, <2>2, <1>2, <1>a DEF CancelCommit, CancelStates, IdleCancel
    <3>3. VoidsJustified(r)'
      BY <2>7, <3>2 DEF VoidsJustified
    <3> QED BY <1>d, <2>3, <2>8, <2>10, <3>1, <3>3
  <2> QED BY <2>9, <2>10
<1>3. ASSUME NEW x \in CancelReqs, CancelVoidNext(x) PROVE HolderNews
  <2>1. PICK c \in CancelStates, i \in Intents :
          /\ c = cancel[x]
          /\ i \in c.voids
          /\ c.pc = "voiding"
          /\ gw' = [gw EXCEPT ![x] = VoidPreAuth(i)]
          /\ cancel' = [cancel EXCEPT ![x] =
                          IF c.voids = {i} THEN IdleCancel
                          ELSE [c EXCEPT !.voids = c.voids \ {i}]]
          /\ UNCHANGED <<intentReq, confirm>>
    <3>1. PICK i \in cancel[x].voids :
            /\ cancel[x].pc = "voiding"
            /\ gw' = [gw EXCEPT ![x] = VoidPreAuth(i)]
            /\ cancel' = [cancel EXCEPT ![x] =
                            IF cancel[x].voids = {i} THEN IdleCancel
                            ELSE [cancel[x] EXCEPT !.voids = cancel[x].voids \ {i}]]
            /\ UNCHANGED <<intentReq, confirm>>
      BY <1>3 DEF CancelVoidNext
    <3>2. i \in Intents
      BY <3>1, <1>a, CancelShape
    <3> QED BY <1>a, <3>1, <3>2
  <2>2. \A k \in c.voids : UnpaidIntent(k)'
    BY <1>a, <2>1, FrameKeepsFacts DEF VoidsJustified
  <2>3. CallJustified(VoidPreAuth(i))'
    BY <2>1, <2>2 DEF CallJustified, VoidPreAuth, GwCall
  <2>4. CASE c.voids = {i}
    BY <1>d, <2>1, <2>3, <2>4, IdleJustified
  <2>5. CASE c.voids # {i}
    <3>1. PICK r : r = [c EXCEPT !.voids = c.voids \ {i}]
      OBVIOUS
    <3>2. r.voids = c.voids \ {i}
      BY <3>1, <2>1 DEF CancelStates, IdleCancel
    <3>3. VoidsJustified(r)'
      BY <2>2, <3>2 DEF VoidsJustified
    <3> QED BY <1>d, <2>1, <2>3, <2>5, <3>1, <3>3
  <2> QED BY <2>4, <2>5
<1>4. ASSUME NEW x \in CancelReqs, CancelAbort(x) PROVE HolderNews
  BY <1>4, <1>d, IdleJustified DEF CancelAbort
<1> QED BY <1>1, <1>2, <1>3, <1>4 DEF CancellationStep

\* The expiry job voids only intents of the booking it has let expire.
LEMMA SchedulerHolders ==
    ASSUME CardInv, TypeOK', SettlementInv', CardFrame, SchedulerStep
    PROVE  HolderNews
<1> TypeOK
  BY DEF CardInv, SettlementInv
<1>a. /\ expireJob \in [ExpireJobs -> ExpireStates]
      /\ gw \in [GwCallers -> GwCalls]
      /\ \A i \in Intents : IntentJustified(i)
      /\ \A e \in ExpireJobs :
           /\ VoidsJustified(expireJob[e])
           /\ expireJob[e].pc \in {"readIntents", "voiding"} => NeverPaid(expireJob[e].booking)
      /\ \A b \in Bookings : RowSettled(status'[b], ledger'[b])
  BY SettlementByRowNext DEF TypeOK, SchedulerTypeOK, CmiTypeOK, CardInv, HoldersJustified
<1>b. UNCHANGED <<intentReq, confirm, cancel>>
  BY DEF SchedulerStep, ExpireStep, ExpireFind, ExpireBooking, ExpireReadIntents, ExpireVoidNext,
         ExpireCancelIntents, ExpireFails, ExpireCrash, CompleteStep, CompleteFind,
         CompleteBooking, CompleteFails, CompleteCrash, others
<1>c. ExpireJobs \subseteq GwCallers
  BY CallersAssumption
<1>d. ASSUME NEW e \in ExpireJobs, NEW r, expireJob' = [expireJob EXCEPT ![e] = r],
             VoidsJustified(r)', r.pc \in {"idle", "next"} \/ NeverPaid(r.booking)',
             NEW g, gw' = gw \/ (gw' = [gw EXCEPT ![e] = g] /\ CallJustified(g)')
      PROVE  HolderNews
  <2>1. expireJob'[e] = r /\ \A d \in ExpireJobs \ {e} : expireJob'[d] = expireJob[d]
    BY <1>a, <1>d
  <2>2. /\ VoidsJustified(expireJob[e])'
        /\ expireJob'[e].pc \in {"idle", "next"} \/ NeverPaid(expireJob[e].booking)'
    BY <1>d, <2>1 DEF VoidsJustified
  <2>3. \A a \in GwCallers : gw'[a] = gw[a] \/ CallJustified(gw[a])'
    <3>1. CASE gw' = gw
      BY <3>1
    <3>2. CASE gw' = [gw EXCEPT ![e] = g] /\ CallJustified(g)'
      <4>1. gw'[e] = g /\ \A a \in GwCallers \ {e} : gw'[a] = gw[a]
        BY <1>a, <1>c, <3>2
      <4>2. CallJustified(gw[e])'
        BY <3>2, <4>1 DEF CallJustified
      <4> QED BY <4>1, <4>2
    <3> QED BY <1>d, <3>1, <3>2
  <2> QED BY <1>b, <2>1, <2>2, <2>3 DEF HolderNews
<1>e. ASSUME NEW e \in ExpireJobs, NEW todo \in SUBSET Bookings, UNCHANGED gw,
             \/ expireJob' = [expireJob EXCEPT ![e] = NextExpiry(todo)]
             \/ expireJob' = [expireJob EXCEPT ![e] = [IdleExpire EXCEPT !.pc = "next", !.todo = todo]]
      PROVE  HolderNews
  <2>1. \A r \in {NextExpiry(todo), [IdleExpire EXCEPT !.pc = "next", !.todo = todo]} :
          r.pc \in {"idle", "next"}
    <3>1. /\ IdleExpire.pc = "idle"
          /\ [IdleExpire EXCEPT !.pc = "next", !.todo = todo].pc = "next"
      BY DEF IdleExpire
    <3>2. NextExpiry(todo) \in {IdleExpire, [IdleExpire EXCEPT !.pc = "next", !.todo = todo]}
      BY DEF NextExpiry
    <3> QED BY <3>1, <3>2
  <2>2. \A r \in {NextExpiry(todo), [IdleExpire EXCEPT !.pc = "next", !.todo = todo]} :
          VoidsJustified(r)'
    BY <2>1 DEF VoidsJustified
  <2> QED BY <1>d, <1>e, <2>1, <2>2
<1>1. ASSUME NEW e \in ExpireJobs, ExpireFind(e) PROVE HolderNews
  <2>1. PICK c \in SUBSET Bookings : c = ExpireCandidates
    BY DEF ExpireCandidates
  <2> QED BY <1>1, <1>e, <2>1 DEF ExpireFind, cmi
<1>2. ASSUME NEW e \in ExpireJobs, ExpireBooking(e) PROVE HolderNews
  <2>1. PICK b \in Bookings, t \in SUBSET Bookings :
          /\ UNCHANGED gw
          /\ \/ /\ status' = [status EXCEPT ![b] = "EXPIRED"]
                /\ expireJob' = [expireJob EXCEPT ![e] =
                                   [pc |-> "readIntents", todo |-> t, booking |-> b, voids |-> {}]]
             \/ expireJob' = [expireJob EXCEPT ![e] = NextExpiry(t)]
    <3>1. expireJob[e].todo \in SUBSET Bookings
      BY <1>a DEF ExpireStates
    <3> QED BY <1>2, <3>1 DEF ExpireBooking, cmi
  <2>2. CASE expireJob' = [expireJob EXCEPT ![e] = NextExpiry(t)]
    BY <1>e, <2>1, <2>2
  <2>3. CASE /\ status' = [status EXCEPT ![b] = "EXPIRED"]
             /\ expireJob' = [expireJob EXCEPT ![e] =
                                [pc |-> "readIntents", todo |-> t, booking |-> b, voids |-> {}]]
    <3>1. status'[b] = "EXPIRED"
      BY <2>3 DEF TypeOK, TablesTypeOK
    <3>2. ledger'[b].payment = 0
      BY <1>a, <3>1 DEF RowSettled
    <3>3. NeverPaid(b)'
      BY <3>1, <3>2 DEF NeverPaid, BookingStored
    <3>4. PICK r : r = [pc |-> "readIntents", todo |-> t, booking |-> b, voids |-> {}]
      OBVIOUS
    <3>5. VoidsJustified(r)' /\ NeverPaid(r.booking)'
      BY <3>3, <3>4 DEF VoidsJustified
    <3> QED BY <1>d, <2>1, <2>3, <3>4, <3>5
  <2> QED BY <2>1, <2>2, <2>3
<1>3. ASSUME NEW e \in ExpireJobs, ExpireReadIntents(e) PROVE HolderNews
  <2>1. PICK c \in ExpireStates, v \in SUBSET Intents, b \in Bookings :
          /\ c = expireJob[e]
          /\ b = c.booking
          /\ c.pc = "readIntents"
          /\ v \subseteq PendingIntents(b)
          /\ expireJob' = [expireJob EXCEPT ![e] = [c EXCEPT !.pc = "voiding", !.voids = v]]
          /\ UNCHANGED <<gw, intentRow>>
    <3>1. expireJob[e] \in ExpireStates /\ expireJob[e].pc = "readIntents"
      BY <1>3, <1>a DEF ExpireReadIntents
    <3>2. expireJob[e].booking \in Bookings
      BY <3>1 DEF ExpireStates
    <3>3. PICK v \in SUBSET Intents :
            /\ v = IF Provider = "cmi" THEN PendingIntents(expireJob[e].booking) ELSE {}
      BY DEF PendingIntents, IntentsOf
    <3>4. /\ expireJob' = [expireJob EXCEPT ![e] = [expireJob[e] EXCEPT !.pc = "voiding", !.voids = v]]
          /\ UNCHANGED <<gw, intentRow>>
      BY <1>3, <1>a, <3>3 DEF ExpireReadIntents, tables, cmi
    <3> QED BY <3>1, <3>2, <3>3, <3>4
  <2>2. PICK r : r = [c EXCEPT !.pc = "voiding", !.voids = v]
    OBVIOUS
  <2>3. r.pc = "voiding" /\ r.voids = v /\ r.booking = b
    BY <2>1, <2>2 DEF ExpireStates
  <2>4. NeverPaid(b)'
    BY <1>a, <2>1, FrameKeepsFacts
  <2>5. \A i \in v : UnpaidIntent(i)'
    <3> SUFFICES ASSUME NEW i \in v PROVE UnpaidIntent(i)'
      OBVIOUS
    <3>1. Issued(i) /\ intentRow[i].booking = b
      BY <2>1 DEF PendingIntents, IntentsOf, Issued
    <3>2. Issued(i)'
      BY <3>1, <1>a, FrameKeepsFacts
    <3> QED BY <2>1, <2>4, <3>1, <3>2 DEF UnpaidIntent
  <2>6. VoidsJustified(r)' /\ NeverPaid(r.booking)'
    BY <2>3, <2>4, <2>5 DEF VoidsJustified
  <2> QED BY <1>d, <2>1, <2>2, <2>6
<1>4. ASSUME NEW e \in ExpireJobs, ExpireVoidNext(e) PROVE HolderNews
  <2>1. PICK c \in ExpireStates, i \in Intents :
          /\ c = expireJob[e]
          /\ c.pc = "voiding"
          /\ i \in c.voids
          /\ gw' = [gw EXCEPT ![e] = VoidPreAuth(i)]
          /\ expireJob' = [expireJob EXCEPT ![e] = [c EXCEPT !.voids = c.voids \ {i}]]
    <3>1. expireJob[e] \in ExpireStates /\ expireJob[e].voids \in SUBSET Intents
      BY <1>a DEF ExpireStates
    <3> QED BY <1>4, <3>1 DEF ExpireVoidNext
  <2>2. PICK r : r = [c EXCEPT !.voids = c.voids \ {i}]
    OBVIOUS
  <2>3. r.voids = c.voids \ {i} /\ r.booking = c.booking
    BY <2>1, <2>2 DEF ExpireStates
  <2>4. NeverPaid(c.booking)' /\ \A k \in c.voids : UnpaidIntent(k)'
    BY <1>a, <2>1, FrameKeepsFacts DEF VoidsJustified
  <2>5. VoidsJustified(r)' /\ NeverPaid(r.booking)'
    BY <2>3, <2>4 DEF VoidsJustified
  <2>6. CallJustified(VoidPreAuth(i))'
    BY <2>1, <2>4 DEF CallJustified, VoidPreAuth, GwCall
  <2> QED BY <1>d, <2>1, <2>2, <2>5, <2>6
<1>5. ASSUME NEW e \in ExpireJobs, ExpireCancelIntents(e) \/ ExpireFails(e) PROVE HolderNews
  <2>1. expireJob[e].todo \in SUBSET Bookings
    BY <1>a DEF ExpireStates
  <2>2. PICK t \in SUBSET Bookings : expireJob' = [expireJob EXCEPT ![e] = NextExpiry(t)]
    BY <1>5, <2>1 DEF ExpireCancelIntents, ExpireFails
  <2> QED BY <1>5, <1>e, <2>2 DEF ExpireCancelIntents, ExpireFails, cmi
<1>6. ASSUME NEW e \in ExpireJobs, ExpireCrash(e) PROVE HolderNews
  <2>1. IdleExpire.pc = "idle"
    BY DEF IdleExpire
  <2> QED BY <1>6, <1>d, <2>1, IdleJustified DEF ExpireCrash
<1>7. ASSUME NEW j \in CompleteJobs, CompleteStep(j) \/ CompleteCrash(j) PROVE HolderNews
  BY <1>7, <1>b, NoHolder DEF CompleteStep, CompleteFind, CompleteBooking, CompleteFails,
                              CompleteCrash, cmi
<1> QED BY <1>1, <1>2, <1>3, <1>4, <1>5, <1>6, <1>7 DEF SchedulerStep, ExpireStep

\* At the start there is no intent, no ledger entry and no request.
LEMMA InitCards == Init => CardInv
<1> SUFFICES ASSUME Init PROVE CardInv
  OBVIOUS
<1>1. \A i \in Intents : IntentJustified(i)
  BY DEF Init, TablesInit, CmiInit, IntentJustified, Issued
<1>2. \A b \in Bookings : LedgerJustified(b)
  BY DEF Init, TablesInit, EmptyLedger, LedgerJustified
<1>3. HoldersJustified
  BY IdleJustified DEF Init, CmiInit, PaymentsInit, CancellationInit, SchedulerInit,
                       HoldersJustified, IdleIntentReq, IdleConfirm, IdleExpire
<1> QED BY <1>1, <1>2, <1>3, InitSettlement DEF CardInv

\* Every step keeps the card invariant.
LEMMA NextCards == CardInv /\ [Next]_vars => CardInv'
<1> SUFFICES ASSUME CardInv, [Next]_vars PROVE CardInv'
  OBVIOUS
<1>1. TypeOK /\ SettlementInv
  BY DEF CardInv, SettlementInv
<1>2. TypeOK' /\ SettlementInv'
  BY <1>1, NextTypes, NextSettlement
<1>3. CardFrame /\ CardNews /\ HolderNews
  <2>1. CASE TimePasses \/ CreationStep
    BY <2>1, CreationCards, NoHolder DEF TimePasses, CreationStep, cmi, jobs
  <2>2. CASE GatewayStep
    BY <1>2, <2>2, GatewayCards, GatewayHolders
  <2>3. CASE RequestStep
    <3>1. CASE PaymentStep /\ UNCHANGED jobs
      BY <1>2, <3>1, PaymentCards, PaymentHolders
    <3>2. CASE CancellationStep /\ UNCHANGED jobs
      BY <1>2, <3>2, CancellationCards, CancellationHolders
    <3> QED BY <2>3, <3>1, <3>2 DEF RequestStep
  <2>4. CASE SchedulerStep
    BY <1>2, <2>4, SchedulerCards, SchedulerHolders
  <2>5. CASE UNCHANGED vars
    BY <2>5, QuietCards, NoHolder DEF vars, tables, cmi, jobs
  <2> QED BY <2>1, <2>2, <2>3, <2>4, <2>5 DEF Next
<1>4. /\ \A i \in Intents : IntentJustified(i)'
      /\ \A b \in Bookings : LedgerJustified(b)'
  BY <1>1, <1>2, <1>3, RowsStayJustified DEF CardInv
<1>5. HoldersJustified'
  BY <1>2, <1>3, HoldersStayJustified
<1> QED BY <1>2, <1>4, <1>5 DEF CardInv

\* The card invariant holds in every reachable state.
LEMMA CardsAlways == Spec => []CardInv
BY InitCards, NextCards, PTL DEF Spec

\* Intents and ledger never disagree on who paid: a SUCCEEDED intent belongs
\* to a settled booking, a settled booking has a SUCCEEDED intent.
THEOREM IntentsAgreeWithLedger == Spec => []IntentsMatchLedger
<1>1. CardInv => IntentsMatchLedger
  <2> SUFFICES ASSUME CardInv PROVE IntentsMatchLedger
    OBVIOUS
  <2>1. \A i \in Intents : intentStatus[i] = "SUCCEEDED" => ledger[intentRow[i].booking].payment = 1
    BY DEF CardInv, IntentJustified, PaidIntent
  <2>2. \A b \in Bookings : HasSettledPayment(b) =>
          \E i \in IntentsOf(b) : intentStatus[i] = "SUCCEEDED"
    BY DEF CardInv, LedgerJustified, HasSettledPayment, SucceededIntents
  <2> QED BY <2>1, <2>2 DEF IntentsMatchLedger
<1> QED BY <1>1, CardsAlways, PTL

\* No card is captured for a booking whose payment is not settled, although
\* the capture runs after the commit, unlocked and retried.
THEOREM CapturesAreSettled == Spec => []CapturedOnlyIfSettled
<1>1. CardInv => CapturedOnlyIfSettled
  BY DEF CardInv, CapturedOnlyIfSettled, IntentJustified, PaidIntent
<1> QED BY <1>1, CardsAlways, PTL

\* No cancellation, expiry or failed confirmation voids the PreAuth of a
\* booking that is settled or may still be.
THEOREM VoidsAreUnpaid == Spec => []VoidedNeverSettled
<1>1. CardInv => VoidedNeverSettled
  BY DEF CardInv, VoidedNeverSettled, IntentJustified, UnpaidIntent, NeverPaid
<1> QED BY <1>1, CardsAlways, PTL

\* A REFUND row is SETTLED only when CMI has credited an intent of the booking.
THEOREM SettledRefundsAreCredited == Spec => []RefundSettledOnlyIfCredited
<1>1. CardInv => RefundSettledOnlyIfCredited
  BY DEF CardInv, RefundSettledOnlyIfCredited, LedgerJustified, CreditedIntent
<1> QED BY <1>1, CardsAlways, PTL
==============================================================================
