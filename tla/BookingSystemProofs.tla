------------------------ MODULE BookingSystemProofs ------------------------
(***************************************************************************)
(* Safety of BookingSystem, for every value of the constants: no double    *)
(* booking, and every step is a step of BookingContract or a stutter.      *)
(***************************************************************************)
EXTENDS BookingLedgerProofs

----------------------------------------------------------------------------
(* No double booking. *)

\* What every step but CreateCheck and CreateInsert does to reservations: no
\* booking moves, none starts to occupy its dates, no request is checked.
ReservationFrame ==
    /\ UNCHANGED stay
    /\ \A b \in Bookings : status'[b] \in BOOKED_STATUSES => status[b] \in BOOKED_STATUSES
    /\ \A c \in CreateReqs : create'[c].pc = "checked" => create'[c] = create[c]

\* Such a step can neither break the listing lock nor book a night twice.
LEMMA FrameKeepsReservations ==
    ASSUME ListingLockInv, NoDoubleBooking, ReservationFrame
    PROVE  ListingLockInv' /\ NoDoubleBooking'
<1>1. NoDoubleBooking'
  BY DEF NoDoubleBooking, ReservationFrame
<1>2. ListingLockInv'
  BY DEF ListingLockInv, ReservationFrame, OccupiedBy
<1> QED BY <1>1, <1>2

\* Payments only move a hold to CONFIRMED or EXPIRED.
LEMMA PaymentsFrame ==
    ASSUME TypeOK, PaymentStep
    PROVE  ReservationFrame
<1> USE DEF ReservationFrame, BOOKED_STATUSES, tables, TypeOK, TablesTypeOK
<1>1. ASSUME NEW p \in IntentReqs, \/ IntentRead(p) \/ IntentCheck(p) \/ IntentLookup(p)
                                   \/ IntentInsert(p) \/ IntentCancelPending(p)
                                   \/ IntentAbort(p)
      PROVE  ReservationFrame
  BY <1>1 DEF IntentRead, IntentCheck, IntentLookup, IntentInsert, IntentCancelPending, IntentAbort
<1>2. ASSUME NEW p \in IntentReqs, IntentExpireBooking(p)
      PROVE  ReservationFrame
  BY <1>2 DEF IntentExpireBooking
<1>3. ASSUME NEW w \in ConfirmReqs, \/ ConfirmBegin(w) \/ ConfirmLockIntent(w)
                                    \/ ConfirmNotPayable(w) \/ ConfirmAbort(w)
      PROVE  ReservationFrame
  BY <1>3 DEF ConfirmBegin, ConfirmLockIntent, ConfirmNotPayable, ConfirmAbort
<1>4. ASSUME NEW w \in ConfirmReqs, ConfirmDatesUnavailable(w)
      PROVE  ReservationFrame
  BY <1>4 DEF ConfirmDatesUnavailable
<1>5. ASSUME NEW w \in ConfirmReqs, ConfirmSucceeds(w)
      PROVE  ReservationFrame
  BY <1>5 DEF ConfirmSucceeds, Payable
<1> QED BY <1>1, <1>2, <1>3, <1>4, <1>5 DEF PaymentStep

\* A cancellation only releases dates.
LEMMA CancellationFrame ==
    ASSUME TypeOK, CancellationStep
    PROVE  ReservationFrame
<1> USE DEF ReservationFrame, tables
<1>1. ASSUME NEW x \in CancelReqs, \/ CancelBegin(x) \/ CancelLockBooking(x)
                                   \/ CancelVoidNext(x) \/ CancelAbort(x)
      PROVE  ReservationFrame
  BY <1>1 DEF CancelBegin, CancelLockBooking, CancelVoidNext, CancelAbort
<1>2. ASSUME NEW x \in CancelReqs, CancelCommit(x)
      PROVE  ReservationFrame
  <2>1. cancel[x].by \in CancelledStatuses
    BY <1>2, CancelShape DEF CancelCommit, TypeOK, CancellationTypeOK
  <2> QED BY <1>2, <2>1 DEF CancelCommit, CancelledStatuses, BOOKED_STATUSES,
                            TypeOK, TablesTypeOK
<1> QED BY <1>1, <1>2 DEF CancellationStep

\* The jobs only release dates.
LEMMA SchedulerFrame ==
    ASSUME TypeOK, SchedulerStep
    PROVE  ReservationFrame
<1> USE DEF ReservationFrame, BOOKED_STATUSES, tables, others, TypeOK, TablesTypeOK
<1>1. ASSUME NEW e \in ExpireJobs, ExpireStep(e) \/ ExpireCrash(e)
      PROVE  ReservationFrame
  BY <1>1 DEF ExpireStep, ExpireFind, ExpireBooking, ExpireReadIntents, ExpireVoidNext,
              ExpireCancelIntents, ExpireFails, ExpireCrash
<1>2. ASSUME NEW j \in CompleteJobs, CompleteStep(j) \/ CompleteCrash(j)
      PROVE  ReservationFrame
  BY <1>2 DEF CompleteStep, CompleteFind, CompleteBooking, CompleteFails, CompleteCrash
<1> QED BY <1>1, <1>2 DEF SchedulerStep

\* The gateway and the clock know nothing of dates.
LEMMA GatewayFrame ==
    ASSUME TimePasses \/ GatewayStep
    PROVE  ReservationFrame
BY DEF TimePasses, Tick, GatewayStep, GuestAuthorizes, CmiStep, CaptureRead, CaptureCall,
       VoidCall, VoidRead, RefundRead, RefundCall, PatchIntentMetadata, SettleRefund, CmiThrows,
       ReservationFrame, tables

\* createBooking: the lock makes the checks still true at the insert.
LEMMA CreationKeepsReservations ==
    ASSUME ReservationInv, CreationStep
    PROVE  ListingLockInv' /\ NoDoubleBooking'
<1> USE DEF ReservationInv
<1>1. ASSUME NEW l \in Listings, setHostAvailabilityBlock(l)
      PROVE  ListingLockInv' /\ NoDoubleBooking'
  BY <1>1, FrameKeepsReservations DEF setHostAvailabilityBlock, ReservationFrame
<1>2. ASSUME NEW c \in CreateReqs, CreateAbort(c)
      PROVE  ListingLockInv' /\ NoDoubleBooking'
  <2>1. ReservationFrame
    BY <1>2 DEF CreateAbort, ReservationFrame, tables, IdleCreate, TypeOK, CreationTypeOK
  <2> QED BY <2>1, FrameKeepsReservations
<1>3. ASSUME NEW c \in CreateReqs, CreateCheck(c)
      PROVE  ListingLockInv' /\ NoDoubleBooking'
  <2>1. PICK l \in Listings, r \in DateRanges, k \in Keys \cup {NoKey} :
          /\ ~ListingLocked(l)
          /\ isListingAvailable(l, r, {})
          /\ create' = [create EXCEPT ![c] =
                          [pc |-> "checked", listing |-> l, range |-> r, key |-> k]]
          /\ UNCHANGED <<status, stay>>
    BY <1>3 DEF CreateCheck, tables
  <2>2. \A b \in Bookings : ~OccupiedBy(b, l, r)
    BY <2>1 DEF isListingAvailable
  <2>3. \A d \in CreateReqs : create[d].pc = "checked" => create[d].listing # l
    BY <2>1 DEF ListingLocked
  <2>4. /\ create'[c] = [pc |-> "checked", listing |-> l, range |-> r, key |-> k]
        /\ \A d \in CreateReqs \ {c} : create'[d] = create[d]
    BY <2>1 DEF TypeOK, CreationTypeOK
  <2>5. ListingLockInv'
    BY <2>1, <2>2, <2>3, <2>4 DEF ListingLockInv, OccupiedBy
  <2>6. NoDoubleBooking'
    BY <2>1 DEF NoDoubleBooking
  <2> QED BY <2>5, <2>6
<1>4. ASSUME NEW c \in CreateReqs, CreateInsert(c)
      PROVE  ListingLockInv' /\ NoDoubleBooking'
  <2>1. PICK b \in Bookings :
          /\ create[c].pc = "checked"
          /\ NextBooking(b)
          /\ status' = [status EXCEPT ![b] = "PAYMENT_PENDING"]
          /\ stay' = [stay EXCEPT ![b] =
                        [listing |-> create[c].listing, range |-> create[c].range,
                         key |-> create[c].key, created_at |-> now]]
          /\ create' = [create EXCEPT ![c] = IdleCreate]
    BY <1>4 DEF CreateInsert
  <2>2. /\ stay'[b].listing = create[c].listing
        /\ stay'[b].range = create[c].range
        /\ \A o \in Bookings \ {b} : stay'[o] = stay[o] /\ status'[o] = status[o]
    BY <2>1 DEF TypeOK, TablesTypeOK
  <2>3. create'[c].pc = "idle" /\ \A d \in CreateReqs \ {c} : create'[d] = create[d]
    BY <2>1 DEF TypeOK, CreationTypeOK, IdleCreate
  <2>4. \A o \in Bookings : ~OccupiedBy(o, create[c].listing, create[c].range)
    BY <2>1 DEF ListingLockInv
  <2>5. NoDoubleBooking'
    BY <2>2, <2>4 DEF NoDoubleBooking, OccupiedBy, Overlap
  <2>6. \A d \in CreateReqs \ {c} :
          create[d].pc = "checked" => create[d].listing # create[c].listing
    BY <2>1 DEF ListingLockInv
  <2>7. ListingLockInv'
    BY <2>2, <2>3, <2>6 DEF ListingLockInv, OccupiedBy
  <2> QED BY <2>5, <2>7
<1> QED BY <1>1, <1>2, <1>3, <1>4 DEF CreationStep

\* At the start nothing is booked.
LEMMA InitReservations == Init => ReservationInv
<1> SUFFICES ASSUME Init PROVE ListingLockInv /\ NoDoubleBooking
  BY InitTypes DEF ReservationInv
<1>1. ListingLockInv
  BY DEF Init, CreationInit, IdleCreate, ListingLockInv
<1>2. NoDoubleBooking
  BY DEF Init, TablesInit, NoDoubleBooking, BOOKED_STATUSES
<1> QED BY <1>1, <1>2

\* Every step keeps the reservation invariant.
LEMMA NextReservations == ReservationInv /\ [Next]_vars => ReservationInv'
<1> SUFFICES ASSUME ReservationInv, [Next]_vars PROVE ReservationInv'
  OBVIOUS
<1>1. TypeOK /\ ListingLockInv /\ NoDoubleBooking
  BY DEF ReservationInv
<1>2. TypeOK'
  BY <1>1, NextTypes
<1>3. CASE CreationStep
  BY <1>2, <1>3, CreationKeepsReservations DEF ReservationInv
<1>4. CASE TimePasses \/ GatewayStep
  BY <1>1, <1>2, <1>4, GatewayFrame, FrameKeepsReservations DEF ReservationInv
<1>5. CASE RequestStep
  BY <1>1, <1>2, <1>5, PaymentsFrame, CancellationFrame, FrameKeepsReservations
     DEF ReservationInv, RequestStep
<1>6. CASE SchedulerStep
  BY <1>1, <1>2, <1>6, SchedulerFrame, FrameKeepsReservations DEF ReservationInv
<1>7. CASE UNCHANGED vars
  <2>1. ReservationFrame
    BY <1>7 DEF vars, tables, ReservationFrame
  <2> QED BY <1>1, <1>2, <2>1, FrameKeepsReservations DEF ReservationInv
<1> QED BY <1>3, <1>4, <1>5, <1>6, <1>7 DEF Next

\* Two bookings that occupy a listing never share a night, however many
\* requests race: the listing lock of createBooking is enough, without the
\* database's exclusion constraint.
THEOREM NeverDoubleBooked == Spec => []NoDoubleBooking
<1>1. Spec => []ReservationInv
  BY InitReservations, NextReservations, PTL DEF Spec
<1>2. ReservationInv => NoDoubleBooking
  BY DEF ReservationInv
<1> QED BY <1>1, <1>2, PTL

----------------------------------------------------------------------------
(* The refinement of the booking contract. *)

\* Steps other than a cancellation's leave a locked booking where it is.
LockFrame ==
    /\ UNCHANGED cancel
    /\ \A b \in Bookings : status[b] # "NONE" => status'[b] # "NONE"
    /\ \A b \in Bookings : BookingLocked(b) => status'[b] = status[b]

\* Such a step keeps what the lock protects.
LEMMA FrameKeepsLocks ==
    ASSUME TypeOK, BookingLockInv, LockFrame
    PROVE  BookingLockInv'
<1>1. \A x \in CancelReqs : cancel[x].pc # "idle" => cancel[x].booking \in Bookings
  BY DEF TypeOK, CancellationTypeOK, CancelStates, IdleCancel
<1>2. \A x \in CancelReqs : cancel[x].pc = "locked" => BookingLocked(cancel[x].booking)
  BY DEF BookingLocked
<1> QED BY <1>1, <1>2 DEF BookingLockInv, LockFrame

\* Every step that is not a cancellation's is such a step.
LEMMA OthersLockFrame ==
    ASSUME TypeOK, BookingLockInv,
                   \/ TimePasses \/ CreationStep \/ GatewayStep \/ SchedulerStep
                   \/ PaymentStep \/ UNCHANGED vars
    PROVE  LockFrame
<1>a. status \in [Bookings -> BookingStatus]
  BY DEF TypeOK, TablesTypeOK
<1>b. ASSUME UNCHANGED <<cancel, status>> PROVE LockFrame
  BY <1>b DEF LockFrame
<1>1. CASE TimePasses \/ GatewayStep \/ UNCHANGED vars
  BY <1>1, <1>b DEF TimePasses, Tick, GatewayStep, GuestAuthorizes, CmiStep, CaptureRead,
     CaptureCall, VoidCall, VoidRead, RefundRead, RefundCall, PatchIntentMetadata, SettleRefund,
     CmiThrows, vars, tables
<1>2. CASE CreationStep
  <2>1. ASSUME NEW c \in CreateReqs, CreateInsert(c) PROVE LockFrame
    <3>1. PICK b \in Bookings : status[b] = "NONE" /\ status' = [status EXCEPT ![b] = "PAYMENT_PENDING"]
      BY <2>1 DEF CreateInsert, NextBooking
    <3>2. ~BookingLocked(b)
      BY <3>1 DEF BookingLocked, BookingLockInv, BOOKED_STATUSES
    <3> QED BY <1>2, <1>a, <3>1, <3>2 DEF CreationStep, LockFrame
  <2> QED BY <1>2, <1>b, <2>1 DEF CreationStep, CreateCheck, CreateAbort,
                                  setHostAvailabilityBlock, tables
<1>3. CASE PaymentStep
  <2>1. ASSUME NEW p \in IntentReqs, IntentExpireBooking(p) PROVE LockFrame
    BY <1>a, <2>1 DEF IntentExpireBooking, LockFrame
  <2>2. ASSUME NEW w \in ConfirmReqs, ConfirmDatesUnavailable(w) \/ ConfirmSucceeds(w)
        PROVE  LockFrame
    BY <1>a, <2>2 DEF ConfirmDatesUnavailable, ConfirmSucceeds, Payable, LockFrame
  <2>3. ASSUME NEW p \in IntentReqs, \/ IntentRead(p) \/ IntentCheck(p) \/ IntentLookup(p)
                                     \/ IntentInsert(p) \/ IntentCancelPending(p) \/ IntentAbort(p)
        PROVE  LockFrame
    BY <1>b, <2>3 DEF IntentRead, IntentCheck, IntentLookup, IntentInsert, IntentCancelPending,
                      IntentAbort, tables
  <2>4. ASSUME NEW w \in ConfirmReqs, \/ ConfirmBegin(w) \/ ConfirmLockIntent(w)
                                      \/ ConfirmNotPayable(w) \/ ConfirmAbort(w)
        PROVE  LockFrame
    BY <1>b, <2>4 DEF ConfirmBegin, ConfirmLockIntent, ConfirmNotPayable, ConfirmAbort, tables
  <2> QED BY <1>3, <2>1, <2>2, <2>3, <2>4 DEF PaymentStep
<1>4. CASE SchedulerStep
  <2>1. ASSUME NEW e \in ExpireJobs, ExpireBooking(e) PROVE LockFrame
    BY <1>a, <2>1 DEF ExpireBooking, others, LockFrame
  <2>2. ASSUME NEW j \in CompleteJobs, CompleteBooking(j) PROVE LockFrame
    BY <1>a, <2>2 DEF CompleteBooking, others, LockFrame
  <2>3. ASSUME NEW e \in ExpireJobs, \/ ExpireFind(e) \/ ExpireReadIntents(e) \/ ExpireVoidNext(e)
                                     \/ ExpireCancelIntents(e) \/ ExpireFails(e) \/ ExpireCrash(e)
        PROVE  LockFrame
    BY <1>b, <2>3 DEF ExpireFind, ExpireReadIntents, ExpireVoidNext, ExpireCancelIntents,
                      ExpireFails, ExpireCrash, tables, others
  <2>4. ASSUME NEW j \in CompleteJobs, CompleteFind(j) \/ CompleteFails(j) \/ CompleteCrash(j)
        PROVE  LockFrame
    BY <1>b, <2>4 DEF CompleteFind, CompleteFails, CompleteCrash, tables, others
  <2> QED BY <1>4, <2>1, <2>2, <2>3, <2>4 DEF SchedulerStep, ExpireStep, CompleteStep
<1> QED BY <1>1, <1>2, <1>3, <1>4

\* Cancellations: the lock is taken only when nobody has it.
LEMMA CancellationKeepsLocks ==
    ASSUME TypeOK, BookingLockInv, CancellationStep
    PROVE  BookingLockInv'
<1>a. /\ cancel \in [CancelReqs -> CancelStates]
      /\ status \in [Bookings -> BookingStatus]
  BY DEF TypeOK, CancellationTypeOK, TablesTypeOK
<1>b. \A y \in CancelReqs : cancel[y].pc # "idle" => cancel[y].booking \in Bookings
  BY <1>a DEF CancelStates, IdleCancel
<1>c. ASSUME NEW x \in CancelReqs, NEW r, cancel' = [cancel EXCEPT ![x] = r],
             r.pc \notin {"lock", "locked"}, UNCHANGED status
      PROVE  BookingLockInv'
  <2>1. cancel'[x] = r /\ \A y \in CancelReqs \ {x} : cancel'[y] = cancel[y]
    BY <1>a, <1>c
  <2> QED BY <1>c, <2>1 DEF BookingLockInv
<1>1. ASSUME NEW x \in CancelReqs, CancelBegin(x) PROVE BookingLockInv'
  <2>1. PICK b, r :
          /\ b \in Bookings
          /\ status[b] # "NONE"
          /\ r.pc = "lock" /\ r.booking = b
          /\ cancel' = [cancel EXCEPT ![x] = r]
          /\ UNCHANGED status
    BY <1>1 DEF CancelBegin, tables
  <2>2. cancel'[x] = r /\ \A y \in CancelReqs \ {x} : cancel'[y] = cancel[y]
    BY <1>a, <2>1
  <2> QED BY <2>1, <2>2 DEF BookingLockInv
<1>2. ASSUME NEW x \in CancelReqs, CancelLockBooking(x) PROVE BookingLockInv'
  <2>1. /\ cancel[x].pc = "lock"
        /\ UNCHANGED status
        /\ \A y \in CancelReqs : ~(cancel[y].pc = "locked" /\ cancel[y].booking = cancel[x].booking)
    BY <1>2 DEF CancelLockBooking, BookingLocked, tables
  <2>2. CASE status[cancel[x].booking] \in NonCancellable
    <3>1. cancel' = [cancel EXCEPT ![x] = IdleCancel] /\ IdleCancel.pc = "idle"
      BY <1>2, <2>2 DEF CancelLockBooking, IdleCancel
    <3> QED BY <1>c, <2>1, <3>1
  <2>3. CASE status[cancel[x].booking] \notin NonCancellable
    <3>1. cancel' = [cancel EXCEPT ![x] = [cancel[x] EXCEPT !.pc = "locked"]]
      BY <1>2, <2>3 DEF CancelLockBooking
    <3>2. cancel[x] \in [pc : {"lock", "locked", "voiding"}, booking : Bookings,
                         by : CancelledStatuses, refundable : BOOLEAN, voids : SUBSET Intents]
      BY <1>a, <2>1 DEF CancelStates, IdleCancel
    <3>3. /\ cancel'[x].pc = "locked" /\ cancel'[x].booking = cancel[x].booking
          /\ \A y \in CancelReqs \ {x} : cancel'[y] = cancel[y]
      BY <1>a, <3>1, <3>2
    <3>4. status[cancel[x].booking] \in BOOKED_STATUSES
      BY <1>a, <1>b, <2>1, <2>3 DEF BookingLockInv, NonCancellable, CancelledStatuses,
                                    BOOKED_STATUSES, BookingStatus
    <3> QED BY <2>1, <3>3, <3>4 DEF BookingLockInv
  <2> QED BY <2>2, <2>3
<1>3. ASSUME NEW x \in CancelReqs, CancelCommit(x) PROVE BookingLockInv'
  <2>1. cancel[x].pc = "locked" /\ status' = [status EXCEPT ![cancel[x].booking] = cancel[x].by]
    BY <1>3 DEF CancelCommit
  <2>2. cancel[x] \in [pc : {"lock", "locked", "voiding"}, booking : Bookings,
                       by : CancelledStatuses, refundable : BOOLEAN, voids : SUBSET Intents]
    BY <1>a, <2>1 DEF CancelStates, IdleCancel
  <2>3. PICK r : r.pc \notin {"lock", "locked"} /\ cancel' = [cancel EXCEPT ![x] = r]
    <3>1. IdleCancel.pc = "idle"
      BY DEF IdleCancel
    <3>2. \A v : [cancel[x] EXCEPT !.pc = "voiding", !.voids = v].pc = "voiding"
      BY <2>2
    <3> QED BY <1>3, <3>1, <3>2 DEF CancelCommit
  <2>4. cancel'[x] = r /\ \A y \in CancelReqs \ {x} : cancel'[y] = cancel[y]
    BY <1>a, <2>3
  <2>5. /\ status'[cancel[x].booking] # "NONE"
        /\ \A b \in Bookings : b # cancel[x].booking => status'[b] = status[b]
    BY <1>a, <2>1, <2>2 DEF CancelledStatuses
  <2>6. \A y \in CancelReqs \ {x} : cancel[y].pc = "locked" => cancel[y].booking # cancel[x].booking
    BY <2>1 DEF BookingLockInv
  <2> QED BY <1>b, <2>3, <2>4, <2>5, <2>6 DEF BookingLockInv
<1>4. ASSUME NEW x \in CancelReqs, CancelVoidNext(x) PROVE BookingLockInv'
  <2>1. cancel[x].pc = "voiding" /\ UNCHANGED status
    BY <1>4 DEF CancelVoidNext, tables
  <2>2. cancel[x] \in [pc : {"lock", "locked", "voiding"}, booking : Bookings,
                       by : CancelledStatuses, refundable : BOOLEAN, voids : SUBSET Intents]
    BY <1>a, <2>1 DEF CancelStates, IdleCancel
  <2>3. PICK r : r.pc \notin {"lock", "locked"} /\ cancel' = [cancel EXCEPT ![x] = r]
    <3>1. IdleCancel.pc = "idle"
      BY DEF IdleCancel
    <3>2. \A v : [cancel[x] EXCEPT !.voids = v].pc = "voiding"
      BY <2>1, <2>2
    <3> QED BY <1>4, <3>1, <3>2 DEF CancelVoidNext
  <2> QED BY <1>c, <2>1, <2>3
<1>5. ASSUME NEW x \in CancelReqs, CancelAbort(x) PROVE BookingLockInv'
  <2>1. IdleCancel.pc = "idle"
    BY DEF IdleCancel
  <2> QED BY <1>5, <1>c, <2>1 DEF CancelAbort, tables
<1> QED BY <1>1, <1>2, <1>3, <1>4, <1>5 DEF CancellationStep

\* Every step keeps the invariant behind the refinement.
LEMMA NextContractInv == ContractInv /\ [Next]_vars => ContractInv'
<1> SUFFICES ASSUME ContractInv, [Next]_vars PROVE ContractInv'
  OBVIOUS
<1>1. TypeOK /\ ReservationInv /\ CardInv /\ BookingLockInv
  BY DEF ContractInv, ReservationInv
<1>2. ReservationInv' /\ CardInv'
  BY <1>1, NextReservations, NextCards
<1>3. BookingLockInv'
  BY <1>1, OthersLockFrame, FrameKeepsLocks, CancellationKeepsLocks DEF Next, RequestStep
<1> QED BY <1>2, <1>3 DEF ContractInv

\* It holds at the start.
LEMMA InitContractInv == Init => ContractInv
<1>1. Init => BookingLockInv
  BY DEF Init, CancellationInit, IdleCancel, BookingLockInv
<1> QED BY <1>1, InitReservations, InitCards DEF ContractInv

\* The refund state of the contract, row by row.
RefundOf(row) ==
    IF row.refundSettled > 0 THEN "SETTLED" ELSE IF row.refundPending > 0 THEN "PENDING" ELSE "NONE"

\* What a step does to the variables of the contract.
SamePaid   == \A b \in Bookings : HasSettledPayment(b)' = HasSettledPayment(b)
SameRefund == \A b \in Bookings : RefundOf(ledger'[b]) = RefundOf(ledger[b])

LEMMA MapPaid ==
    /\ SamePaid => paidBookings' = paidBookings
    /\ \A o \in Bookings :
         /\ \A b \in Bookings \ {o} : HasSettledPayment(b)' = HasSettledPayment(b)
         /\ HasSettledPayment(o)' = TRUE
         => paidBookings' = [paidBookings EXCEPT ![o] = TRUE]
<1>1. SamePaid => paidBookings' = paidBookings
  BY Zenon DEF SamePaid, paidBookings
<1>2. ASSUME NEW o \in Bookings,
             \A b \in Bookings \ {o} : HasSettledPayment(b)' = HasSettledPayment(b),
             HasSettledPayment(o)' = TRUE
      PROVE  paidBookings' = [paidBookings EXCEPT ![o] = TRUE]
  BY <1>2, Zenon DEF paidBookings
<1> QED BY <1>1, <1>2

LEMMA MapRefund ==
    /\ SameRefund => refundStates' = refundStates
    /\ \A o, s :
         /\ o \in Bookings
         /\ \A b \in Bookings \ {o} : RefundOf(ledger'[b]) = RefundOf(ledger[b])
         /\ RefundOf(ledger'[o]) = s
         => refundStates' = [refundStates EXCEPT ![o] = s]
    /\ \A b \in Bookings : refundStates[b] = RefundOf(ledger[b])
<1>1. /\ refundStates = [b \in Bookings |-> RefundOf(ledger[b])]
      /\ refundStates' = [b \in Bookings |-> RefundOf(ledger'[b])]
  BY DEF refundStates, RefundOf
<1> QED BY <1>1 DEF SameRefund

\* A step that leaves status, stay, payments and refunds alone is a stutter.
LEMMA ContractStutter ==
    ASSUME UNCHANGED <<status, stay>>, SamePaid, SameRefund
    PROVE  UNCHANGED Contract!vars
BY MapPaid, MapRefund DEF Contract!vars

LEMMA LedgerStutter ==
    ASSUME UNCHANGED ledger
    PROVE  SamePaid /\ SameRefund
BY DEF SamePaid, SameRefund, HasSettledPayment

\* The initial states map to initial states of the contract.
LEMMA InitContract == Init => Contract!Init
<1> SUFFICES ASSUME Init PROVE Contract!Init
  OBVIOUS
<1>1. \A b \in Bookings : ledger[b] = EmptyLedger
  BY DEF Init, TablesInit
<1>2. \A b \in Bookings : HasSettledPayment(b) = FALSE
  BY <1>1 DEF HasSettledPayment, EmptyLedger
<1>3. paidBookings = [b \in Bookings |-> FALSE]
  BY <1>2, Zenon DEF paidBookings
<1>4. refundStates = [b \in Bookings |-> "NONE"]
  BY <1>1 DEF refundStates, EmptyLedger
<1> QED BY <1>3, <1>4 DEF Init, TablesInit, Contract!Init

\* createBooking's insert reserves nights nobody occupies.
LEMMA InsertReserves ==
    ASSUME ContractInv, TypeOK', NEW c \in CreateReqs, CreateInsert(c)
    PROVE  Contract!Next
<1>a. TypeOK /\ ListingLockInv
  BY DEF ContractInv, ReservationInv
<1>1. PICK b, s :
        /\ b \in Bookings
        /\ create[c].pc = "checked"
        /\ status[b] = "NONE"
        /\ status' = [status EXCEPT ![b] = "PAYMENT_PENDING"]
        /\ s = [listing |-> create[c].listing, range |-> create[c].range,
                key |-> create[c].key, created_at |-> now]
        /\ stay' = [stay EXCEPT ![b] = s]
        /\ UNCHANGED ledger
  BY DEF CreateInsert, NextBooking
<1>2. s \in StayRows
  <2>1. create[c] \in CheckedCreates
    BY <1>a, <1>1 DEF TypeOK, CreationTypeOK, IdleCreate
  <2> QED BY <1>a, <1>1, <2>1 DEF CheckedCreates, StayRows, TypeOK, TablesTypeOK
<1>3. \A o \in Bookings \ {b} : status[o] \in Contract!Occupying => ~SharesNight(stay[o], s)
  <2>1. \A o \in Bookings : ~OccupiedBy(o, create[c].listing, create[c].range)
    BY <1>a, <1>1 DEF ListingLockInv
  <2> QED BY <1>1, <2>1 DEF OccupiedBy, SharesNight, Overlap, BOOKED_STATUSES, Contract!Occupying
<1>4. paidBookings' = paidBookings /\ refundStates' = refundStates
  BY <1>1, LedgerStutter, MapPaid, MapRefund
<1>5. Contract!Reserve(b)
  BY <1>1, <1>2, <1>3, <1>4 DEF Contract!Reserve, Contract!Move
<1> QED BY <1>1, <1>5 DEF Contract!Next

\* A hold that expires is released.
LEMMA ExpiryReleases ==
    ASSUME NEW b \in Bookings, status[b] = "PAYMENT_PENDING",
           status' = [status EXCEPT ![b] = "EXPIRED"], UNCHANGED <<stay, ledger>>
    PROVE  Contract!Next
<1>1. paidBookings' = paidBookings /\ refundStates' = refundStates
  BY LedgerStutter, MapPaid, MapRefund
<1>2. Contract!Release(b)
  BY <1>1 DEF Contract!Release, Contract!Move
<1> QED BY <1>2 DEF Contract!Next

\* A confirmation pays the hold.
LEMMA ConfirmationPays ==
    ASSUME ContractInv, TypeOK', NEW w \in ConfirmReqs, ConfirmSucceeds(w)
    PROVE  Contract!Next
<1>a. TypeOK /\ \A b \in Bookings : RowSettled(status[b], ledger[b])
  BY SettlementByRow DEF ContractInv, ReservationInv, CardInv
<1>1. PICK o \in Bookings : o = intentRow[confirm[w].intent].booking
  BY DEF ConfirmSucceeds, Payable, ContractInv, CardInv, HoldersJustified, Issued,
         IntentJustified, BookingStored
<1>2. /\ status[o] = "PAYMENT_PENDING"
      /\ status' = [status EXCEPT ![o] = "CONFIRMED"]
      /\ ledger' = [ledger EXCEPT ![o] = [ledger[o] EXCEPT !.payment = ledger[o].payment + 1]]
      /\ UNCHANGED stay
  BY <1>1 DEF ConfirmSucceeds, Payable
<1>3. ledger[o] \in LedgerRows /\ ledger[o].payment = 0
  BY <1>a, <1>2 DEF RowSettled, TypeOK, TablesTypeOK
<1>4. /\ ledger'[o].payment = 1
      /\ RefundOf(ledger'[o]) = RefundOf(ledger[o])
      /\ \A b \in Bookings \ {o} : ledger'[b] = ledger[b]
  BY <1>a, <1>2, <1>3 DEF TypeOK, TablesTypeOK, LedgerRows, RefundOf
<1>5. /\ HasSettledPayment(o) = FALSE
      /\ HasSettledPayment(o)' = TRUE
      /\ \A b \in Bookings \ {o} : HasSettledPayment(b)' = HasSettledPayment(b)
  BY <1>3, <1>4 DEF HasSettledPayment
<1>6. paidBookings' = [paidBookings EXCEPT ![o] = TRUE]
  BY <1>5, MapPaid
<1>7. ~paidBookings[o]
  BY <1>5, Zenon DEF paidBookings
<1>8. refundStates' = refundStates
  BY <1>4, MapRefund DEF SameRefund
<1>9. Contract!Pay(o)
  BY <1>2, <1>6, <1>7, <1>8 DEF Contract!Pay, Contract!Move
<1> QED BY <1>9 DEF Contract!Next

\* A cancellation releases a hold, or cancels a paid booking with or without
\* a refund.
LEMMA CancellationCancels ==
    ASSUME ContractInv, TypeOK', NEW x \in CancelReqs, CancelCommit(x)
    PROVE  Contract!Next
<1>a. TypeOK /\ \A b \in Bookings : RowSettled(status[b], ledger[b])
  BY SettlementByRow DEF ContractInv, ReservationInv, CardInv
<1>1. PICK o \in Bookings, by \in CancelledStatuses : o = cancel[x].booking /\ by = cancel[x].by
  BY <1>a, CancelShape DEF CancelCommit, TypeOK, CancellationTypeOK
<1>2. /\ status[o] \in BOOKED_STATUSES
      /\ status' = [status EXCEPT ![o] = by]
      /\ ledger' = IF RefundDue(x)
                   THEN [ledger EXCEPT ![o] =
                           [ledger[o] EXCEPT !.refundPending = ledger[o].refundPending + 1]]
                   ELSE ledger
      /\ UNCHANGED stay
  BY <1>1 DEF CancelCommit, ContractInv, BookingLockInv
<1>3. ledger[o] \in LedgerRows /\ ledger \in [Bookings -> LedgerRows]
  BY <1>a DEF TypeOK, TablesTypeOK
<1>4. SamePaid
  <2>1. \A b \in Bookings : ledger'[b].payment = ledger[b].payment
    BY <1>2, <1>3 DEF LedgerRows
  <2> QED BY <2>1 DEF SamePaid, HasSettledPayment
<1>5. paidBookings' = paidBookings
  BY <1>4, MapPaid
<1>6. CASE status[o] = "PAYMENT_PENDING"
  <2>1. ~RefundDue(x)
    BY <1>a, <1>1, <1>6 DEF RefundDue, HasSettledPayment, RowSettled
  <2>2. refundStates' = refundStates
    BY <1>2, <2>1, LedgerStutter, MapRefund
  <2>3. Contract!Release(o)
    BY <1>2, <1>5, <1>6, <2>2 DEF Contract!Release, Contract!Move, Contract!Cancelled,
                                  CancelledStatuses
  <2> QED BY <2>3 DEF Contract!Next
<1>7. CASE status[o] = "CONFIRMED"
  <2>1. /\ ledger[o].payment = 1
        /\ ledger[o].refundPending = 0 /\ ledger[o].refundSettled = 0
    BY <1>a, <1>3, <1>7 DEF RowSettled, LedgerRows, CONFIRMED_BOOKING_STATUSES
  <2>2. PICK r \in {"NONE", "PENDING"} :
          /\ RefundOf(ledger'[o]) = r
          /\ \A b \in Bookings \ {o} : RefundOf(ledger'[b]) = RefundOf(ledger[b])
    <3>1. CASE RefundDue(x)
      <4>1. /\ RefundOf(ledger'[o]) = "PENDING"
            /\ \A b \in Bookings \ {o} : ledger'[b] = ledger[b]
        BY <1>2, <1>3, <2>1, <3>1 DEF RefundOf, LedgerRows
      <4> QED BY <4>1
    <3>2. CASE ~RefundDue(x)
      <4>1. RefundOf(ledger'[o]) = "NONE"
        BY <1>2, <2>1, <3>2 DEF RefundOf
      <4> QED BY <1>2, <3>2, <4>1
    <3> QED BY <3>1, <3>2
  <2>3. refundStates' = [refundStates EXCEPT ![o] = r]
    BY <2>2, MapRefund
  <2>4. refundStates[o] = "NONE"
    BY <2>1, MapRefund DEF RefundOf
  <2>5. HasSettledPayment(o)
    BY <2>1 DEF HasSettledPayment
  <2>6. paidBookings[o]
    BY <2>5, Zenon DEF paidBookings
  <2>7. Contract!CancelPaid(o)
    BY <1>2, <1>5, <1>7, <2>3, <2>4, <2>6
       DEF Contract!CancelPaid, Contract!Move, Contract!Cancelled, CancelledStatuses
  <2> QED BY <2>7 DEF Contract!Next
<1> QED BY <1>2, <1>6, <1>7 DEF BOOKED_STATUSES

\* The REFUND row is settled once.
LEMMA SettlementSettles ==
    ASSUME ContractInv, TypeOK', NEW a \in GwCallers, SettleRefund(a)
    PROVE  Contract!Next \/ UNCHANGED Contract!vars
<1>a. TypeOK /\ \A b \in Bookings : RowSettled(status[b], ledger[b])
  BY SettlementByRow DEF ContractInv, ReservationInv, CardInv
<1>1. PICK o \in Bookings : o = gw[a].booking
  <2>1. gw[a] \in GwCalls /\ gw[a].pc = "settle"
    BY <1>a DEF TypeOK, CmiTypeOK, SettleRefund
  <2> QED BY <2>1, GwShape
<1>2. /\ UNCHANGED <<status, stay>>
      /\ ledger' = IF ledger[o].refundPending > 0
                   THEN [ledger EXCEPT ![o] =
                           [ledger[o] EXCEPT !.refundPending = ledger[o].refundPending - 1,
                                             !.refundSettled = ledger[o].refundSettled + 1]]
                   ELSE ledger
  BY <1>1 DEF SettleRefund
<1>3. ledger[o] \in LedgerRows /\ ledger \in [Bookings -> LedgerRows]
  BY <1>a DEF TypeOK, TablesTypeOK
<1>4. CASE ledger[o].refundPending > 0
  <2>1. /\ ledger[o].payment = 1
        /\ ledger[o].refundPending = 1 /\ ledger[o].refundSettled = 0
    BY <1>a, <1>3, <1>4 DEF RowSettled, LedgerRows
  <2>2. /\ ledger'[o].refundSettled = 1 /\ ledger'[o].payment = 1
        /\ \A b \in Bookings \ {o} : ledger'[b] = ledger[b]
    BY <1>2, <1>3, <1>4, <2>1 DEF LedgerRows
  <2>3. paidBookings' = paidBookings
    <3>1. \A b \in Bookings : ledger'[b].payment = ledger[b].payment
      BY <2>1, <2>2
    <3>2. SamePaid
      BY <3>1 DEF SamePaid, HasSettledPayment
    <3> QED BY <3>2, MapPaid
  <2>4. /\ refundStates' = [refundStates EXCEPT ![o] = "SETTLED"]
        /\ refundStates[o] = "PENDING"
    <3>1. RefundOf(ledger'[o]) = "SETTLED" /\ RefundOf(ledger[o]) = "PENDING"
      BY <2>1, <2>2 DEF RefundOf
    <3> QED BY <2>2, <3>1, MapRefund
  <2>5. paidBookings[o]
    <3>1. HasSettledPayment(o)
      BY <2>1 DEF HasSettledPayment
    <3> QED BY <3>1, Zenon DEF paidBookings
  <2>6. Contract!SettleRefund(o)
    BY <1>2, <2>3, <2>4, <2>5 DEF Contract!SettleRefund
  <2> QED BY <2>6 DEF Contract!Next
<1>5. CASE ~(ledger[o].refundPending > 0)
  <2>1. UNCHANGED Contract!vars
    BY <1>2, <1>5, LedgerStutter, ContractStutter
  <2> QED BY <2>1
<1> QED BY <1>4, <1>5

\* A completion job completes a confirmed stay, or a paid one that was
\* cancelled after the job had read it.
LEMMA CompletionCompletes ==
    ASSUME ContractInv, TypeOK', NEW j \in CompleteJobs, CompleteBooking(j)
    PROVE  Contract!Next \/ UNCHANGED Contract!vars
<1>a. TypeOK /\ JobsHoldPaid /\ \A b \in Bookings : RowSettled(status[b], ledger[b])
  BY SettlementByRow DEF ContractInv, ReservationInv, CardInv
<1>1. PICK o \in completeJob[j] :
        status' = [status EXCEPT ![o] = "COMPLETED"] /\ UNCHANGED <<stay, ledger>>
  BY DEF CompleteBooking
<1>2. o \in Bookings /\ ledger[o].payment = 1
  BY <1>a DEF JobsHoldPaid, TypeOK, SchedulerTypeOK
<1>3. paidBookings' = paidBookings /\ refundStates' = refundStates
  BY <1>1, LedgerStutter, MapPaid, MapRefund
<1>4. paidBookings[o]
  <2>1. HasSettledPayment(o)
    BY <1>2 DEF HasSettledPayment
  <2> QED BY <1>2, <2>1, Zenon DEF paidBookings
<1>5. status[o] \in {"CONFIRMED", "COMPLETED"} \cup CancelledStatuses
  BY <1>a, <1>2 DEF RowSettled, TypeOK, TablesTypeOK, BookingStatus, CancelledStatuses
<1>6. CASE status[o] = "CONFIRMED"
  BY <1>1, <1>2, <1>3, <1>6 DEF Contract!Next, Contract!Complete, Contract!Move
<1>7. CASE status[o] \in CancelledStatuses
  BY <1>1, <1>2, <1>3, <1>4, <1>7 DEF Contract!Next, Contract!LateComplete, Contract!Move,
                                      Contract!Cancelled, CancelledStatuses
<1>8. CASE status[o] = "COMPLETED"
  <2>1. status' = status
    BY <1>a, <1>1, <1>2, <1>8 DEF TypeOK, TablesTypeOK
  <2> QED BY <1>1, <1>3, <2>1 DEF Contract!vars
<1> QED BY <1>5, <1>6, <1>7, <1>8

\* Every step is a step of the contract or changes nothing it can see.
LEMMA NextContract == ContractInv /\ [Next]_vars => [Contract!Next]_(Contract!vars)
<1> SUFFICES ASSUME ContractInv, [Next]_vars PROVE Contract!Next \/ UNCHANGED Contract!vars
  OBVIOUS
<1>a. TypeOK /\ TypeOK'
  BY NextTypes DEF ContractInv, ReservationInv
<1>b. status \in [Bookings -> BookingStatus]
  BY <1>a DEF TypeOK, TablesTypeOK
<1>c. ASSUME UNCHANGED <<status, stay, ledger>> PROVE UNCHANGED Contract!vars
  BY <1>c, LedgerStutter, ContractStutter
<1>1. CASE TimePasses \/ UNCHANGED vars
  BY <1>1, <1>c DEF TimePasses, Tick, vars, tables
<1>2. CASE CreationStep
  <2>1. ASSUME NEW c \in CreateReqs, CreateInsert(c) PROVE Contract!Next
    BY <1>a, <2>1, InsertReserves
  <2>2. ASSUME NEW c \in CreateReqs, CreateCheck(c) \/ CreateAbort(c) PROVE UNCHANGED Contract!vars
    BY <1>c, <2>2 DEF CreateCheck, CreateAbort, tables
  <2>3. ASSUME NEW l \in Listings, setHostAvailabilityBlock(l) PROVE UNCHANGED Contract!vars
    BY <1>c, <2>3 DEF setHostAvailabilityBlock
  <2> QED BY <1>2, <2>1, <2>2, <2>3 DEF CreationStep
<1>3. CASE GatewayStep
  <2>1. ASSUME NEW a \in GwCallers, SettleRefund(a) PROVE Contract!Next \/ UNCHANGED Contract!vars
    BY <1>a, <2>1, SettlementSettles
  <2>2. ASSUME NEW a \in GwCallers, \/ CaptureRead(a) \/ CaptureCall(a) \/ VoidCall(a) \/ VoidRead(a)
                                    \/ RefundRead(a) \/ RefundCall(a) \/ PatchIntentMetadata(a)
                                    \/ CmiThrows(a)
        PROVE  UNCHANGED Contract!vars
    BY <1>c, <2>2 DEF CaptureRead, CaptureCall, VoidCall, VoidRead, RefundRead, RefundCall,
                      PatchIntentMetadata, CmiThrows, tables
  <2>3. ASSUME NEW i \in Intents, GuestAuthorizes(i) PROVE UNCHANGED Contract!vars
    BY <1>c, <2>3 DEF GuestAuthorizes, tables
  <2> QED BY <1>3, <2>1, <2>2, <2>3 DEF GatewayStep, CmiStep
<1>4. CASE PaymentStep
  <2>1. ASSUME NEW p \in IntentReqs, IntentExpireBooking(p)
        PROVE  Contract!Next \/ UNCHANGED Contract!vars
    <3>1. intentReq[p].booking \in Bookings
      BY <1>a, <2>1, IntentReqShape DEF IntentExpireBooking, TypeOK, PaymentsTypeOK
    <3> QED BY <1>c, <2>1, <3>1, ExpiryReleases DEF IntentExpireBooking,
               PRE_CONFIRMATION_BOOKING_STATUSES
  <2>2. ASSUME NEW w \in ConfirmReqs, ConfirmDatesUnavailable(w) PROVE Contract!Next
    <3>1. intentRow[confirm[w].intent].booking \in Bookings
      BY <2>2 DEF ConfirmDatesUnavailable, Payable, ContractInv, CardInv, HoldersJustified, Issued,
                  IntentJustified, BookingStored
    <3> QED BY <2>2, <3>1, ExpiryReleases DEF ConfirmDatesUnavailable, Payable
  <2>3. ASSUME NEW w \in ConfirmReqs, ConfirmSucceeds(w) PROVE Contract!Next
    BY <1>a, <2>3, ConfirmationPays
  <2>4. ASSUME NEW p \in IntentReqs, \/ IntentRead(p) \/ IntentCheck(p) \/ IntentLookup(p)
                                     \/ IntentInsert(p) \/ IntentCancelPending(p) \/ IntentAbort(p)
        PROVE  UNCHANGED Contract!vars
    BY <1>c, <2>4 DEF IntentRead, IntentCheck, IntentLookup, IntentInsert, IntentCancelPending,
                      IntentAbort, tables
  <2>5. ASSUME NEW w \in ConfirmReqs, \/ ConfirmBegin(w) \/ ConfirmLockIntent(w)
                                      \/ ConfirmNotPayable(w) \/ ConfirmAbort(w)
        PROVE  UNCHANGED Contract!vars
    BY <1>c, <2>5 DEF ConfirmBegin, ConfirmLockIntent, ConfirmNotPayable, ConfirmAbort, tables
  <2> QED BY <1>4, <2>1, <2>2, <2>3, <2>4, <2>5 DEF PaymentStep
<1>5. CASE CancellationStep
  <2>1. ASSUME NEW x \in CancelReqs, CancelCommit(x) PROVE Contract!Next
    BY <1>a, <2>1, CancellationCancels
  <2>2. ASSUME NEW x \in CancelReqs, \/ CancelBegin(x) \/ CancelLockBooking(x) \/ CancelVoidNext(x)
                                     \/ CancelAbort(x)
        PROVE  UNCHANGED Contract!vars
    BY <1>c, <2>2 DEF CancelBegin, CancelLockBooking, CancelVoidNext, CancelAbort, tables
  <2> QED BY <1>5, <2>1, <2>2 DEF CancellationStep
<1>6. CASE SchedulerStep
  <2>1. ASSUME NEW e \in ExpireJobs, ExpireBooking(e) PROVE Contract!Next \/ UNCHANGED Contract!vars
    <3>1. expireJob[e].todo \subseteq Bookings
      BY <1>a DEF TypeOK, SchedulerTypeOK, ExpireStates
    <3> QED BY <1>c, <2>1, <3>1, ExpiryReleases DEF ExpireBooking, PRE_CONFIRMATION_BOOKING_STATUSES
  <2>2. ASSUME NEW j \in CompleteJobs, CompleteBooking(j)
        PROVE  Contract!Next \/ UNCHANGED Contract!vars
    BY <1>a, <2>2, CompletionCompletes
  <2>3. ASSUME NEW e \in ExpireJobs, \/ ExpireFind(e) \/ ExpireReadIntents(e) \/ ExpireVoidNext(e)
                                     \/ ExpireCancelIntents(e) \/ ExpireFails(e) \/ ExpireCrash(e)
        PROVE  UNCHANGED Contract!vars
    BY <1>c, <2>3 DEF ExpireFind, ExpireReadIntents, ExpireVoidNext, ExpireCancelIntents,
                      ExpireFails, ExpireCrash, tables
  <2>4. ASSUME NEW j \in CompleteJobs, CompleteFind(j) \/ CompleteFails(j) \/ CompleteCrash(j)
        PROVE  UNCHANGED Contract!vars
    BY <1>c, <2>4 DEF CompleteFind, CompleteFails, CompleteCrash, tables
  <2> QED BY <1>6, <2>1, <2>2, <2>3, <2>4 DEF SchedulerStep, ExpireStep, CompleteStep
<1> QED BY <1>1, <1>2, <1>3, <1>4, <1>5, <1>6 DEF Next, RequestStep

\* The services, jobs and gateway together implement the booking contract.
THEOREM CoreRefinesContract == Spec => ImplementsContract
<1>1. Spec => []ContractInv
  BY InitContractInv, NextContractInv, PTL DEF Spec
<1>2. Spec => Contract!Init /\ [][Contract!Next]_(Contract!vars)
  BY <1>1, InitContract, NextContract, PTL DEF Spec
<1> QED BY <1>2 DEF ImplementsContract, Contract!Spec

----------------------------------------------------------------------------
(* What the code would need for CancelledIsFinal and ChargedAtMostOnce. *)

\* The contract and its invariant hold together in every behaviour.
LEMMA ContractAlways ==
    Spec => /\ []ContractInv
            /\ [][Contract!Next]_(Contract!vars)
BY InitContractInv, NextContractInv, NextContract, PTL DEF Spec

\* A cancelled booking changes only by becoming COMPLETED, and only after it
\* was paid: of all requests and jobs, the completion that does not check the
\* status is the one that writes over a cancellation.
OnlyCompletionRevives ==
    \A b \in Bookings :
        status[b] \in CancelledStatuses /\ status'[b] # status[b] =>
            status'[b] = "COMPLETED" /\ HasSettledPayment(b)

\* The guard the completion lacks: UPDATE ... WHERE status = 'CONFIRMED'.
CompletesOnlyConfirmed ==
    \A b \in Bookings :
        status'[b] = "COMPLETED" /\ status[b] # "COMPLETED" => status[b] = "CONFIRMED"

LEMMA ContractRevives ==
    ASSUME [Contract!Next]_(Contract!vars)
    PROVE  OnlyCompletionRevives
<1> SUFFICES ASSUME NEW b \in Bookings, status[b] \in CancelledStatuses, status'[b] # status[b]
             PROVE  status'[b] = "COMPLETED" /\ paidBookings[b]
  BY DEF OnlyCompletionRevives, paidBookings
<1>1. PICK o \in Bookings :
        \/ Contract!Reserve(o) \/ Contract!Pay(o) \/ Contract!Release(o) \/ Contract!CancelPaid(o)
        \/ Contract!SettleRefund(o) \/ Contract!Complete(o) \/ Contract!LateComplete(o)
  BY DEF Contract!Next, Contract!vars
<1>2. CASE Contract!LateComplete(o)
  BY <1>2 DEF Contract!LateComplete, Contract!Move
<1>3. CASE Contract!SettleRefund(o)
  BY <1>3 DEF Contract!SettleRefund
<1>4. CASE \/ Contract!Reserve(o) \/ Contract!Pay(o) \/ Contract!Release(o)
           \/ Contract!CancelPaid(o) \/ Contract!Complete(o)
  <2>1. PICK from, to : /\ from \in {{"NONE"}, {"PAYMENT_PENDING"}, {"CONFIRMED"}}
                        /\ Contract!Move(o, from, to)
    BY <1>4 DEF Contract!Reserve, Contract!Pay, Contract!Release, Contract!CancelPaid,
                Contract!Complete
  <2> QED BY <2>1 DEF Contract!Move, CancelledStatuses
<1> QED BY <1>1, <1>2, <1>3, <1>4

\* No step of any service, job or gateway call changes a cancelled booking,
\* except the completion of a paid one.
THEOREM CancelledOnlyCompleted == Spec => [][OnlyCompletionRevives]_vars
<1>1. [Contract!Next]_(Contract!vars) => [OnlyCompletionRevives]_vars
  BY ContractRevives
<1> QED BY <1>1, ContractAlways, PTL

\* With a completion that checks the status, nothing writes over a
\* cancellation: the missing guard is the whole cause of the disagreement.
THEOREM GuardedCompletionSuffices ==
    Spec /\ [][CompletesOnlyConfirmed]_vars => CancelledIsFinal
<1>1. [OnlyCompletionRevives]_vars /\ [CompletesOnlyConfirmed]_vars =>
        [\A b \in Bookings : status[b] \in CancelledStatuses => status'[b] = status[b]]_vars
  BY DEF OnlyCompletionRevives, CompletesOnlyConfirmed, CancelledStatuses
<1> QED BY <1>1, CancelledOnlyCompleted, PTL DEF CancelledIsFinal

----------------------------------------------------------------------------
(* One payment intent per booking. *)

\* As long as a booking is a hold, nothing has touched its intents ...
PendingWhileHeld ==
    \A i \in Intents : Issued(i) /\ status[intentRow[i].booking] = "PAYMENT_PENDING" =>
        intentStatus[i] = "PENDING"

\* ... and it has at most one: all racing createOrGetIntent requests that
\* reach their insert while it is a hold return or keep the same intent.
SameBooking(i, j) ==
    Issued(i) /\ Issued(j) /\ intentRow[i].booking = intentRow[j].booking

OneIntentPerHold ==
    \A i, j \in Intents :
        SameBooking(i, j) /\ status[intentRow[i].booking] = "PAYMENT_PENDING" => i = j

\* A request about to cancel intents has seen that the hold is over.
ExpiryDecided ==
    \A p \in IntentReqs : intentReq[p].pc = "cancelIntents" =>
        status[intentReq[p].booking] # "PAYMENT_PENDING"

HoldIntentInv == ContractInv /\ PendingWhileHeld /\ OneIntentPerHold /\ ExpiryDecided

\* What a step does to intents: it touches those of a booking that is not or
\* no longer a hold, and inserts at most one, PENDING and the only such one.
IntentTouched(i) == intentStatus'[i] # intentStatus[i]

IntentFrame ==
    /\ \A i \in Intents : Issued(i) /\ IntentTouched(i) =>
         status'[intentRow[i].booking] # "PAYMENT_PENDING"
    /\ \A i \in Intents : ~Issued(i) /\ IntentTouched(i) =>
         /\ intentStatus'[i] = "PENDING"
         /\ PendingIntents(intentRow'[i].booking) = {}
         /\ \A j \in Intents \ {i} : ~IntentTouched(j)

\* A cancel of the PENDING intents of a booking that is no hold afterwards.
LEMMA CancelTouches ==
    ASSUME NEW b, CancelPendingIntents(b), status'[b] # "PAYMENT_PENDING"
    PROVE  IntentFrame
BY DEF IntentFrame, IntentTouched, CancelPendingIntents, PendingIntents, IntentsOf, Issued

LEMMA NothingTouched ==
    ASSUME UNCHANGED intentStatus
    PROVE  IntentFrame
BY DEF IntentFrame, IntentTouched

\* createOrGetIntent: the unique index on PENDING intents guards its insert.
LEMMA RequestTouches ==
    ASSUME HoldIntentInv, NEW p \in IntentReqs,
           \/ IntentRead(p) \/ IntentCheck(p) \/ IntentLookup(p) \/ IntentInsert(p)
           \/ IntentExpireBooking(p) \/ IntentCancelPending(p) \/ IntentAbort(p)
    PROVE  IntentFrame
<1> TypeOK
  BY DEF HoldIntentInv, ContractInv, ReservationInv
<1>1. CASE IntentInsert(p)
  <2>1. PICK i \in Intents :
          /\ intentStatus[i] = "NONE"
          /\ PendingIntents(intentReq[p].booking) = {}
          /\ intentStatus' = [intentStatus EXCEPT ![i] = "PENDING"]
          /\ intentRow' = [intentRow EXCEPT ![i] =
                              [booking |-> intentReq[p].booking, key |-> intentReq[p].key]]
    BY <1>1 DEF IntentInsert, NextIntent, PendingIndexFree
  <2>2. intentStatus'[i] = "PENDING" /\ intentRow'[i].booking = intentReq[p].booking
    BY <2>1 DEF TypeOK, TablesTypeOK
  <2>3. \A j \in Intents \ {i} : ~IntentTouched(j)
    BY <2>1 DEF IntentTouched, TypeOK, TablesTypeOK
  <2> QED BY <2>1, <2>2, <2>3 DEF IntentFrame, Issued
<1>2. CASE IntentCancelPending(p)
  BY <1>2, CancelTouches DEF IntentCancelPending, HoldIntentInv, ExpiryDecided
<1>3. CASE \/ IntentRead(p) \/ IntentCheck(p) \/ IntentLookup(p)
           \/ IntentExpireBooking(p) \/ IntentAbort(p)
  BY <1>3, NothingTouched DEF IntentRead, IntentCheck, IntentLookup, IntentExpireBooking,
                              IntentAbort, tables
<1> QED BY <1>1, <1>2, <1>3

\* A confirmation touches its intent when the booking is settled or leaves
\* its hold in the same commit.
LEMMA ConfirmTouches ==
    ASSUME HoldIntentInv, NEW w \in ConfirmReqs,
           \/ ConfirmBegin(w) \/ ConfirmLockIntent(w) \/ ConfirmNotPayable(w)
           \/ ConfirmDatesUnavailable(w) \/ ConfirmSucceeds(w) \/ ConfirmAbort(w)
    PROVE  IntentFrame
<1> DEFINE i == confirm[w].intent
           b == intentRow[i].booking
<1>1. TypeOK /\ CardInv /\ SettledExactlyWhenConfirmed
  BY DEF HoldIntentInv, ContractInv, ReservationInv, CardInv, SettlementInv
<1>2. CASE ConfirmBegin(w) \/ ConfirmNotPayable(w) \/ ConfirmAbort(w) \/ UNCHANGED intentStatus
  BY <1>2, NothingTouched DEF ConfirmBegin, ConfirmNotPayable, ConfirmAbort, tables
<1>3. ASSUME ConfirmLockIntent(w) \/ ConfirmDatesUnavailable(w) \/ ConfirmSucceeds(w),
             intentStatus' # intentStatus
      PROVE  IntentFrame
  <2>1. Issued(i) /\ b \in Bookings
    BY <1>1, <1>3 DEF ConfirmLockIntent, ConfirmDatesUnavailable, ConfirmSucceeds, Payable,
                      CardInv, HoldersJustified, IntentJustified, BookingStored, Issued
  <2>2. \E st : intentStatus' = [intentStatus EXCEPT ![i] = st]
    BY <1>3 DEF ConfirmLockIntent, ConfirmDatesUnavailable, ConfirmSucceeds
  <2>3. status'[b] # "PAYMENT_PENDING"
    <3>1. CASE ConfirmLockIntent(w)
      <4>1. HasSettledPayment(b) /\ UNCHANGED status
        BY <1>3, <3>1 DEF ConfirmLockIntent
      <4> QED BY <1>1, <2>1, <4>1 DEF SettledExactlyWhenConfirmed, HasSettledPayment
    <3>2. CASE ConfirmDatesUnavailable(w) \/ ConfirmSucceeds(w)
      BY <1>1, <2>1, <3>2 DEF ConfirmDatesUnavailable, ConfirmSucceeds, TypeOK, TablesTypeOK
    <3> QED BY <1>3, <3>1, <3>2
  <2> HIDE DEF i, b
  <2>4. \A j \in Intents \ {i} : ~IntentTouched(j)
    BY <1>1, <2>2 DEF IntentTouched, TypeOK, TablesTypeOK
  <2>5. \A j \in Intents : IntentTouched(j) => j = i
    BY <2>4
  <2>6. intentRow[i].booking = b
    BY DEF b
  <2> QED BY <2>1, <2>3, <2>5, <2>6 DEF IntentFrame
<1> QED BY <1>2, <1>3

\* A cancellation gives the hold up in the commit that cancels its intents.
LEMMA CancellationTouches ==
    ASSUME HoldIntentInv, CancellationStep
    PROVE  IntentFrame
<1>1. ASSUME NEW x \in CancelReqs, CancelCommit(x)
      PROVE  IntentFrame
  <2>1. TypeOK /\ cancel[x] \in CancelStates
    BY DEF HoldIntentInv, ContractInv, ReservationInv, TypeOK, CancellationTypeOK
  <2>2. cancel[x].booking \in Bookings /\ cancel[x].by \in CancelledStatuses
    BY <1>1, <2>1 DEF CancelCommit, CancelStates, IdleCancel
  <2>3. status'[cancel[x].booking] # "PAYMENT_PENDING"
    BY <1>1, <2>1, <2>2 DEF CancelCommit, TypeOK, TablesTypeOK, CancelledStatuses
  <2> QED BY <1>1, <2>3, CancelTouches DEF CancelCommit
<1>2. ASSUME NEW x \in CancelReqs, \/ CancelBegin(x) \/ CancelLockBooking(x)
                                   \/ CancelVoidNext(x) \/ CancelAbort(x)
      PROVE  IntentFrame
  BY <1>2, NothingTouched DEF CancelBegin, CancelLockBooking, CancelVoidNext, CancelAbort, tables
<1> QED BY <1>1, <1>2 DEF CancellationStep

\* The expiry job cancels the intents of a hold it has expired.
LEMMA SchedulerTouches ==
    ASSUME HoldIntentInv, SchedulerStep
    PROVE  IntentFrame
<1>1. ASSUME NEW e \in ExpireJobs, ExpireCancelIntents(e)
      PROVE  IntentFrame
  <2>1. NeverPaid(expireJob[e].booking)
    BY <1>1 DEF HoldIntentInv, ContractInv, CardInv, HoldersJustified, ExpireCancelIntents
  <2> QED BY <1>1, <2>1, CancelTouches DEF ExpireCancelIntents, NeverPaid
<1>2. ASSUME NEW e \in ExpireJobs, \/ ExpireFind(e) \/ ExpireBooking(e) \/ ExpireReadIntents(e)
                                   \/ ExpireVoidNext(e) \/ ExpireFails(e) \/ ExpireCrash(e)
      PROVE  IntentFrame
  BY <1>2, NothingTouched DEF ExpireFind, ExpireBooking, ExpireReadIntents, ExpireVoidNext,
                              ExpireFails, ExpireCrash, tables
<1>3. ASSUME NEW j \in CompleteJobs, CompleteStep(j) \/ CompleteCrash(j)
      PROVE  IntentFrame
  BY <1>3, NothingTouched DEF CompleteStep, CompleteFind, CompleteBooking, CompleteFails,
                              CompleteCrash, tables
<1> QED BY <1>1, <1>2, <1>3 DEF SchedulerStep, ExpireStep

\* The gateway, createBooking, host blocks and the clock touch no intent row.
LEMMA OthersTouchNothing ==
    ASSUME TimePasses \/ CreationStep \/ GatewayStep \/ UNCHANGED vars
    PROVE  UNCHANGED <<intentStatus, intentReq>>
<1>1. CASE TimePasses \/ CreationStep \/ UNCHANGED vars
  BY <1>1 DEF TimePasses, Tick, CreationStep, CreateCheck, CreateInsert, CreateAbort,
              setHostAvailabilityBlock, tables, vars
<1>2. ASSUME NEW i \in Intents, GuestAuthorizes(i), UNCHANGED intentReq
      PROVE  UNCHANGED <<intentStatus, intentReq>>
  BY <1>2 DEF GuestAuthorizes, tables
<1>3. ASSUME NEW a \in GwCallers, CmiStep(a), UNCHANGED intentReq
      PROVE  UNCHANGED <<intentStatus, intentReq>>
  BY <1>3 DEF CmiStep, CaptureRead, CaptureCall, VoidCall, VoidRead, RefundRead, RefundCall,
              PatchIntentMetadata, SettleRefund, CmiThrows, tables
<1> QED BY <1>1, <1>2, <1>3 DEF GatewayStep

LEMMA StepTouches ==
    ASSUME HoldIntentInv, [Next]_vars
    PROVE  IntentFrame
<1>1. CASE PaymentStep
  BY <1>1, RequestTouches, ConfirmTouches DEF PaymentStep
<1>2. CASE TimePasses \/ CreationStep \/ GatewayStep \/ UNCHANGED vars
  BY <1>2, OthersTouchNothing, NothingTouched
<1> QED BY <1>1, <1>2, CancellationTouches, SchedulerTouches DEF Next, RequestStep

\* No step turns a booking that is stored and no hold into a hold, and
\* an intent keeps its booking.
HoldFrame ==
    /\ CardFrame
    /\ \A b : BookingStored(b) /\ status[b] # "PAYMENT_PENDING" => status'[b] # "PAYMENT_PENDING"

LEMMA StepHolds ==
    ASSUME ContractInv, ContractInv', [Next]_vars
    PROVE  HoldFrame
<1>1. CardInv /\ SettledExactlyWhenConfirmed'
  BY DEF ContractInv, CardInv, SettlementInv
<1>2. CardFrame
  <2>1. CASE UNCHANGED vars
    BY <2>1, QuietCards DEF vars, tables, cmi
  <2> QED BY <1>1, <2>1, CreationCards, GatewayCards, PaymentCards, CancellationCards,
             SchedulerCards DEF Next, RequestStep, ContractInv
<1>3. ASSUME NEW b, BookingStored(b), status[b] # "PAYMENT_PENDING"
      PROVE  status'[b] # "PAYMENT_PENDING"
  <2>1. b \in Bookings /\ ledger[b].payment \in Nat /\ ledger[b].payment <= 1
    BY <1>1, <1>3 DEF BookingStored, CardInv, SettlementInv, SettledExactlyWhenConfirmed, TypeOK,
                      TablesTypeOK, LedgerRows
  <2>2. CASE ledger[b].payment = 0
    BY <1>2, <1>3, <2>1, <2>2 DEF CardFrame, NeverPaid
  <2>3. CASE ledger[b].payment = 1
    BY <1>1, <1>2, <2>1, <2>3 DEF CardFrame, SettledExactlyWhenConfirmed
  <2> QED BY <2>1, <2>2, <2>3
<1> QED BY <1>2, <1>3 DEF HoldFrame

\* Only IntentExpireBooking starts to cancel intents, and it has seen or made
\* the hold end.
LEMMA ExpiryStaysDecided ==
    ASSUME HoldIntentInv, [Next]_vars, HoldFrame
    PROVE  ExpiryDecided'
<1>1. TypeOK /\ \A p \in IntentReqs : intentReq[p].pc # "idle" => BookingStored(intentReq[p].booking)
  BY DEF HoldIntentInv, ContractInv, ReservationInv, CardInv, HoldersJustified
<1>2. ASSUME NEW p \in IntentReqs, intentReq'[p] = intentReq[p],
             intentReq[p].pc = "cancelIntents"
      PROVE  status'[intentReq[p].booking] # "PAYMENT_PENDING"
  BY <1>1, <1>2 DEF HoldFrame, HoldIntentInv, ExpiryDecided
<1>3. ASSUME NEW q \in IntentReqs, IntentExpireBooking(q)
      PROVE  ExpiryDecided'
  <2>1. /\ intentReq' = [intentReq EXCEPT ![q].pc = "cancelIntents"]
        /\ intentReq[q].booking \in Bookings
    BY <1>1, <1>3 DEF IntentExpireBooking, BookingStored
  <2>2. status'[intentReq[q].booking] # "PAYMENT_PENDING"
    BY <1>1, <1>3, <2>1 DEF IntentExpireBooking, TypeOK, TablesTypeOK,
                            PRE_CONFIRMATION_BOOKING_STATUSES
  <2>3. \A p \in IntentReqs \ {q} : intentReq'[p] = intentReq[p]
    BY <1>1, <2>1 DEF TypeOK, PaymentsTypeOK
  <2>4. intentReq'[q].booking = intentReq[q].booking
    BY <1>1, <2>1 DEF TypeOK, PaymentsTypeOK
  <2> QED BY <1>2, <2>2, <2>3, <2>4 DEF ExpiryDecided
<1>4. ASSUME NEW q \in IntentReqs, \/ IntentRead(q) \/ IntentCheck(q) \/ IntentLookup(q)
                                   \/ IntentInsert(q) \/ IntentCancelPending(q) \/ IntentAbort(q)
      PROVE  ExpiryDecided'
  <2>1. \A p \in IntentReqs \ {q} : intentReq'[p] = intentReq[p]
    BY <1>1, <1>4 DEF TypeOK, PaymentsTypeOK, IntentRead, IntentCheck, IntentLookup, IntentInsert,
                      IntentCancelPending, IntentAbort
  <2>2. intentReq'[q].pc # "cancelIntents"
    <3>1. CASE IntentInsert(q) \/ IntentCancelPending(q) \/ IntentAbort(q)
      <4>1. intentReq'[q] = IdleIntentReq
        BY <1>1, <3>1 DEF TypeOK, PaymentsTypeOK, IntentInsert, IntentCancelPending, IntentAbort
      <4> QED BY <4>1 DEF IdleIntentReq
    <3>2. CASE IntentRead(q)
      BY <1>1, <3>2 DEF TypeOK, PaymentsTypeOK, IntentRead
    <3>3. CASE IntentCheck(q)
      BY <1>1, <3>3 DEF TypeOK, PaymentsTypeOK, IntentCheck
    <3>4. CASE IntentLookup(q)
      BY <1>1, <3>4 DEF TypeOK, PaymentsTypeOK, IntentLookup, IdleIntentReq
    <3> QED BY <1>4, <3>1, <3>2, <3>3, <3>4
  <2> QED BY <1>2, <2>1, <2>2 DEF ExpiryDecided
<1>5. CASE UNCHANGED intentReq
  BY <1>2, <1>5 DEF ExpiryDecided
<1>6. CASE \E w \in ConfirmReqs : \/ ConfirmBegin(w) \/ ConfirmLockIntent(w) \/ ConfirmNotPayable(w)
             \/ ConfirmDatesUnavailable(w) \/ ConfirmSucceeds(w) \/ ConfirmAbort(w)
  BY <1>5, <1>6 DEF ConfirmBegin, ConfirmLockIntent, ConfirmNotPayable, ConfirmDatesUnavailable,
                    ConfirmSucceeds, ConfirmAbort
<1>7. CASE CancellationStep
  BY <1>5, <1>7 DEF CancellationStep, CancelBegin, CancelLockBooking, CancelCommit,
                    CancelVoidNext, CancelAbort
<1>8. CASE SchedulerStep
  BY <1>5, <1>8 DEF SchedulerStep, ExpireStep, CompleteStep, ExpireFind, ExpireBooking,
                    ExpireReadIntents, ExpireVoidNext, ExpireCancelIntents, ExpireFails,
                    ExpireCrash, CompleteFind, CompleteBooking, CompleteFails, CompleteCrash,
                    others
<1> QED BY <1>3, <1>4, <1>5, <1>6, <1>7, <1>8, OthersTouchNothing
           DEF Next, RequestStep, PaymentStep

\* The intents of a hold stay PENDING, and there is still at most one.
LEMMA HoldsStaySingle ==
    ASSUME HoldIntentInv, HoldFrame, IntentFrame, TypeOK, TypeOK'
    PROVE  PendingWhileHeld' /\ OneIntentPerHold'
<1>1. \A i \in Intents : Issued(i) => /\ BookingStored(intentRow[i].booking)
                                      /\ intentRow'[i] = intentRow[i]
  BY DEF HoldIntentInv, ContractInv, CardInv, IntentJustified, HoldFrame, CardFrame
\* An intent of a booking that is a hold after the step is old or new.
<1>2. ASSUME NEW i \in Intents, Issued(i)', status'[intentRow'[i].booking] = "PAYMENT_PENDING"
      PROVE  /\ intentStatus'[i] = "PENDING"
             /\ \/ Issued(i) /\ intentStatus[i] = "PENDING"
                             /\ status[intentRow[i].booking] = "PAYMENT_PENDING"
                \/ ~Issued(i) /\ IntentTouched(i)
  <2>1. CASE Issued(i)
    <3>1. status[intentRow[i].booking] = "PAYMENT_PENDING"
      BY <1>1, <1>2, <2>1 DEF HoldFrame
    <3>2. intentStatus[i] = "PENDING" /\ ~IntentTouched(i)
      BY <1>1, <1>2, <2>1, <3>1 DEF HoldIntentInv, PendingWhileHeld, IntentFrame
    <3> QED BY <2>1, <3>1, <3>2 DEF IntentTouched
  <2>2. CASE ~Issued(i)
    BY <1>2, <2>2 DEF IntentFrame, IntentTouched, Issued
  <2> QED BY <2>1, <2>2
<1>3. PendingWhileHeld'
  BY <1>2 DEF PendingWhileHeld, Issued
<1>4. ASSUME NEW i \in Intents, NEW j \in Intents, SameBooking(i, j)',
             status'[intentRow'[i].booking] = "PAYMENT_PENDING",
             i # j
      PROVE  FALSE
  <2>1. /\ Issued(i)' /\ Issued(j)'
        /\ intentRow'[i].booking = intentRow'[j].booking
        /\ status'[intentRow'[j].booking] = "PAYMENT_PENDING"
    BY <1>4 DEF SameBooking
  <2>2. CASE Issued(i) /\ Issued(j)
    BY <1>1, <1>2, <1>4, <2>1, <2>2 DEF HoldIntentInv, OneIntentPerHold, SameBooking
  <2>3. ASSUME NEW new \in {i, j}, NEW old \in {i, j}, ~Issued(new), IntentTouched(new),
               Issued(old), intentStatus[old] = "PENDING"
        PROVE  FALSE
    <3>1. PendingIntents(intentRow'[new].booking) = {}
      BY <2>3 DEF IntentFrame
    <3>2. old \in PendingIntents(intentRow'[new].booking)
      BY <1>1, <2>1, <2>3 DEF PendingIntents, IntentsOf, Issued
    <3> QED BY <3>1, <3>2
  <2>4. CASE ~Issued(i) /\ ~Issued(j)
    BY <1>2, <1>4, <2>1, <2>4 DEF IntentFrame
  <2> QED BY <1>2, <1>4, <2>1, <2>2, <2>3, <2>4
<1>5. OneIntentPerHold'
  BY <1>4 DEF OneIntentPerHold, SameBooking
<1> QED BY <1>3, <1>5

LEMMA InitHoldIntents == Init => HoldIntentInv
<1>1. Init => PendingWhileHeld /\ OneIntentPerHold /\ ExpiryDecided
  BY DEF Init, TablesInit, PaymentsInit, IdleIntentReq, Issued, SameBooking, PendingWhileHeld,
         OneIntentPerHold, ExpiryDecided
<1> QED BY <1>1, InitContractInv DEF HoldIntentInv

LEMMA NextHoldIntents == HoldIntentInv /\ [Next]_vars => HoldIntentInv'
<1> SUFFICES ASSUME HoldIntentInv, [Next]_vars PROVE HoldIntentInv'
  OBVIOUS
<1>1. ContractInv /\ ContractInv'
  BY NextContractInv DEF HoldIntentInv
<1>2. TypeOK /\ TypeOK'
  BY <1>1 DEF ContractInv, ReservationInv
<1>3. HoldFrame /\ IntentFrame
  BY <1>1, StepHolds, StepTouches
<1> QED BY <1>1, <1>2, <1>3, HoldsStaySingle, ExpiryStaysDecided DEF HoldIntentInv

LEMMA HoldIntentsAlways == Spec => []HoldIntentInv
BY InitHoldIntents, NextHoldIntents, PTL DEF Spec

\* A booking that awaits payment has at most one payment intent, whatever
\* createOrGetIntent requests race: a second one comes only after the hold.
THEOREM HoldsHaveOneIntent == Spec => []OneIntentPerHold
<1>1. HoldIntentInv => OneIntentPerHold
  BY DEF HoldIntentInv
<1> QED BY <1>1, HoldIntentsAlways, PTL

\* The guard the insert of createOrGetIntent lacks: the booking still awaits
\* payment when the intent is stored, not only when it was read.
IntentsForHoldsOnly ==
    \A i \in Intents : ~Issued(i) /\ intentStatus'[i] # "NONE" =>
        status[intentRow'[i].booking] = "PAYMENT_PENDING"

OneIntentEver == \A i, j \in Intents : SameBooking(i, j) => i = j

LEMMA GuardedInsertsStaySingle ==
    ASSUME HoldIntentInv, OneIntentEver, [Next]_vars, [IntentsForHoldsOnly]_vars
    PROVE  OneIntentEver'
<1>1. ContractInv /\ ContractInv' /\ IntentFrame /\ HoldFrame
  BY NextContractInv, StepTouches, StepHolds DEF HoldIntentInv
<1>2. \A i \in Intents : Issued(i) => intentRow'[i] = intentRow[i]
  BY <1>1 DEF HoldFrame, CardFrame
<1>3. CASE UNCHANGED vars
  BY <1>3 DEF vars, tables, OneIntentEver, SameBooking, Issued
<1>4. ASSUME NEW new \in Intents, NEW old \in Intents, IntentsForHoldsOnly,
             ~Issued(new), Issued(old), SameBooking(old, new)'
      PROVE  FALSE
  <2>1. Issued(new)' /\ intentRow'[new].booking = intentRow[old].booking
    BY <1>2, <1>4 DEF SameBooking
  <2>2. IntentTouched(new) /\ status[intentRow[old].booking] = "PAYMENT_PENDING"
    BY <1>4, <2>1 DEF IntentsForHoldsOnly, IntentTouched, Issued
  <2>3. old \in PendingIntents(intentRow'[new].booking)
    BY <1>4, <2>1, <2>2 DEF HoldIntentInv, PendingWhileHeld, PendingIntents, IntentsOf, Issued
  <2> QED BY <1>1, <1>4, <2>2, <2>3 DEF IntentFrame
<1>5. ASSUME NEW i \in Intents, NEW j \in Intents, IntentsForHoldsOnly, SameBooking(i, j)', i # j
      PROVE  FALSE
  <2>1. CASE Issued(i) /\ Issued(j)
    BY <1>2, <1>5, <2>1 DEF OneIntentEver, SameBooking
  <2>2. CASE ~Issued(i) /\ ~Issued(j)
    BY <1>1, <1>5, <2>2 DEF IntentFrame, IntentTouched, SameBooking, Issued
  <2>3. SameBooking(j, i)'
    BY <1>5 DEF SameBooking
  <2> QED BY <1>4, <1>5, <2>1, <2>2, <2>3
<1> QED BY <1>3, <1>5 DEF OneIntentEver

\* With an insert that checks the booking again a guest is charged at most
\* once per booking: the unguarded insert is the whole cause of the second
\* charge, whatever callbacks, retries, cancellations and jobs race.
THEOREM GuardedInsertSuffices ==
    Spec /\ [][IntentsForHoldsOnly]_vars => []ChargedAtMostOnce
<1>1. Init => OneIntentEver
  BY DEF Init, TablesInit, OneIntentEver, SameBooking, Issued
<1>2. HoldIntentInv /\ OneIntentEver /\ [Next]_vars /\ [IntentsForHoldsOnly]_vars => OneIntentEver'
  BY GuardedInsertsStaySingle
<1>3. HoldIntentInv /\ OneIntentEver => ChargedAtMostOnce
  <2>1. CardInv => \A i \in Intents : auth[i] \in {"CAPTURED", "CREDITED"} => Issued(i)
    BY DEF CardInv, IntentJustified
  <2> QED BY <2>1 DEF HoldIntentInv, ContractInv, OneIntentEver, SameBooking, ChargedAtMostOnce
<1> QED BY <1>1, <1>2, <1>3, HoldIntentsAlways, PTL DEF Spec

----------------------------------------------------------------------------
(* What no step takes back. *)

\* A finished booking stays finished, one that left its dates never occupies
\* them again, and a stored booking keeps its listing and nights.
LifeCycleOneWay ==
    \A b \in Bookings :
        /\ status[b] \in {"COMPLETED", "EXPIRED"} => status'[b] = status[b]
        /\ status[b] \notin {"NONE"} \cup BOOKED_STATUSES => status'[b] \notin BOOKED_STATUSES
        /\ status[b] # "NONE" => status'[b] # "NONE" /\ stay'[b] = stay[b]

\* A payment stays settled; a refund becomes due only in the step that cancels
\* a confirmed booking, is settled later and stays so.
MoneyOneWay ==
    \A b \in Bookings :
        /\ HasSettledPayment(b) => HasSettledPayment(b)'
        /\ refundStates[b] = "NONE" /\ refundStates'[b] # "NONE" =>
             status[b] = "CONFIRMED" /\ status'[b] \in CancelledStatuses
        /\ refundStates[b] = "PENDING" => refundStates'[b] \in {"PENDING", "SETTLED"}
        /\ refundStates[b] = "SETTLED" => refundStates'[b] = "SETTLED"

LEMMA ContractOneWay ==
    ASSUME TypeOK, [Contract!Next]_(Contract!vars)
    PROVE  LifeCycleOneWay /\ MoneyOneWay
<1> USE DEF LifeCycleOneWay, MoneyOneWay, BOOKED_STATUSES, CancelledStatuses
<1>1. \A b \in Bookings : /\ paidBookings[b] = HasSettledPayment(b)
                          /\ paidBookings'[b] = HasSettledPayment(b)'
  BY DEF paidBookings
<1>2. /\ DOMAIN status = Bookings /\ DOMAIN stay = Bookings
      /\ DOMAIN paidBookings = Bookings /\ DOMAIN refundStates = Bookings
  BY DEF TypeOK, TablesTypeOK, paidBookings, refundStates
<1>3. CASE UNCHANGED Contract!vars
  BY <1>1, <1>3 DEF Contract!vars
<1>4. ASSUME NEW o \in Bookings, Contract!Reserve(o)
      PROVE  LifeCycleOneWay /\ MoneyOneWay
  BY <1>1, <1>2, <1>4 DEF Contract!Reserve, Contract!Move
<1>5. ASSUME NEW o \in Bookings, Contract!Pay(o)
      PROVE  LifeCycleOneWay /\ MoneyOneWay
  BY <1>1, <1>2, <1>5 DEF Contract!Pay, Contract!Move
<1>6. ASSUME NEW o \in Bookings, Contract!Release(o)
      PROVE  LifeCycleOneWay /\ MoneyOneWay
  BY <1>1, <1>2, <1>6 DEF Contract!Release, Contract!Move, Contract!Cancelled
<1>7. ASSUME NEW o \in Bookings, Contract!CancelPaid(o)
      PROVE  LifeCycleOneWay /\ MoneyOneWay
  BY <1>1, <1>2, <1>7 DEF Contract!CancelPaid, Contract!Move, Contract!Cancelled
<1>8. ASSUME NEW o \in Bookings, Contract!SettleRefund(o)
      PROVE  LifeCycleOneWay /\ MoneyOneWay
  BY <1>1, <1>2, <1>8 DEF Contract!SettleRefund
<1>9. ASSUME NEW o \in Bookings, Contract!Complete(o) \/ Contract!LateComplete(o)
      PROVE  LifeCycleOneWay /\ MoneyOneWay
  BY <1>1, <1>2, <1>9 DEF Contract!Complete, Contract!LateComplete, Contract!Move, Contract!Cancelled
<1> QED BY <1>3, <1>4, <1>5, <1>6, <1>7, <1>8, <1>9 DEF Contract!Next

\* Whatever requests, callbacks and jobs race, nothing of the life cycle or
\* the money of a booking is taken back.
THEOREM NothingIsTakenBack == Spec => [][LifeCycleOneWay /\ MoneyOneWay]_vars
<1>1. ContractInv /\ [Contract!Next]_(Contract!vars) => [LifeCycleOneWay /\ MoneyOneWay]_vars
  BY ContractOneWay DEF ContractInv, ReservationInv
<1> QED BY <1>1, ContractAlways, PTL
=============================================================================
