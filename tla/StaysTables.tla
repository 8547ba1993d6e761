---------------------------- MODULE StaysTables ----------------------------
(***************************************************************************)
(* The PostgreSQL tables the booking core shares: stays_bookings,          *)
(* stays_payment_intents, stays_ledger_entries, stays_availability_blocks, *)
(* and the wall clock.  Every service of the core reads and writes these   *)
(* rows; the modules that model the services EXTEND this one.              *)
(*                                                                         *)
(* Bookings and intents are numbered in insertion order, so "the latest    *)
(* intent" (ORDER BY created_at DESC) is the largest number.  Amounts are  *)
(* abstracted: a ledger entry is counted, not valued.                      *)
(***************************************************************************)
EXTENDS Integers, FiniteSets

CONSTANTS
    Listings,           \* LIVE listings with a rate plan
    Keys,               \* (guest, idempotency key) pairs a client may send
    NoKey,              \* a request without idempotency key
    LastDay,            \* the calendar is Days = 0 .. LastDay
    MaxNow,             \* bound on the clock, in half-days
    HoldTtl,            \* PAYMENT_PENDING_TTL_MINUTES, in clock ticks
    MaxBookings,        \* bound on booking rows
    MaxIntents,         \* bound on payment-intent rows
    Provider            \* STAYS_PAYMENT_PROVIDER: "mock" or "cmi"

ASSUME TablesAssumption ==
    /\ NoKey \notin Keys
    /\ LastDay \in Nat
    /\ MaxNow \in Nat
    /\ HoldTtl \in Nat
    /\ MaxBookings \in Nat
    /\ MaxIntents \in Nat
    /\ Provider \in {"mock", "cmi"}

VARIABLES
    status,         \* stays_bookings.status; "NONE" when there is no row yet
    stay,           \* the columns of a booking that never change after insert
    intentStatus,   \* stays_payment_intents.status; "NONE" when no row yet
    intentRow,      \* booking_id and idempotency_key of an intent
    ledger,         \* counts of ledger entries per booking
    blocks,         \* blocked nights per listing
    now             \* wall clock: day now \div 2, morning or afternoon

tables == <<status, stay, intentStatus, intentRow, ledger, blocks, now>>

----------------------------------------------------------------------------
Bookings == 1 .. MaxBookings
Intents  == 1 .. MaxIntents
Days     == 0 .. LastDay

BookingStatus == {"NONE", "PAYMENT_PENDING", "CONFIRMED", "COMPLETED",
                  "CANCELLED_BY_GUEST", "CANCELLED_BY_HOST", "EXPIRED"}
IntentStatus  == {"NONE", "PENDING", "SUCCEEDED", "FAILED", "CANCELLED"}

\* INITIATED and CHECKED_IN are declared by the entity but no code of the
\* repository ever stores them, so the status sets below leave them out.
BOOKED_STATUSES == {"PAYMENT_PENDING", "CONFIRMED"}
PRE_CONFIRMATION_BOOKING_STATUSES == {"PAYMENT_PENDING"}
CONFIRMED_BOOKING_STATUSES == {"CONFIRMED", "COMPLETED"}
CancelledStatuses == {"CANCELLED_BY_GUEST", "CANCELLED_BY_HOST"}
NonCancellable == {"COMPLETED", "EXPIRED"} \cup CancelledStatuses

DateRanges == {r \in [checkin : Days, checkout : Days] : r.checkin < r.checkout}

NoStay == [listing |-> "none"]
StayRows == [listing : Listings, range : DateRanges, key : Keys \cup {NoKey},
             created_at : 0 .. MaxNow]

NoIntent == [booking |-> 0]
IntentRows == [booking : Bookings, key : Keys \cup {NoKey}]

\* payment: settled GUEST_PAYMENT rows, each saved in one statement with its
\* PLATFORM_FEE (SETTLED) and HOST_PAYOUT (PENDING) rows.
LedgerRows == [payment : Nat, refundPending : Nat, refundSettled : Nat]
EmptyLedger == [payment |-> 0, refundPending |-> 0, refundSettled |-> 0]

----------------------------------------------------------------------------
(* Availability: hotel nights, half-open [checkin, checkout). *)

Nights(r) == {d \in Days : r.checkin <= d /\ d < r.checkout}

Overlap(r1, r2) == r1.checkin < r2.checkout /\ r2.checkin < r1.checkout

OccupiedBy(b, l, r) ==
    /\ status[b] \in BOOKED_STATUSES
    /\ stay[b].listing = l
    /\ Overlap(stay[b].range, r)

\* StaysAvailabilityService.isListingAvailable, with the bookings excluded
\* from the overlap count as a set (empty, or the caller's own booking).
isListingAvailable(l, r, excluded) ==
    /\ \A b \in Bookings \ excluded : ~OccupiedBy(b, l, r)
    /\ blocks[l] \cap Nights(r) = {}

----------------------------------------------------------------------------
(* Rows of one booking. *)

IntentsOf(b) == {i \in Intents : intentStatus[i] # "NONE" /\ intentRow[i].booking = b}
PendingIntents(b) == {i \in IntentsOf(b) : intentStatus[i] = "PENDING"}

HasSettledPayment(b) == ledger[b].payment > 0
HasRefund(b) == ledger[b].refundPending + ledger[b].refundSettled > 0

\* Mutant: the update lost its filter on the status.
CancelAllIntents(b) ==
    intentStatus' = [i \in Intents |-> IF i \in IntentsOf(b)
                                       THEN "CANCELLED" ELSE intentStatus[i]]

\* UPDATE stays_payment_intents SET status = 'CANCELLED'
\* WHERE booking_id = b AND status = 'PENDING'
CancelPendingIntents(b) ==
    intentStatus' = [i \in Intents |-> IF i \in PendingIntents(b)
                                       THEN "CANCELLED" ELSE intentStatus[i]]

\* Insertion order: a row may only be inserted after all smaller numbers.
NextBooking(b) == status[b] = "NONE" /\ \A k \in 1 .. (b - 1) : status[k] # "NONE"
NextIntent(i)  == intentStatus[i] = "NONE" /\ \A k \in 1 .. (i - 1) : intentStatus[k] # "NONE"

----------------------------------------------------------------------------
(* The clock. *)

Today == now \div 2
CheckoutTimePassed == now % 2 = 1

PaymentHoldExpired(b) == stay[b].created_at + HoldTtl <= now

Tick ==
    /\ now < MaxNow
    /\ now' = now + 1
    /\ UNCHANGED <<status, stay, intentStatus, intentRow, ledger, blocks>>

----------------------------------------------------------------------------
TablesInit ==
    /\ status = [b \in Bookings |-> "NONE"]
    /\ stay = [b \in Bookings |-> NoStay]
    /\ intentStatus = [i \in Intents |-> "NONE"]
    /\ intentRow = [i \in Intents |-> NoIntent]
    /\ ledger = [b \in Bookings |-> EmptyLedger]
    /\ blocks = [l \in Listings |-> {}]
    /\ now = 0

TablesTypeOK ==
    /\ status \in [Bookings -> BookingStatus]
    /\ stay \in [Bookings -> StayRows \cup {NoStay}]
    /\ intentStatus \in [Intents -> IntentStatus]
    /\ intentRow \in [Intents -> IntentRows \cup {NoIntent}]
    /\ ledger \in [Bookings -> LedgerRows]
    /\ blocks \in [Listings -> SUBSET Days]
    /\ now \in 0 .. MaxNow
============================================================================
