--------------------------- MODULE BookingContract ---------------------------
(***************************************************************************)
(* What the booking core promises, one booking at a time and without any   *)
(* request, lock, intent or gateway: a booking is reserved on free nights, *)
(* is paid at most once, is released, cancelled or completed, and is       *)
(* refunded at most once and only if it was paid.                          *)
(*                                                                         *)
(* LateComplete is what the code adds to the intended life cycle: a        *)
(* completion job that read the booking before it was cancelled still      *)
(* marks it COMPLETED.                                                     *)
(***************************************************************************)
CONSTANTS
    Bookings,       \* booking rows
    StayRows,       \* listing, nights and the other fixed columns of a booking
    NoStay,         \* value of a row not yet inserted
    Overlapping(_, _)   \* do two stays share a night of a listing?

VARIABLES status, stay, paid, refund

vars == <<status, stay, paid, refund>>

Occupying == {"PAYMENT_PENDING", "CONFIRMED"}
Cancelled == {"CANCELLED_BY_GUEST", "CANCELLED_BY_HOST"}

Init ==
    /\ status = [b \in Bookings |-> "NONE"]
    /\ stay = [b \in Bookings |-> NoStay]
    /\ paid = [b \in Bookings |-> FALSE]
    /\ refund = [b \in Bookings |-> "NONE"]

Move(b, from, to) == status[b] \in from /\ status' = [status EXCEPT ![b] = to]

\* A hold is placed on nights that no other booking occupies.
Reserve(b) ==
    \E s \in StayRows :
        /\ Move(b, {"NONE"}, "PAYMENT_PENDING")
        /\ \A o \in Bookings \ {b} :
             status[o] \in Occupying => ~Overlapping(stay[o], s)
        /\ stay' = [stay EXCEPT ![b] = s]
        /\ UNCHANGED <<paid, refund>>

\* The hold is paid: once, and only while it is a hold.
Pay(b) ==
    /\ Move(b, {"PAYMENT_PENDING"}, "CONFIRMED")
    /\ ~paid[b]
    /\ paid' = [paid EXCEPT ![b] = TRUE]
    /\ UNCHANGED <<stay, refund>>

\* An unpaid hold is given up.
Release(b) ==
    \E to \in Cancelled \cup {"EXPIRED"} :
        /\ Move(b, {"PAYMENT_PENDING"}, to)
        /\ UNCHANGED <<stay, paid, refund>>

\* A paid booking is cancelled, with or without a refund.
CancelPaid(b) ==
    \E to \in Cancelled, r \in {"NONE", "PENDING"} :
        /\ Move(b, {"CONFIRMED"}, to)
        /\ paid[b]
        /\ refund[b] = "NONE"
        /\ refund' = [refund EXCEPT ![b] = r]
        /\ UNCHANGED <<stay, paid>>

SettleRefund(b) ==
    /\ refund[b] = "PENDING"
    /\ paid[b]
    /\ refund' = [refund EXCEPT ![b] = "SETTLED"]
    /\ UNCHANGED <<status, stay, paid>>

Complete(b) ==
    /\ Move(b, {"CONFIRMED"}, "COMPLETED")
    /\ UNCHANGED <<stay, paid, refund>>

LateComplete(b) ==
    /\ Move(b, Cancelled, "COMPLETED")
    /\ paid[b]
    /\ UNCHANGED <<stay, paid, refund>>

Next ==
    \E b \in Bookings :
        \/ Reserve(b)
        \/ Pay(b)
        \/ Release(b)
        \/ CancelPaid(b)
        \/ SettleRefund(b)
        \/ Complete(b)
        \/ LateComplete(b)

Spec == Init /\ [][Next]_vars
==============================================================================
