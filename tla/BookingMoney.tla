---------------------------- MODULE BookingMoney ----------------------------
(***************************************************************************)
(* The amounts of one booking, in cents: fees from the platform settings   *)
(* that an admin changes and every process caches (PlatformSettingsService)*)
(* the ledger rows of the confirmation and the refund of a cancellation.   *)
(* Rates are in ten-thousandths, as the column stores them.  The code      *)
(* rounds floating-point products, so an exact half may go either way.     *)
(***************************************************************************)
EXTENDS Integers

CONSTANTS
    Prices,         \* base_price per night, in cents
    StayLengths,    \* numbers of nights
    FeePcts,        \* rates an admin sets
    HoursLeft,      \* hours to check-in at a cancellation
    Pods            \* processes of the service

ASSUME MoneyAssumption ==
    /\ Prices \subseteq Nat \ {0} /\ StayLengths \subseteq Nat \ {0}
    /\ FeePcts \subseteq 0..5000 /\ HoursLeft \subseteq Int

VARIABLES
    rates,      \* row of stays_platform_settings
    cached,     \* per process: {} or its cached rates
    fresh,      \* processes whose cache is younger than its TTL
    quote,      \* {} or the amounts of a creation that has not inserted its booking
    amounts,    \* {} or the money columns of the booking
    sold,       \* history: {} or the rates in force when the quote was made
    payment,    \* NONE, SETTLED or REFUSED (financial invariant violation)
    refund      \* {} or the amount of the REFUND row

moneyVars == <<rates, cached, fresh, quote, amounts, sold, payment, refund>>

FeeRates == [guest : 0..5000, host : 0..5000]
CancellationPolicy == {"FLEXIBLE", "MODERATE", "STRICT"}

\* Math.round(x * 100) / 100 of the amount n / d cents.
Rounded(n, d) == {q \in {n \div d, n \div d + 1} : 2 * (n - q * d) <= d /\ 2 * (q * d - n) <= d}

feesFromRates(subtotal, r) ==
    {[subtotal |-> subtotal, guestFee |-> g, hostFee |-> h, totalPaid |-> subtotal + g,
      payoutAmount |-> subtotal - h] :
        g \in Rounded(subtotal * r.guest, 10000), h \in Rounded(subtotal * r.host, 10000)}

\* Mutant: the moderate policy compares hours with days.
RefundByDays(policy, hours, subtotal, guestFee) ==
    LET totalPaid == subtotal + guestFee
    IN  CASE policy = "FLEXIBLE" /\ hours >= 24 -> {totalPaid}
          [] policy = "FLEXIBLE" /\ hours < 24 -> Rounded(10 * totalPaid - subtotal, 10)
          [] policy = "MODERATE" /\ hours >= 5 -> {totalPaid}
          [] policy = "STRICT" /\ hours >= 7 * 24 -> Rounded(totalPaid, 2)
          [] OTHER -> {0}

calculateRefund(policy, hours, subtotal, guestFee) ==
    LET totalPaid == subtotal + guestFee
    IN  CASE policy = "FLEXIBLE" /\ hours >= 24 -> {totalPaid}
          [] policy = "FLEXIBLE" /\ hours < 24 -> Rounded(10 * totalPaid - subtotal, 10)
          [] policy = "MODERATE" /\ hours >= 5 * 24 -> {totalPaid}
          [] policy = "MODERATE" /\ hours >= 24 /\ hours < 5 * 24 -> Rounded(totalPaid, 2)
          [] policy = "STRICT" /\ hours >= 7 * 24 -> Rounded(totalPaid, 2)
          [] OTHER -> {0}

\* checkConfirmationLedgerInvariant: a tolerance of two cents.
checkConfirmationLedgerInvariant(a) ==
    a.totalPaid - (a.payoutAmount + a.guestFee + a.hostFee) \in -2..2

----------------------------------------------------------------------------

\* Mutant: percents are stored where fractions belong.
UpdateStoresPercent(p, r) ==
    /\ rates' = [guest |-> 100 * r.guest, host |-> 100 * r.host]
    /\ cached' = [cached EXCEPT ![p] = {r}]
    /\ fresh' = fresh \cup {p}
    /\ UNCHANGED <<quote, amounts, sold, payment, refund>>

\* updateFeeRates in the process p, which reads the row back into its cache.
updateFeeRates(p, r) ==
    /\ rates' = r
    /\ cached' = [cached EXCEPT ![p] = {r}]
    /\ fresh' = fresh \cup {p}
    /\ UNCHANGED <<quote, amounts, sold, payment, refund>>

CacheExpires(p) ==
    /\ fresh' = fresh \ {p}
    /\ UNCHANGED <<rates, cached, quote, amounts, sold, payment, refund>>

refreshCache(p) ==
    /\ cached' = [cached EXCEPT ![p] = {rates}]
    /\ fresh' = fresh \cup {p}

\* getFeeRatesAsync, for display: the database is read when the TTL has passed.
getFeeRatesAsync(p) ==
    /\ p \notin fresh
    /\ refreshCache(p)
    /\ UNCHANGED <<rates, quote, amounts, sold, payment, refund>>

\* Mutant: the rates shown are the rates charged.
QuoteCachedRates(p, price, nights) ==
    /\ quote = {} /\ amounts = {}
    /\ \E r \in IF p \in fresh THEN cached[p] ELSE {rates} :
       \E a \in feesFromRates(price * nights, r) : quote' = {a}
    /\ refreshCache(p)
    /\ sold' = {rates}
    /\ UNCHANGED <<rates, amounts, payment, refund>>

\* createBooking: calculateFeesAuthoritative reads the row, through the cache's
\* refresh; an admin may change the rates before the booking is inserted.
QuoteFees(p, price, nights) ==
    /\ quote = {} /\ amounts = {}
    /\ \E a \in feesFromRates(price * nights, rates) : quote' = {a}
    /\ refreshCache(p)
    /\ sold' = {rates}
    /\ UNCHANGED <<rates, amounts, payment, refund>>

\* The amounts are frozen in the booking.
CreateWithFees ==
    /\ quote # {} /\ quote' = {}
    /\ amounts' = quote
    /\ UNCHANGED <<rates, cached, fresh, sold, payment, refund>>

\* The insert or a later statement of the transaction fails.
CreationFails ==
    /\ quote # {} /\ quote' = {} /\ sold' = {}
    /\ UNCHANGED <<rates, cached, fresh, amounts, payment, refund>>

\* confirmPaymentSuccess: the intent is over total_paid (lockIntentAmount).
ConfirmAmounts ==
    \E a \in amounts :
        /\ payment = "NONE"
        /\ payment' = IF checkConfirmationLedgerInvariant(a) THEN "SETTLED" ELSE "REFUSED"
        /\ UNCHANGED <<rates, cached, fresh, quote, amounts, sold, refund>>

\* cancel, with the policy the listing has by then.
RefundAmount(policy, hours) ==
    \E a \in amounts :
        /\ payment = "SETTLED" /\ refund = {}
        /\ \E x \in calculateRefund(policy, hours, a.subtotal, a.guestFee) :
              x > 0 /\ refund' = {x}
        /\ UNCHANGED <<rates, cached, fresh, quote, amounts, sold, payment>>

MoneyInit ==
    /\ rates = [guest |-> 500, host |-> 500]
    /\ cached = [p \in Pods |-> {rates}] /\ fresh = Pods
    /\ quote = {} /\ amounts = {} /\ sold = {} /\ payment = "NONE" /\ refund = {}

MoneyNext ==
    \/ \E p \in Pods :
          \/ \E g, h \in FeePcts : updateFeeRates(p, [guest |-> g, host |-> h])
          \/ (p \in fresh /\ CacheExpires(p))
          \/ getFeeRatesAsync(p)
          \/ \E price \in Prices, nights \in StayLengths : QuoteFees(p, price, nights)
    \/ CreateWithFees \/ CreationFails
    \/ ConfirmAmounts
    \/ \E policy \in CancellationPolicy, hours \in HoursLeft : RefundAmount(policy, hours)

MoneySpec == MoneyInit /\ [][MoneyNext]_moneyVars

----------------------------------------------------------------------------

MoneyTypeOK ==
    /\ rates \in FeeRates /\ fresh \subseteq Pods
    /\ payment \in {"NONE", "SETTLED", "REFUSED"}

\* The fees of a booking are those of the rates in force when its creation asked
\* for them, although each process shows prices from a cache of its own and an
\* admin may change the rates before the insert; the host never pays to be booked.
ChargedTheRatesInForce ==
    \A a \in amounts : /\ \A r \in sold : a \in feesFromRates(a.subtotal, r)
                       /\ a.payoutAmount >= 0

\* A refund never exceeds what was paid, cancelling earlier never refunds less,
\* and a stricter policy never more.
RefundPolicyOrdered ==
    \A a \in amounts : \A h \in HoursLeft :
        LET R(policy, hours) == calculateRefund(policy, hours, a.subtotal, a.guestFee)
            AtMost(S, T) == \A x \in S : \E y \in T : x <= y
        IN  /\ AtMost(R("STRICT", h), R("MODERATE", h))
            /\ AtMost(R("MODERATE", h), R("FLEXIBLE", h))
            /\ AtMost(refund \cup R("FLEXIBLE", h), {a.totalPaid})
            /\ \A later \in {x \in HoursLeft : x < h} : \A p \in CancellationPolicy :
                  AtMost(R(p, later), R(p, h))

----------------------------------------------------------------------------
(* The inductive invariant behind the two above. *)

AmountsSound(a) ==
    /\ a.subtotal \in Nat \ {0} /\ a.guestFee \in Nat /\ a.hostFee \in Nat
    /\ a.totalPaid = a.subtotal + a.guestFee
    /\ a.payoutAmount = a.subtotal - a.hostFee /\ a.hostFee <= a.subtotal
    /\ \A r \in sold : a \in feesFromRates(a.subtotal, r)
    /\ \A x \in refund : x \in Nat /\ x <= a.totalPaid

MoneyInv ==
    /\ MoneyTypeOK
    /\ \A a \in amounts \cup quote : AmountsSound(a)
    /\ \A a, b \in amounts \cup quote : a = b
    /\ quote # {} => amounts = {}
    /\ amounts = {} => refund = {}
    /\ payment # "REFUSED"

=============================================================================
