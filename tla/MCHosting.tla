------------------------------ MODULE MCHosting ------------------------------
(***************************************************************************)
(* One instance for what surrounds a booking on the host's side: listings, *)
(* the verification of identities, amounts, reviews and calendars.  They   *)
(* share no state, so a behaviour runs one of them, chosen by the initial  *)
(* state, and the others stay where they start.                            *)
(***************************************************************************)
EXTENDS HostListings, KycCase, BookingMoney, Reviews, CalendarSync

VARIABLE part   \* the component that runs

\* The one reservation that feeds report: a guest stays in the night 0.
OneNight == {<<0, 1>>}

\* The components that are not chosen have a single initial state.
HostingInit ==
    /\ part \in {"listings", "kyc", "money", "reviews", "calendars"}
    /\ ListingsInit /\ KycInit /\ MoneyInit /\ ReviewsInit /\ CalendarInit
    /\ part # "reviews" => \A b \in Stays : stay[b] = "CONFIRMED"

HostingNext ==
    /\ UNCHANGED part
    /\ IF part = "listings" THEN ListingsNext ELSE UNCHANGED listingVars
    /\ IF part = "kyc" THEN KycNext ELSE UNCHANGED kycVars
    /\ IF part = "money" THEN MoneyNext ELSE UNCHANGED moneyVars
    /\ IF part = "reviews" THEN ReviewsNext ELSE UNCHANGED reviewVars
    /\ IF part = "calendars" THEN CalendarNext ELSE UNCHANGED calendarVars

HostingSpec ==
    HostingInit
    /\ [][HostingNext]_<<listingVars, kycVars, moneyVars, reviewVars, calendarVars, part>>

\* The rows and counters of the component that runs have their types.
HostingTypeOK ==
    /\ part = "listings" => ListingsTypeOK
    /\ part = "kyc" => KycTypeOK
    /\ part = "money" => MoneyTypeOK
    /\ part = "reviews" => ReviewsTypeOK
    /\ part = "calendars" => CalendarTypeOK

==============================================================================
